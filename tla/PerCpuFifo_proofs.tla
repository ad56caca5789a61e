------------------------- MODULE PerCpuFifo_proofs -------------------------
(***************************************************************************)
(* No agent of the per-cpu FIFO scheduler sleeps on work, for any tasks,   *)
(* cpus and bounds, whichever tasks depart or switch to one another: as    *)
(* long as no CHECK has failed, and if no task that departed comes back.   *)
(***************************************************************************)
EXTENDS PerCpuFifo, TLAPS

-----------------------------------------------------------------------------
(* The parts of the inductive invariant. *)

\* The messages of the kernel.
Mess == [type : MsgTypes, task : Tasks, seqnum : Int, flag : BOOLEAN,
         fsw : BOOLEAN, cpu : Cpus]

\* The types of the kernel's and of the scheduler's variables, without the bounds,
\* which nothing below needs.
KTypes ==
    /\ kstate \in [Tasks -> {"out", "blocked", "runnable", "running", "dying", "gone"}]
    /\ kcur \in [Cpus -> Tasks \cup {NoTask}]
    /\ chain \in [Cpus -> BOOLEAN]
    /\ on_cpu \in [Tasks -> BOOLEAN]
    /\ barrier \in [Tasks -> Int]
    /\ assoc \in [Tasks -> Cpus]
    /\ channel \in [Cpus -> Seq(Mess)]
    /\ stale \in [Cpus -> BOOLEAN]
    /\ agentRuns \in [Cpus -> BOOLEAN]
    /\ cfs \in [Cpus -> BOOLEAN]

STypes ==
    /\ known \subseteq Tasks
    /\ task \in [Tasks -> [run_state : RunStates, cpu : Cpus \cup {NoCpu},
                           prio_boost : BOOLEAN, seqnum : Int]]
    /\ rq \in [Cpus -> Seq(Tasks)]
    /\ current \in [Cpus -> Tasks \cup {NoTask}]
    /\ pc \in [Cpus -> PCs]
    /\ nxt \in [Cpus -> Tasks \cup {NoTask}]
    /\ dest \in [Cpus -> Cpus \cup {NoCpu}]
    /\ rr \in Cpus
    /\ on_idle \in [Cpus -> BOOLEAN]
    /\ fault \in BOOLEAN

\* The messages of a queue, and those behind its head.
Elems(s) == {s[i] : i \in DOMAIN s}
Later(s) == {s[i] : i \in DOMAIN s \ {1}}

\* In Migrate, with the message that made it necessary at Peek.
Migrating == {"associate", "set_queued", "push", "ping", "advance"}

\* The messages of channel q that no agent has begun to handle.
Unread(q) == IF pc[q] \in Migrating THEN Later(channel[q]) ELSE Elems(channel[q])

\* The allocator has yet to learn of t.
UnreadNew(t) == \E m \in Unread(DefaultChan) : m.task = t /\ m.type = "NEW"

\* t is associated with its cpu, which is about to be stored into task->cpu.
Handover(t) == pc[DefaultChan] = "set_queued" /\ Peek(DefaultChan).task = t

\* The channel in which the unread messages about t are.
Home(t) ==
    IF t \notin known THEN DefaultChan
    ELSE IF task[t].cpu # NoCpu THEN task[t].cpu
    ELSE IF Handover(t) THEN dest[DefaultChan]
    ELSE DefaultChan

\* The agent of c has t in its queue, as its current task or in hand.
InHands == {"spin", "commit", "in_run"}
Holds(c, t) ==
    \/ current[c] = t
    \/ Contains(rq[c], t)
    \/ pc[c] \in InHands /\ nxt[c] = t

\* t is runnable, has no cpu, and is about to be given one by Migrate.
Unassigned(t) == t \in known /\ task[t].cpu = NoCpu /\ task[t].run_state = "kRunnable"

\* The agent of c, which is that of the default channel, is migrating t.
Migrates(c, t) ==
    /\ c = DefaultChan /\ channel[c] # << >> /\ Peek(c).task = t
    /\ Peek(c).type \in {"NEW", "WAKEUP"}
    /\ pc[c] \in {"set_queued", "push", "ping"} => dest[c] \in Cpus
    /\ pc[c] = "set_queued" => Unassigned(t)
    /\ pc[c] = "push" /\ t \in known => task[t].cpu = dest[c]

\* Whoever is in Migrate has a task to migrate.
Migration == \A c \in Cpus : pc[c] \in Migrating => \E t \in Tasks : Migrates(c, t)

\* What a message says of its task.
Dated(m) ==
    /\ m.seqnum <= barrier[m.task]
    /\ kstate[m.task] # "out"
    /\ m.type \in {"DEPARTED", "DEAD"} => kstate[m.task] = "gone"
    /\ m.type \in {"NEW", "WAKEUP", "SWITCHTO", "DEAD"} => ~m.fsw

\* Where an unread message is, and what the books say of its task.
Placed(m, q) ==
    /\ q = Home(m.task)
    /\ m.type = "NEW" => m.task \notin known /\ \A c \in Cpus : ~Holds(c, m.task)
    /\ m.fsw /\ m.task \notin known => UnreadNew(m.task)

\* The messages about a task: NEW comes first, nothing after DEPARTED and DEAD.
Precedes(m, n) ==
    m.task = n.task => /\ m.seqnum < n.seqnum
                       /\ m.type \notin {"DEPARTED", "DEAD"} /\ n.type # "NEW"
Order(s) == \A i, j \in DOMAIN s : i < j => Precedes(s[i], s[j])

Mail ==
    \A q \in Cpus : /\ \A m \in Elems(channel[q]) : Dated(m)
                    /\ \A m \in Unread(q) : Placed(m, q)
                    /\ Order(channel[q])

\* A task is associated with the channel its messages are in; a task that did not
\* leave is known, or about to be; an agent holds its own tasks.
Booked(t) ==
    /\ kstate[t] = "out" => t \notin known
    /\ kstate[t] # "gone" => assoc[t] = Home(t)
    /\ kstate[t] \notin {"out", "gone"} => t \in known \/ UnreadNew(t)
    /\ \A c \in Cpus : Holds(c, t) => /\ t \in known => task[t].cpu = c
                                      /\ kstate[t] # "gone" => t \in known

\* What runs on c: the task its agent committed, unless it switched to another.
Runs(c, t) ==
    /\ pc[c] = "in_run" /\ kstate[t] = "running" /\ on_cpu[t]
    /\ \A d \in Cpus : kcur[d] = t => d = c
    /\ ~chain[c] => t \in known /\ task[t].cpu = c

Running(c) ==
    /\ agentRuns[c] <=> pc[c] \notin {"asleep", "in_run"}
    /\ pc[c] \in InHands => nxt[c] \in Tasks
    /\ chain[c] => kcur[c] # NoTask
    /\ \A t \in Tasks : kcur[c] = t => Runs(c, t)

\* What an agent that is about to sleep, or sleeps, may rely on.
Awake(c) ==
    /\ pc[c] \in {"sched", "yield", "asleep"} => channel[c] = << >> \/ stale[c]
    /\ pc[c] \in {"yield", "asleep"} =>
         \/ rq[c] = << >> /\ current[c] = NoTask
         \/ on_idle[c] \/ stale[c] \/ PingComing(c)
    /\ pc[c] = "in_run" /\ kcur[c] = NoTask => stale[c] \/ PingComing(c)

\* The inductive invariant.
IInv ==
    /\ KTypes /\ STypes
    /\ Migration /\ Mail
    /\ \A t \in Tasks : Booked(t)
    /\ \A c \in Cpus : Running(c) /\ Awake(c)

\* A failed CHECK ends the process.
Alive == ~fault => IInv

-----------------------------------------------------------------------------
(* Constants and sequences. *)

\* What the assumptions say of the cpus, the channels and the null values.
LEMMA Constants ==
    /\ DefaultChan \in Cpus /\ Channels = Cpus /\ Cpus \subseteq Nat
    /\ NoTask \notin Tasks /\ NoCpu \notin Cpus /\ AgentPreempts \subseteq BOOLEAN
  BY KernelAssumption, FifoAssumption

\* payload->cpu is a cpu.
LEMMA AnyCpuIsCpu == AnyCpu \in Cpus
  BY Constants DEF AnyCpu

\* Appending a message.
LEMMA AppendElems ==
    ASSUME NEW S, NEW s \in Seq(S), NEW m \in S
    PROVE  /\ Append(s, m) \in Seq(S) /\ Append(s, m) # << >>
           /\ Elems(Append(s, m)) = Elems(s) \cup {m}
           /\ s # << >> => /\ Later(Append(s, m)) = Later(s) \cup {m}
                          /\ Head(Append(s, m)) = Head(s)
  <1>1. /\ DOMAIN Append(s, m) = DOMAIN s \cup {Len(s) + 1}
        /\ \A i \in DOMAIN s : Append(s, m)[i] = s[i]
        /\ Append(s, m)[Len(s) + 1] = m
        /\ s # << >> => Len(s) + 1 # 1 /\ 1 \in DOMAIN s
        /\ Append(s, m) \in Seq(S) /\ Append(s, m) # << >>
    OBVIOUS
  <1>2. Elems(Append(s, m)) = Elems(s) \cup {m}
    BY <1>1, ZenonT(60) DEF Elems
  <1>3. ASSUME s # << >>
        PROVE  Later(Append(s, m)) = Later(s) \cup {m}
    BY <1>1, <1>3, ZenonT(60) DEF Later
  <1>4. ASSUME s # << >>
        PROVE  Head(Append(s, m)) = Head(s)
    BY <1>4
  <1> QED  BY <1>1, <1>2, <1>3, <1>4, Zenon

\* Taking the head.
LEMMA TailElems ==
    ASSUME NEW S, NEW s \in Seq(S), s # << >>
    PROVE  /\ Tail(s) \in Seq(S) /\ Head(s) \in S
           /\ Elems(Tail(s)) = Later(s)
           /\ Elems(s) = Later(s) \cup {Head(s)}
  <1>1. /\ 1 \in DOMAIN s /\ Head(s) = s[1] /\ s[1] \in S /\ Tail(s) \in Seq(S)
        /\ \A i \in DOMAIN Tail(s) : i + 1 \in DOMAIN s \ {1} /\ Tail(s)[i] = s[i + 1]
        /\ \A j \in DOMAIN s \ {1} : j - 1 \in DOMAIN Tail(s) /\ Tail(s)[j - 1] = s[j]
    OBVIOUS
  <1>2. ASSUME NEW x \in Elems(Tail(s))  PROVE x \in Later(s)
    <2>1. PICK i \in DOMAIN Tail(s) : x = Tail(s)[i]
      BY <1>2, Zenon DEF Elems
    <2>2. i + 1 \in DOMAIN s \ {1} /\ x = s[i + 1]
      BY <1>1, <2>1, Zenon
    <2> QED  BY <2>2, Zenon DEF Later
  <1>3. ASSUME NEW x \in Later(s)  PROVE x \in Elems(Tail(s))
    <2>1. PICK j \in DOMAIN s \ {1} : x = s[j]
      BY <1>3, Zenon DEF Later
    <2>2. j - 1 \in DOMAIN Tail(s) /\ x = Tail(s)[j - 1]
      BY <1>1, <2>1, Zenon
    <2> QED  BY <2>2, Zenon DEF Elems
  <1>4. ASSUME NEW x \in Elems(s), x # Head(s)  PROVE x \in Later(s)
    <2>1. PICK j \in DOMAIN s : x = s[j]
      BY <1>4, Zenon DEF Elems
    <2>2. j \in DOMAIN s \ {1}
      BY <1>1, <1>4, <2>1, Zenon
    <2> QED  BY <2>1, <2>2, Zenon DEF Later
  <1>5. Later(s) \subseteq Elems(s) /\ Head(s) \in Elems(s)
    BY <1>1, Zenon DEF Elems, Later
  <1> QED  BY <1>1, <1>2, <1>3, <1>4, <1>5, Zenon

\* The messages of a channel are messages.
LEMMA ElemsIn ==
    ASSUME NEW S, NEW s \in Seq(S)
    PROVE  /\ Elems(s) \subseteq S /\ Later(s) \subseteq Elems(s)
           /\ s = << >> <=> Elems(s) = {}
  <1>1. \A i \in DOMAIN s : s[i] \in S
    OBVIOUS
  <1>2. s # << >> => 1 \in DOMAIN s
    OBVIOUS
  <1>3. s = << >> => DOMAIN s = {}
    OBVIOUS
  <1> QED  BY <1>1, <1>2, <1>3, Zenon DEF Elems, Later

\* Order, and what it says of the head.
LEMMA OrderAppend ==
    ASSUME NEW S, NEW s \in Seq(S), NEW m \in S, Order(s),
           \A n \in Elems(s) : Precedes(n, m)
    PROVE  Order(Append(s, m))
  <1>1. /\ DOMAIN Append(s, m) = DOMAIN s \cup {Len(s) + 1}
        /\ \A i \in DOMAIN s : Append(s, m)[i] = s[i] /\ ~(Len(s) + 1 < i)
        /\ Append(s, m)[Len(s) + 1] = m
        /\ ~(Len(s) + 1 < Len(s) + 1)
    OBVIOUS
  <1>2. \A i \in DOMAIN s : Precedes(s[i], m)
    BY Zenon DEF Elems
  <1> QED  BY <1>1, <1>2, Zenon DEF Order

\* A message precedes those behind it, and what is left keeps its order.
LEMMA OrderTail ==
    ASSUME NEW S, NEW s \in Seq(S), s # << >>, Order(s)
    PROVE  /\ Order(Tail(s))
           /\ \A m \in Later(s) : Precedes(Head(s), m)
  <1>1. /\ 1 \in DOMAIN s /\ Head(s) = s[1]
        /\ \A i \in DOMAIN Tail(s) : i + 1 \in DOMAIN s /\ Tail(s)[i] = s[i + 1]
        /\ \A j \in DOMAIN s \ {1} : 1 < j
        /\ \A i, j \in DOMAIN Tail(s) : i < j => i + 1 < j + 1
    OBVIOUS
  <1>2. Order(Tail(s))
    BY <1>1, Zenon DEF Order
  <1>3. \A m \in Later(s) : Precedes(Head(s), m)
    <2> SUFFICES ASSUME NEW m \in Later(s)  PROVE Precedes(Head(s), m)
      BY Zenon
    <2>1. PICK j \in DOMAIN s \ {1} : m = s[j]
      BY Zenon DEF Later
    <2>2. Precedes(s[1], s[j])
      BY <1>1, Zenon DEF Order
    <2> QED  BY <1>1, <2>1, <2>2, Zenon
  <1> QED  BY <1>2, <1>3, Zenon

\* Run queues.
LEMMA PushedQueue ==
    ASSUME NEW q \in Seq(Tasks), NEW t \in Tasks, NEW b
    PROVE  /\ Pushed(q, t, b) \in Seq(Tasks)
           /\ \A u : Contains(Pushed(q, t, b), u) => Contains(q, u) \/ u = t
  <1>1. /\ <<t>> \o q \in Seq(Tasks) /\ Append(q, t) \in Seq(Tasks)
        /\ \A i \in DOMAIN (<<t>> \o q) :
             \/ (<<t>> \o q)[i] = t
             \/ i - 1 \in DOMAIN q /\ (<<t>> \o q)[i] = q[i - 1]
        /\ \A i \in DOMAIN Append(q, t) :
             \/ Append(q, t)[i] = t
             \/ i \in DOMAIN q /\ Append(q, t)[i] = q[i]
    OBVIOUS
  <1>2. CASE b
    BY <1>1, <1>2, Zenon DEF Pushed, Contains
  <1>3. CASE ~b
    BY <1>1, <1>3, Zenon DEF Pushed, Contains
  <1> QED  BY <1>2, <1>3, Zenon

\* FifoRq::Dequeue takes a task the queue contains, and adds none.
LEMMA TailQueue ==
    ASSUME NEW q \in Seq(Tasks), q # << >>
    PROVE  /\ Tail(q) \in Seq(Tasks) /\ Head(q) \in Tasks /\ Contains(q, Head(q))
           /\ \A u : Contains(Tail(q), u) => Contains(q, u)
  <1>1. /\ Tail(q) \in Seq(Tasks) /\ 1 \in DOMAIN q /\ Head(q) = q[1] /\ q[1] \in Tasks
        /\ \A i \in DOMAIN Tail(q) : i + 1 \in DOMAIN q /\ Tail(q)[i] = q[i + 1]
    OBVIOUS
  <1> QED  BY <1>1, Zenon DEF Contains

\* FifoRq::Erase leaves a queue of tasks that were in it.
LEMMA EraseQueue ==
    ASSUME NEW q \in Seq(Tasks), NEW t, Contains(q, t),
           Min({i \in DOMAIN q : q[i] = t}) \in {i \in DOMAIN q : q[i] = t}
    PROVE  /\ Erase(q, t) \in Seq(Tasks)
           /\ \A u : Contains(Erase(q, t), u) => Contains(q, u)
  <1> DEFINE first == Min({i \in DOMAIN q : q[i] = t})
             pos == IF q[Len(q)] = t THEN Len(q) ELSE first
  <1>1. Len(q) \in DOMAIN q
    BY DEF Contains
  <1>2. pos \in DOMAIN q
    BY <1>1, Zenon
  <1> HIDE DEF pos
  <1> DEFINE a == SubSeq(q, 1, pos - 1)
             b == SubSeq(q, pos + 1, Len(q))
  <1>3. Len(q) \in Nat /\ DOMAIN q = 1 .. Len(q) /\ pos \in 1 .. Len(q)
    BY <1>2
  <1>4. a \in Seq(Tasks) /\ Len(a) = pos - 1 /\ \A i \in DOMAIN a : a[i] = q[i] /\ i \in DOMAIN q
    BY ONLY <1>3, q \in Seq(Tasks)
  <1>5. b \in Seq(Tasks) /\ \A i \in DOMAIN b : b[i] = q[pos + i] /\ pos + i \in DOMAIN q
    BY ONLY <1>3, q \in Seq(Tasks)
  <1>6. Erase(q, t) = a \o b
    BY Zenon DEF Erase, pos
  <1> HIDE DEF a, b
  <1>7. /\ a \o b \in Seq(Tasks)
        /\ \A i \in DOMAIN (a \o b) :
             \/ i \in DOMAIN a /\ (a \o b)[i] = a[i]
             \/ i - Len(a) \in DOMAIN b /\ (a \o b)[i] = b[i - Len(a)]
    BY ONLY <1>4, <1>5
  <1>8. \A i \in DOMAIN (a \o b) : \E j \in DOMAIN q : (a \o b)[i] = q[j]
    BY <1>4, <1>5, <1>7, Zenon
  <1> QED  BY <1>6, <1>7, <1>8, Zenon DEF Contains

-----------------------------------------------------------------------------
(* What a step leaves as it is. *)

\* The kernel takes no task in and lets none go, but perhaps those of S.
SameTasks(S) ==
    \A u \in Tasks \ S : /\ kstate'[u] = "out" <=> kstate[u] = "out"
                         /\ kstate'[u] = "gone" <=> kstate[u] = "gone"
                         /\ kstate[u] # "gone" => assoc'[u] = assoc[u]

\* The books on u; an agent may let go of it, and gain it only if it is its own.
Kept(u) ==
    /\ u \in known' <=> u \in known
    /\ u \in known => task'[u].cpu = task[u].cpu
    /\ Home(u)' = Home(u)
    /\ UnreadNew(u) => UnreadNew(u)'
    /\ \A c \in Cpus : Holds(c, u)' => Holds(c, u) \/ (u \in known /\ task[u].cpu = c)

\* A message stays where it belongs when the books on its task are kept.
LEMMA KeptPlaced ==
    ASSUME NEW m, NEW q, Kept(m.task), Placed(m, q)
    PROVE  Placed(m, q)'
  BY Zenon DEF Kept, Placed

\* Kept books stay right for a task that the kernel neither takes in nor lets go.
LEMMA KeptBooked ==
    ASSUME NEW u \in Tasks, Kept(u), Booked(u), NEW S, u \notin S, SameTasks(S)
    PROVE  Booked(u)'
  <1>1. /\ kstate'[u] = "out" <=> kstate[u] = "out"
        /\ kstate'[u] = "gone" <=> kstate[u] = "gone"
        /\ kstate[u] # "gone" => assoc'[u] = assoc[u]
    BY Zenon DEF SameTasks
  <1>2. kstate'[u] = "out" => u \notin known'
    BY <1>1, Zenon DEF Kept, Booked
  <1>3. kstate'[u] # "gone" => assoc'[u] = Home(u)'
    BY <1>1, Zenon DEF Kept, Booked
  <1>4. kstate'[u] \notin {"out", "gone"} => u \in known' \/ UnreadNew(u)'
    BY <1>1, Zenon DEF Kept, Booked
  <1>5. \A c \in Cpus : Holds(c, u)' =>
          /\ u \in known' => task'[u].cpu = c
          /\ kstate'[u] # "gone" => u \in known'
    BY <1>1, Zenon DEF Kept, Booked
  <1> QED  BY <1>2, <1>3, <1>4, <1>5, Zenon DEF Booked

\* The messages, when the books are kept and none is added.
LEMMA MailKept ==
    ASSUME KTypes, Mail, barrier' = barrier, SameTasks({}),
           \A u \in Tasks : Kept(u),
           \A q \in Cpus : /\ Elems(channel'[q]) \subseteq Elems(channel[q])
                           /\ Unread(q)' \subseteq Unread(q)
                           /\ Order(channel'[q])
    PROVE  Mail'
  <1> SUFFICES ASSUME NEW q \in Cpus
               PROVE  /\ \A m \in Elems(channel'[q]) : Dated(m)'
                      /\ \A m \in Unread(q)' : Placed(m, q)'
    BY Zenon DEF Mail
  <1>1. \A m \in Elems(channel[q]) : m.task \in Tasks
    <2>1. Elems(channel[q]) \subseteq Mess
      BY ElemsIn, Zenon DEF KTypes
    <2> QED  BY <2>1 DEF Mess
  <1>2. Unread(q) \subseteq Elems(channel[q])
    BY ElemsIn, Zenon DEF KTypes, Unread
  <1>3. ASSUME NEW m \in Elems(channel'[q])  PROVE Dated(m)'
    <2>1. Dated(m) /\ m.task \in Tasks
      BY <1>1, Zenon DEF Mail
    <2> QED  BY <2>1, Zenon DEF Dated, SameTasks
  <1>4. ASSUME NEW m \in Unread(q)'  PROVE Placed(m, q)'
    BY <1>1, <1>2, KeptPlaced, Zenon DEF Mail
  <1> QED  BY <1>3, <1>4, Zenon

\* No agent enters or leaves Migrate, or the handover in it.
SamePhase ==
    /\ \A q \in Cpus : pc'[q] \in Migrating <=> pc[q] \in Migrating
    /\ pc'[DefaultChan] = "set_queued" <=> pc[DefaultChan] = "set_queued"

\* An agent's step that neither begins nor ends Migrate is no phase change.
LEMMA PhaseFrame ==
    ASSUME STypes, NEW c \in Cpus, NEW x, pc' = [pc EXCEPT ![c] = x],
           x \in Migrating <=> pc[c] \in Migrating,
           pc[c] # "set_queued", x # "set_queued"
    PROVE  SamePhase
  <1>1. \A q \in Cpus : pc'[q] = IF q = c THEN x ELSE pc[q]
    BY Zenon DEF STypes
  <1> QED  BY <1>1, Constants, Zenon DEF SamePhase

\* The books of all tasks.
BooksKept ==
    /\ SamePhase /\ known' = known /\ dest' = dest
    /\ \A u \in known : task'[u].cpu = task[u].cpu
    /\ \A c \in Cpus, u \in Tasks :
         Holds(c, u)' => Holds(c, u) \/ (u \in known /\ task[u].cpu = c)

\* The books of all tasks are those of each.
LEMMA KeptFromBooks ==
    ASSUME BooksKept, NEW u \in Tasks,
           pc[DefaultChan] = "set_queued" => Peek(DefaultChan)' = Peek(DefaultChan),
           Unread(DefaultChan) \subseteq Unread(DefaultChan)'
    PROVE  Kept(u)
  <1>1. Handover(u)' <=> Handover(u)
    BY Zenon DEF BooksKept, SamePhase, Handover
  <1>2. Home(u)' = Home(u)
    BY <1>1, Zenon DEF BooksKept, Home
  <1>3. UnreadNew(u) => UnreadNew(u)'
    BY Zenon DEF UnreadNew
  <1> QED  BY <1>2, <1>3, Zenon DEF BooksKept, Kept

\* A step that touches no channel.
LEMMA QuietMail ==
    ASSUME IInv, BooksKept, channel' = channel, barrier' = barrier, SameTasks({})
    PROVE  Mail' /\ \A u \in Tasks : Booked(u)'
  <1>1. \A q \in Cpus : Unread(q)' = Unread(q)
    BY Zenon DEF Unread, BooksKept, SamePhase
  <1>2. \A u \in Tasks : Kept(u)
    BY <1>1, Constants, KeptFromBooks, Zenon DEF Peek
  <1>3. Mail'
    BY <1>1, <1>2, MailKept, Zenon DEF IInv, Mail
  <1>4. \A u \in Tasks : Booked(u)'
    BY <1>2, KeptBooked, Zenon DEF IInv
  <1> QED  BY <1>3, <1>4, Zenon

\* A step that consumes the message at Peek(c), which is not a new task's.
LEMMA TakeMail ==
    ASSUME IInv, BooksKept, NEW c \in Cpus, pc[c] \notin Migrating, channel[c] # << >>,
           Consume(c), Peek(c).type # "NEW", barrier' = barrier, SameTasks({})
    PROVE  Mail' /\ \A u \in Tasks : Booked(u)'
  <1>1. /\ channel[c] \in Seq(Mess)
        /\ \A q \in Cpus : channel'[q] = IF q = c THEN Tail(channel[c]) ELSE channel[q]
    BY Zenon DEF IInv, KTypes, Consume
  <1>2. /\ Elems(channel'[c]) = Later(channel[c])
        /\ Elems(channel[c]) = Later(channel[c]) \cup {Peek(c)}
        /\ Order(channel'[c])
    BY <1>1, TailElems, OrderTail, Zenon DEF Peek, IInv, Mail
  <1>3. \A q \in Cpus : /\ Unread(q)' \subseteq Unread(q)
                        /\ \A m \in Unread(q) : m \in Unread(q)' \/ m = Peek(c)
                        /\ Elems(channel'[q]) \subseteq Elems(channel[q])
                        /\ Order(channel'[q])
    <2> SUFFICES ASSUME NEW q \in Cpus
                 PROVE  /\ Unread(q)' \subseteq Unread(q)
                        /\ \A m \in Unread(q) : m \in Unread(q)' \/ m = Peek(c)
                        /\ Elems(channel'[q]) \subseteq Elems(channel[q])
                        /\ Order(channel'[q])
      BY Zenon
    <2>0. pc'[q] \in Migrating <=> pc[q] \in Migrating
      BY Zenon DEF BooksKept, SamePhase
    <2>1. CASE q = c
      BY <1>2, <2>0, <2>1, Zenon DEF Unread
    <2>2. CASE q # c
      <3>1. channel'[q] = channel[q] /\ Order(channel[q])
        BY <1>1, <2>2, Zenon DEF IInv, Mail
      <3>2. Unread(q)' = Unread(q)
        BY <2>0, <3>1, Zenon DEF Unread
      <3> QED  BY <3>1, <3>2, Zenon
    <2> QED  BY <2>1, <2>2, Zenon
  <1>4. \A u \in Tasks : Kept(u)
    <2> SUFFICES ASSUME NEW u \in Tasks  PROVE Kept(u)
      BY Zenon
    <2>1. Handover(u)' <=> Handover(u)
      <3>1. pc[DefaultChan] = "set_queued" => DefaultChan # c
        BY Zenon DEF Migrating
      <3> QED  BY <1>1, <3>1, Constants, Zenon DEF BooksKept, SamePhase, Handover, Peek
    <2>2. Home(u)' = Home(u)
      BY <2>1, Zenon DEF BooksKept, Home
    <2>3. UnreadNew(u) => UnreadNew(u)'
      BY <1>3, Constants, Zenon DEF UnreadNew
    <2> QED  BY <2>2, <2>3, Zenon DEF BooksKept, Kept
  <1>5. Mail'
    BY <1>3, <1>4, MailKept, Zenon DEF IInv
  <1>6. \A u \in Tasks : Booked(u)'
    BY <1>4, KeptBooked, Zenon DEF IInv
  <1> QED  BY <1>5, <1>6, Zenon

\* A step that sends a message about t.
LEMMA PostMail ==
    ASSUME IInv, BooksKept, NEW t \in Tasks, NEW m \in Mess, m.task = t,
           m.seqnum = barrier[t] + 1, Send(m),
           kstate[t] # "gone", kstate'[t] # "out",
           m.type = "NEW" <=> kstate[t] = "out",
           m.type \in {"DEPARTED", "DEAD"} <=> kstate'[t] = "gone",
           m.type \in {"NEW", "WAKEUP", "SWITCHTO", "DEAD"} => ~m.fsw,
           kstate'[t] # "gone" => assoc'[t] = assoc[t], SameTasks({t})
    PROVE  /\ Mail' /\ \A u \in Tasks : Booked(u)'
           /\ channel' \in [Cpus -> Seq(Mess)] /\ barrier' \in [Tasks -> Int]
           /\ \A q \in Cpus : /\ Elems(channel[q]) \subseteq Elems(channel'[q])
                              /\ pc[q] \in Migrating => /\ channel'[q] # << >>
                                                       /\ Peek(q)' = Peek(q)
           /\ m \in Elems(channel'[assoc[t]])
           /\ \A q \in Cpus : q # assoc[t] => channel'[q] = channel[q]
  <1>0. PICK a \in Cpus : a = assoc[t]
    BY Zenon DEF IInv, KTypes
  <1>1. /\ a \in Cpus /\ a = Home(t) /\ Booked(t)
        /\ kstate[t] = "out" => t \notin known /\ a = DefaultChan
    BY <1>0, Zenon DEF IInv, Booked, Home
  <1>2. /\ \A q \in Cpus : channel[q] \in Seq(Mess)
        /\ \A q \in Cpus : channel'[q] = IF q = a THEN Append(channel[a], m) ELSE channel[q]
        /\ DOMAIN channel' = Cpus /\ channel' = [q \in Cpus |-> channel'[q]]
    BY <1>0, Zenon DEF IInv, KTypes, Send
  <1>3. /\ \A u \in Tasks : barrier[u] \in Int
        /\ \A u \in Tasks : barrier'[u] = IF u = t THEN barrier[t] + 1 ELSE barrier[u]
        /\ barrier' \in [Tasks -> Int]
    <2>1. barrier \in [Tasks -> Int] /\ barrier' = [barrier EXCEPT ![t] = barrier[t] + 1]
      BY Zenon DEF IInv, KTypes, Send
    <2> QED  BY <2>1
  <1>4. /\ Append(channel[a], m) \in Seq(Mess) /\ Append(channel[a], m) # << >>
        /\ Elems(Append(channel[a], m)) = Elems(channel[a]) \cup {m}
        /\ channel[a] # << >> => /\ Later(Append(channel[a], m)) = Later(channel[a]) \cup {m}
                                /\ Head(Append(channel[a], m)) = Head(channel[a])
    <2>1. channel[a] \in Seq(Mess)
      BY <1>2, Zenon
    <2> QED  BY ONLY <2>1, m \in Mess, AppendElems, Zenon
  <1>5. ASSUME NEW q \in Cpus
        PROVE  /\ q = a => Elems(channel'[q]) = Elems(channel[q]) \cup {m}
               /\ q = a => Unread(q)' = Unread(q) \cup {m}
               /\ q # a => channel'[q] = channel[q] /\ Unread(q)' = Unread(q)
               /\ pc[q] \in Migrating => channel'[q] # << >> /\ Peek(q)' = Peek(q)
               /\ channel'[q] \in Seq(Mess)
    <2>1. pc'[q] \in Migrating <=> pc[q] \in Migrating
      BY Zenon DEF BooksKept, SamePhase
    <2>2. pc[q] \in Migrating => channel[q] # << >>
      BY Zenon DEF IInv, Migration, Migrates
    <2>3. CASE q = a
      BY <1>2, <1>4, <2>1, <2>2, <2>3, Zenon DEF Unread, Peek
    <2>4. CASE q # a
      BY <1>2, <2>1, <2>2, <2>4, Zenon DEF Unread, Peek
    <2> QED  BY <2>3, <2>4, Zenon
  <1>6. \A u \in Tasks : Kept(u)
    <2>1. pc[DefaultChan] = "set_queued" => Peek(DefaultChan)' = Peek(DefaultChan)
      BY <1>5, Constants, Zenon DEF Migrating
    <2>2. Unread(DefaultChan) \subseteq Unread(DefaultChan)'
      BY <1>5, Constants, Zenon
    <2> QED  BY <2>1, <2>2, KeptFromBooks, Zenon
  <1>7. \A q \in Cpus : \A n \in Elems(channel[q]) : n \in Mess /\ Dated(n)
    BY <1>2, ElemsIn, Zenon DEF IInv, Mail
  <1>8. ASSUME NEW q \in Cpus, NEW n \in Elems(channel[q])  PROVE Dated(n)' /\ n.task \in Tasks
    <2>1. Dated(n) /\ n.task \in Tasks /\ n.seqnum \in Int
      BY <1>7 DEF Mess
    <2>2. n.seqnum <= barrier'[n.task]
      BY <1>3, <2>1 DEF Dated
    <2>3. CASE n.task = t
      BY <2>1, <2>2, <2>3, Zenon DEF Dated
    <2>4. CASE n.task # t
      BY <2>1, <2>2, <2>4, Zenon DEF Dated, SameTasks
    <2> QED  BY <2>1, <2>3, <2>4, Zenon
  <1>9. Dated(m)'
    <2>1. m.seqnum <= barrier'[t]
      BY <1>3
    <2> QED  BY <2>1, Zenon DEF Dated
  <1>10. Placed(m, a)'
    <2>1. Kept(t)
      BY <1>6, Zenon
    <2>2. a = Home(t)'
      BY <1>1, <2>1, Zenon DEF Kept
    <2>3. m.type = "NEW" => t \notin known' /\ \A c \in Cpus : ~Holds(c, t)'
      BY <1>1, <2>1, Zenon DEF Kept, Booked
    <2>4. m.fsw /\ t \notin known' => UnreadNew(t)'
      BY <1>1, <2>1, Zenon DEF Kept, Booked
    <2> QED  BY <2>2, <2>3, <2>4, Zenon DEF Placed
  <1>11. ASSUME NEW n \in Elems(channel[a])  PROVE Precedes(n, m)
    <2>1. Dated(n) /\ n.seqnum \in Int
      BY <1>1, <1>7 DEF Mess
    <2>2. n.task = t => n.seqnum < m.seqnum
      BY <1>3, <2>1 DEF Dated
    <2> QED  BY <2>1, <2>2, Zenon DEF Precedes, Dated
  <1>12. ASSUME NEW q \in Cpus
         PROVE  /\ \A n \in Elems(channel'[q]) : Dated(n)'
                /\ \A n \in Unread(q)' : Placed(n, q)'
                /\ Order(channel'[q])
    <2>1. \A n \in Elems(channel'[q]) : Dated(n)'
      BY <1>5, <1>8, <1>9, Zenon
    <2>2. \A n \in Unread(q) : Placed(n, q)'
      <3>1. Unread(q) \subseteq Elems(channel[q])
        BY <1>2, ElemsIn, Zenon DEF Unread
      <3> QED  BY <1>6, <1>8, <3>1, KeptPlaced, Zenon DEF IInv, Mail
    <2>3. \A n \in Unread(q)' : Placed(n, q)'
      BY <1>5, <1>10, <2>2, Zenon
    <2>4. Order(channel'[q])
      <3>1. channel[q] \in Seq(Mess) /\ Order(channel[q])
        BY <1>2, Zenon DEF IInv, Mail
      <3>2. CASE q = a
        <4>1. \A n \in Elems(channel[q]) : Precedes(n, m)
          BY <1>11, <3>2, Zenon
        <4>2. Order(Append(channel[q], m))
          BY ONLY <3>1, <4>1, m \in Mess, OrderAppend, Zenon
        <4> QED  BY <1>2, <3>2, <4>2, Zenon
      <3>3. CASE q # a
        BY <1>2, <3>1, <3>3, Zenon
      <3> QED  BY <3>2, <3>3, Zenon
    <2> QED  BY <2>1, <2>3, <2>4, Zenon
  <1>13. Mail'
    BY <1>12, Zenon DEF Mail
  <1>14. \A u \in Tasks : u # t => Booked(u)'
    BY <1>6, KeptBooked, Zenon DEF IInv
  <1>15. Booked(t)'
    <2>1. Kept(t)
      BY <1>6, Zenon
    <2>2. kstate'[t] # "gone" => assoc'[t] = Home(t)'
      BY <1>0, <1>1, <2>1, Zenon DEF Kept
    <2>3. t \in known' \/ UnreadNew(t)'
      <3>1. CASE kstate[t] = "out"
        <4>1. m \in Unread(DefaultChan)' /\ m.type = "NEW"
          BY <1>1, <1>5, <3>1, Zenon
        <4> QED  BY <4>1, Zenon DEF UnreadNew
      <3>2. CASE kstate[t] # "out"
        BY <1>1, <2>1, <3>2, Zenon DEF Kept, Booked
      <3> QED  BY <3>1, <3>2, Zenon
    <2>4. \A c \in Cpus : Holds(c, t)' => t \in known' /\ task'[t].cpu = c
      BY <1>1, <2>1, Zenon DEF Kept, Booked
    <2> QED  BY <2>2, <2>3, <2>4, Zenon DEF Booked
  <1>16. channel' \in [Cpus -> Seq(Mess)]
    BY <1>2, <1>5, Zenon
  <1>17. \A q \in Cpus : Elems(channel[q]) \subseteq Elems(channel'[q])
    BY <1>5, Zenon
  <1> QED  BY <1>1, <1>3, <1>5, <1>13, <1>14, <1>15, <1>16, <1>17, <1>0, Zenon

\* What an agent relies on, after a step that it did not take.
LEMMA StillAwake ==
    ASSUME NEW c \in Cpus, Awake(c), pc'[c] = pc[c],
           pc[c] \in {"sched", "yield", "asleep"} => channel'[c] = channel[c] \/ stale'[c],
           stale[c] => stale'[c], PingComing(c) => PingComing(c)' \/ stale'[c],
           \/ rq'[c] = rq[c] /\ current'[c] \in {current[c], NoTask}
           \/ PingComing(c)' \/ stale'[c],
           on_idle'[c] = on_idle[c],
           kcur'[c] # NoTask \/ kcur[c] = NoTask \/ PingComing(c)' \/ stale'[c]
    PROVE  Awake(c)'
  <1>1. pc'[c] \in {"sched", "yield", "asleep"} => channel'[c] = << >> \/ stale'[c]
    BY Zenon DEF Awake
  <1>2. pc'[c] \in {"yield", "asleep"} =>
          \/ rq'[c] = << >> /\ current'[c] = NoTask
          \/ on_idle'[c] \/ stale'[c] \/ PingComing(c)'
    BY Zenon DEF Awake
  <1>3. pc'[c] = "in_run" /\ kcur'[c] = NoTask => stale'[c] \/ PingComing(c)'
    BY Zenon DEF Awake
  <1> QED  BY <1>1, <1>2, <1>3, Zenon DEF Awake

\* A ping that was coming still is, unless its message was consumed.
LEMMA StillComing ==
    ASSUME NEW c \in Cpus, PingComing(c),
           \A d \in Cpus : pc[d] = "ping" /\ dest[d] = c => pc'[d] = "ping" /\ dest'[d] = c,
           \A d \in Cpus : \A n \in Elems(channel[d]) :
             n.fsw /\ n.cpu = c => n \in Elems(channel'[d])
    PROVE  PingComing(c)'
  <1>1. CASE \E d \in Cpus : pc[d] = "ping" /\ dest[d] = c
    BY <1>1, Zenon DEF PingComing
  <1>2. ASSUME NEW d \in Cpus, NEW i \in DOMAIN channel[d],
               channel[d][i].fsw, channel[d][i].cpu = c
        PROVE  PingComing(c)'
    <2>1. channel[d][i] \in Elems(channel[d])
      BY Zenon DEF Elems
    <2>2. channel[d][i] \in Elems(channel'[d])
      BY <1>2, <2>1, Zenon
    <2>3. PICK j \in DOMAIN channel'[d] : channel'[d][j] = channel[d][i]
      BY <2>2, Zenon DEF Elems
    <2>4. channel'[d][j].fsw /\ channel'[d][j].cpu = c
      BY <1>2, <2>3
    <2> QED  BY <2>4, Zenon DEF PingComing
  <1> QED  BY <1>1, <1>2, Zenon DEF PingComing

\* Only the heads of the channels and the books matter to Migration.
LEMMA MigrationFrame ==
    ASSUME NEW q \in Cpus, pc'[q] \in Migrating => pc[q] \in Migrating, Migration,
           pc[q] \in Migrating =>
             /\ pc'[q] = pc[q] /\ channel'[q] # << >> /\ Peek(q)' = Peek(q) /\ dest'[q] = dest[q],
           pc[q] \in Migrating => \A u \in Tasks :
             /\ u \in known' => u \in known /\ task'[u].cpu = task[u].cpu
             /\ Unassigned(u) => Unassigned(u)'
    PROVE  pc'[q] \in Migrating => \E t \in Tasks : Migrates(q, t)'
  <1> SUFFICES ASSUME pc'[q] \in Migrating  PROVE \E t \in Tasks : Migrates(q, t)'
    BY Zenon
  <1>1. PICK t \in Tasks : Migrates(q, t)
    BY Zenon DEF Migration
  <1>2. /\ q = DefaultChan /\ channel'[q] # << >> /\ Peek(q)'.task = t
        /\ Peek(q)'.type \in {"NEW", "WAKEUP"}
        /\ pc'[q] \in {"set_queued", "push", "ping"} => dest'[q] \in Cpus
    BY <1>1, Zenon DEF Migrates
  <1>3. pc'[q] = "set_queued" => Unassigned(t)'
    BY <1>1, Zenon DEF Migrates, Unassigned
  <1>4. pc'[q] = "push" /\ t \in known' => task'[t].cpu = dest'[q]
    BY <1>1, Zenon DEF Migrates
  <1>5. Migrates(q, t)'
    BY <1>2, <1>3, <1>4, Zenon DEF Migrates
  <1> QED  BY <1>5, Zenon

-----------------------------------------------------------------------------
(* Steps of the kernel. *)

\* A kernel step leaves the books as they are.
LEMMA KernelBooks ==
    ASSUME UNCHANGED svars
    PROVE  /\ BooksKept /\ UNCHANGED <<known, task, rq, current, pc, nxt, dest, on_idle>>
           /\ STypes => STypes'
  <1>1. UNCHANGED <<known, task, rq, current, pc, nxt, dest, rr, on_idle, fault>>
    BY Zenon DEF svars
  <1>2. \A c \in Cpus, u \in Tasks : Holds(c, u)' <=> Holds(c, u)
    BY <1>1, Zenon DEF Holds
  <1>3. SamePhase
    BY <1>1, Zenon DEF SamePhase
  <1>4. BooksKept
    BY <1>1, <1>2, <1>3, Zenon DEF BooksKept
  <1> QED  BY <1>1, <1>4, Zenon DEF STypes

\* The event of task t: the task leaves its cpu, if it is on one.
LEMMA KernelEvent ==
    ASSUME IInv, UNCHANGED svars, NEW t \in Tasks, NEW m \in Mess, m.task = t,
           m.seqnum = barrier[t] + 1, Produce(m),
           kstate[t] # "gone", kstate'[t] # "out",
           m.type = "NEW" <=> kstate[t] = "out",
           m.type \in {"DEPARTED", "DEAD"} <=> kstate'[t] = "gone",
           m.type \in {"NEW", "WAKEUP", "SWITCHTO", "DEAD"} => ~m.fsw,
           kstate'[t] # "gone" => assoc'[t] = assoc[t],
           \A u \in Tasks \ {t} : /\ kstate'[u] = kstate[u] /\ assoc'[u] = assoc[u]
                                   /\ on_cpu'[u] = on_cpu[u],
           kstate' \in [Tasks -> {"out", "blocked", "runnable", "running", "dying", "gone"}],
           kcur' \in [Cpus -> Tasks \cup {NoTask}], chain' \in [Cpus -> BOOLEAN],
           on_cpu' \in [Tasks -> BOOLEAN], assoc' \in [Tasks -> Cpus],
           UNCHANGED <<agentRuns, cfs>>,
           \A c \in Cpus : kcur'[c] # t,
           \A c \in Cpus :
             \/ kcur'[c] = kcur[c] /\ chain'[c] = chain[c]
             \/ kcur[c] = t /\ kcur'[c] = NoTask /\ ~chain'[c]
                /\ (chain[c] => m.fsw /\ m.cpu = c)
    PROVE  IInv'
  <1>1. /\ BooksKept /\ UNCHANGED <<known, task, rq, current, pc, nxt, dest, on_idle>>
        /\ STypes'
    BY KernelBooks, Zenon DEF IInv
  <1>2. SameTasks({t})
    BY Zenon DEF SameTasks
  <1>3. Send(m) /\ \A c \in Cpus : stale'[c] = (stale[c] \/ c = assoc[t])
    BY Zenon DEF Produce, Notify
  <1>4. /\ Mail' /\ \A u \in Tasks : Booked(u)'
        /\ channel' \in [Cpus -> Seq(Mess)] /\ barrier' \in [Tasks -> Int]
        /\ \A q \in Cpus : /\ Elems(channel[q]) \subseteq Elems(channel'[q])
                           /\ pc[q] \in Migrating => /\ channel'[q] # << >>
                                                    /\ Peek(q)' = Peek(q)
        /\ m \in Elems(channel'[assoc[t]])
        /\ \A q \in Cpus : q # assoc[t] => channel'[q] = channel[q]
    BY <1>1, <1>2, <1>3, PostMail, Zenon
  <1>5. KTypes'
    <2>1. stale' \in [Cpus -> BOOLEAN]
      <3>1. \A c \in Cpus : stale[c] \in BOOLEAN
        BY DEF IInv, KTypes
      <3> QED  BY <3>1 DEF Produce, Notify
    <2>2. agentRuns' \in [Cpus -> BOOLEAN] /\ cfs' \in [Cpus -> BOOLEAN]
      BY Zenon DEF IInv, KTypes
    <2> QED  BY <1>4, <2>1, <2>2, Zenon DEF KTypes
  <1>6. Migration'
    <2>1. \A q \in Cpus : pc'[q] \in Migrating => \E u \in Tasks : Migrates(q, u)'
      BY <1>1, <1>4, MigrationFrame, Zenon DEF IInv, Unassigned
    <2> QED  BY <2>1, Zenon DEF Migration
  <1>7. ASSUME NEW c \in Cpus  PROVE Running(c)'
    <2>1. Running(c)
      BY Zenon DEF IInv
    <2>2. /\ agentRuns'[c] <=> pc'[c] \notin {"asleep", "in_run"}
          /\ pc'[c] \in InHands => nxt'[c] \in Tasks
      BY <1>1, <2>1, Zenon DEF Running
    <2>3. chain'[c] => kcur'[c] # NoTask
      BY <2>1, Zenon DEF Running
    <2>4. ASSUME NEW u \in Tasks, kcur'[c] = u  PROVE Runs(c, u)'
      <3>1. kcur[c] = u /\ chain'[c] = chain[c] /\ u # t /\ u # NoTask
        BY <2>4, Constants, Zenon
      <3>2. Runs(c, u)
        BY <2>1, <3>1, Zenon DEF Running
      <3>3. /\ pc'[c] = "in_run" /\ kstate'[u] = "running" /\ on_cpu'[u]
            /\ ~chain'[c] => u \in known' /\ task'[u].cpu = c
        BY <1>1, <3>1, <3>2, Zenon DEF Runs
      <3>4. ASSUME NEW d \in Cpus, kcur'[d] = u  PROVE d = c
        <4>1. kcur[d] = u
          BY <3>1, <3>4, Zenon
        <4> QED  BY <3>2, <4>1, Zenon DEF Runs
      <3> QED  BY <3>3, <3>4, Zenon DEF Runs
    <2> QED  BY <2>2, <2>3, <2>4, Zenon DEF Running
  <1>8. ASSUME NEW c \in Cpus  PROVE Awake(c)'
    <2>1. Awake(c) /\ Running(c) /\ Booked(t)
      BY Zenon DEF IInv
    <2>2. PingComing(c) => PingComing(c)'
      BY <1>1, <1>4, StillComing, Zenon
    <2>3. channel'[c] = channel[c] \/ stale'[c]
      BY <1>3, <1>4, Zenon
    <2>4. ASSUME kcur'[c] = NoTask, kcur[c] # NoTask
          PROVE  PingComing(c)' \/ stale'[c]
      <3>1. kcur[c] = t /\ (chain[c] => m.fsw /\ m.cpu = c)
        BY <2>4, Zenon
      <3>2. CASE chain[c]
        <4>1. assoc[t] \in Cpus /\ m \in Elems(channel'[assoc[t]])
          BY <1>4, Zenon DEF IInv, KTypes
        <4>2. PICK j \in DOMAIN channel'[assoc[t]] : channel'[assoc[t]][j] = m
          BY <4>1, Zenon DEF Elems
        <4> QED  BY <3>1, <3>2, <4>1, <4>2, ZenonT(60) DEF PingComing
      <3>3. CASE ~chain[c]
        <4>1. t \in known /\ task[t].cpu = c
          BY <2>1, <2>4, <3>1, <3>3, Zenon DEF Running, Runs
        <4>2. assoc[t] = c
          BY <2>1, <4>1, Constants, Zenon DEF Booked, Home
        <4> QED  BY <1>3, <4>2, Zenon
      <3> QED  BY <3>2, <3>3, Zenon
    <2>5. pc'[c] = pc[c] /\ rq'[c] = rq[c] /\ current'[c] = current[c] /\ on_idle'[c] = on_idle[c]
      BY <1>1, Zenon
    <2>6. stale[c] => stale'[c]
      BY <1>3, Zenon
    <2> QED  BY <2>1, <2>2, <2>3, <2>4, <2>5, <2>6, StillAwake, Zenon
  <1> QED  BY <1>1, <1>4, <1>5, <1>6, <1>7, <1>8, Zenon DEF IInv

\* A task runs on one cpu.
LEMMA RunningTask ==
    ASSUME IInv, NEW t \in Tasks, NEW c \in Cpus, kcur[c] = t
    PROVE  kstate[t] = "running" /\ \A d \in Cpus : kcur[d] = t => d = c
  BY Zenon DEF IInv, Running, Runs

\* Events of a task that is on no cpu.
LEMMA OffCpuEvent ==
    ASSUME IInv, UNCHANGED svars, NEW t \in Tasks, NEW type \in {"NEW", "WAKEUP", "DEAD"},
           NEW flag \in BOOLEAN, NEW to \in {"runnable", "blocked", "gone"},
           kstate[t] \in {"out", "blocked", "dying"},
           type = "NEW" <=> kstate[t] = "out", type = "DEAD" <=> to = "gone",
           kstate' = [kstate EXCEPT ![t] = to],
           Produce(Msg(type, t, flag, FALSE, AnyCpu)),
           UNCHANGED <<kcur, chain, on_cpu, assoc, agentRuns, cfs>>
    PROVE  IInv'
  <1>1. PICK m : m = Msg(type, t, flag, FALSE, AnyCpu)
    BY Zenon
  <1>2. type \in MsgTypes /\ FALSE \in BOOLEAN /\ AnyCpu \in Cpus
    BY AnyCpuIsCpu, Zenon DEF MsgTypes
  <1>3. /\ m \in Mess /\ m.type = type /\ m.task = t /\ m.seqnum = barrier[t] + 1
        /\ m.fsw = FALSE
    <2>1. barrier[t] \in Int
      BY Zenon DEF IInv, KTypes
    <2> QED  BY ONLY <1>1, <1>2, <2>1, t \in Tasks, flag \in BOOLEAN DEF Msg, Mess
  <1>4. /\ kstate'[t] = to /\ \A u \in Tasks \ {t} : kstate'[u] = kstate[u]
        /\ kstate' \in [Tasks -> {"out", "blocked", "runnable", "running", "dying", "gone"}]
    <2>1. kstate \in [Tasks -> {"out", "blocked", "runnable", "running", "dying", "gone"}]
      BY Zenon DEF IInv, KTypes
    <2> QED  BY <2>1
  <1>5. \A c \in Cpus : kcur'[c] # t
    BY RunningTask, Zenon
  <1>6. /\ kcur' \in [Cpus -> Tasks \cup {NoTask}] /\ chain' \in [Cpus -> BOOLEAN]
        /\ on_cpu' \in [Tasks -> BOOLEAN] /\ assoc' \in [Tasks -> Cpus]
    BY Zenon DEF IInv, KTypes
  <1>7. /\ Produce(m) /\ kstate[t] # "gone" /\ kstate'[t] # "out"
        /\ m.type = "NEW" <=> kstate[t] = "out"
        /\ m.type \in {"DEPARTED", "DEAD"} <=> kstate'[t] = "gone"
        /\ m.type \in {"NEW", "WAKEUP", "SWITCHTO", "DEAD"} => ~m.fsw
    BY <1>1, <1>3, <1>4, Zenon
  <1>8. /\ assoc'[t] = assoc[t]
        /\ \A u \in Tasks \ {t} : /\ kstate'[u] = kstate[u] /\ assoc'[u] = assoc[u]
                                    /\ on_cpu'[u] = on_cpu[u]
        /\ \A c \in Cpus : kcur'[c] = kcur[c] /\ chain'[c] = chain[c]
    BY <1>4, Zenon
  <1> QED  BY <1>3, <1>4, <1>5, <1>6, <1>7, <1>8, KernelEvent, ZenonT(60)

\* Events of a task that leaves its cpu.
LEMMA LeaveCpuEvent ==
    ASSUME IInv, UNCHANGED svars, NEW c \in Cpus, kcur[c] # NoTask,
           NEW type \in {"BLOCKED", "YIELD", "PREEMPT"},
           NEW to \in {"blocked", "runnable", "dying"}, LeaveCpu(c, type, to)
    PROVE  IInv'
  <1>1. PICK t \in Tasks : t = kcur[c]
    BY Zenon DEF IInv, KTypes
  <1>2. PICK m : m = Msg(type, t, FALSE, chain[c], c)
    BY Zenon
  <1>3. type \in MsgTypes /\ FALSE \in BOOLEAN /\ chain[c] \in BOOLEAN
    BY Zenon DEF IInv, KTypes, MsgTypes
  <1>4. /\ m \in Mess /\ m.type = type /\ m.task = t /\ m.seqnum = barrier[t] + 1
        /\ m.fsw = chain[c] /\ m.cpu = c
    <2>1. barrier[t] \in Int
      BY Zenon DEF IInv, KTypes
    <2> QED  BY ONLY <1>2, <1>3, <2>1, t \in Tasks, c \in Cpus DEF Msg, Mess
  <1>5. kstate[t] = "running" /\ \A d \in Cpus : kcur[d] = t => d = c
    BY <1>1, RunningTask, Zenon
  <1>6. /\ kstate' = [kstate EXCEPT ![t] = to] /\ kcur' = [kcur EXCEPT ![c] = NoTask]
        /\ chain' = [chain EXCEPT ![c] = FALSE] /\ Produce(m)
        /\ UNCHANGED <<on_cpu, assoc, agentRuns, cfs>>
    BY <1>1, <1>2, Zenon DEF LeaveCpu
  <1>7. /\ kstate'[t] = to /\ \A u \in Tasks \ {t} : kstate'[u] = kstate[u]
        /\ kstate' \in [Tasks -> {"out", "blocked", "runnable", "running", "dying", "gone"}]
    <2>1. kstate \in [Tasks -> {"out", "blocked", "runnable", "running", "dying", "gone"}]
      BY Zenon DEF IInv, KTypes
    <2> QED  BY <1>6, <2>1
  <1>8. /\ kcur' \in [Cpus -> Tasks \cup {NoTask}] /\ chain' \in [Cpus -> BOOLEAN]
        /\ on_cpu' \in [Tasks -> BOOLEAN] /\ assoc' \in [Tasks -> Cpus]
        /\ \A d \in Cpus : IF d = c THEN kcur'[d] = NoTask /\ ~chain'[d]
                             ELSE kcur'[d] = kcur[d] /\ chain'[d] = chain[d]
    BY <1>6, Zenon DEF IInv, KTypes
  <1>9. \A d \in Cpus : kcur'[d] # t
    BY <1>5, <1>8, Constants, Zenon
  <1>10. \A d \in Cpus :
           \/ kcur'[d] = kcur[d] /\ chain'[d] = chain[d]
           \/ kcur[d] = t /\ kcur'[d] = NoTask /\ ~chain'[d]
              /\ (chain[d] => m.fsw /\ m.cpu = d)
    BY <1>1, <1>4, <1>8, Zenon
  <1>11. /\ kstate[t] # "gone" /\ kstate'[t] # "out"
         /\ m.type = "NEW" <=> kstate[t] = "out"
         /\ m.type \in {"DEPARTED", "DEAD"} <=> kstate'[t] = "gone"
         /\ m.type \in {"NEW", "WAKEUP", "SWITCHTO", "DEAD"} => ~m.fsw
    BY <1>4, <1>5, <1>7, Zenon
  <1>12. /\ assoc'[t] = assoc[t]
         /\ \A u \in Tasks \ {t} : /\ kstate'[u] = kstate[u] /\ assoc'[u] = assoc[u]
                                     /\ on_cpu'[u] = on_cpu[u]
    BY <1>6, <1>7, Zenon
  <1> QED  BY <1>4, <1>6, <1>7, <1>8, <1>9, <1>10, <1>11, <1>12, KernelEvent, ZenonT(60)

\* A third party moves a task out for good.
LEMMA DepartEvent ==
    ASSUME IInv, UNCHANGED svars, NEW t \in Tasks, KDepart(t, FALSE)
    PROVE  IInv'
  <1> DEFINE running == \E x \in Cpus : kcur[x] = t
  <1>0. \A x \in Cpus : kcur[x] = t => running
    BY Zenon
  <1>2. PICK c \in Cpus : /\ c = (IF running THEN CHOOSE x \in Cpus : kcur[x] = t ELSE AnyCpu)
                          /\ running => kcur[c] = t
    <2>1. CASE running
      BY <2>1, Zenon
    <2>2. CASE ~running
      BY <2>2, AnyCpuIsCpu, Zenon
    <2> QED  BY <2>1, <2>2, Zenon
  <1> HIDE DEF running
  <1>1. running => kcur[c] = t
    BY <1>2, Zenon
  <1>3. PICK f \in BOOLEAN : f = (running /\ chain[c])
    BY Zenon
  <1>4. /\ kstate[t] \in {"blocked", "runnable", "running"}
        /\ kstate' = [kstate EXCEPT ![t] = "gone"]
        /\ kcur' = [kcur EXCEPT ![c] = IF running THEN NoTask ELSE kcur[c]]
        /\ chain' = [chain EXCEPT ![c] = chain[c] /\ ~running]
        /\ on_cpu' = [on_cpu EXCEPT ![t] = FALSE]
        /\ Produce(Msg("DEPARTED", t, FALSE, f, c))
        /\ assoc' = [assoc EXCEPT ![t] = DefaultChan]
        /\ UNCHANGED <<agentRuns, cfs>>
    <2> DEFINE C == IF running THEN CHOOSE x \in Cpus : kcur[x] = t ELSE AnyCpu
    <2>1. /\ kstate[t] \in {"blocked", "runnable", "running"}
          /\ kstate' = [kstate EXCEPT ![t] = IF FALSE THEN "out" ELSE "gone"]
          /\ kcur' = [kcur EXCEPT ![C] = IF running THEN NoTask ELSE @]
          /\ chain' = [chain EXCEPT ![C] = @ /\ ~running]
          /\ on_cpu' = [on_cpu EXCEPT ![t] = FALSE]
          /\ Produce(Msg("DEPARTED", t, FALSE, running /\ chain[C], C))
          /\ assoc' = [assoc EXCEPT ![t] = DefaultChan]
          /\ UNCHANGED <<agentRuns, cfs>>
      BY Zenon DEF KDepart, running
    <2>2. c = C
      BY <1>2, Zenon
    <2> HIDE DEF C
    <2>3. Produce(Msg("DEPARTED", t, FALSE, f, c))
      BY <1>3, <2>1, <2>2, Zenon
    <2>4. kcur' = [kcur EXCEPT ![c] = IF running THEN NoTask ELSE kcur[c]]
      BY <2>1, <2>2, Zenon
    <2>5. chain' = [chain EXCEPT ![c] = chain[c] /\ ~running]
      BY <2>1, <2>2, Zenon
    <2>6. kstate' = [kstate EXCEPT ![t] = "gone"]
      BY <2>1, Zenon
    <2> QED  BY <2>1, <2>3, <2>4, <2>5, <2>6, Zenon
  <1>5. PICK m : m = Msg("DEPARTED", t, FALSE, f, c)
    BY Zenon
  <1>6. /\ m \in Mess /\ m.type = "DEPARTED" /\ m.task = t /\ m.seqnum = barrier[t] + 1
        /\ m.fsw = f /\ m.cpu = c
    <2>1. barrier[t] \in Int
      BY Zenon DEF IInv, KTypes
    <2> QED  BY ONLY <1>5, <2>1, t \in Tasks, c \in Cpus, f \in BOOLEAN DEF Msg, Mess, MsgTypes
  <1>7. /\ kstate'[t] = "gone" /\ \A u \in Tasks \ {t} : kstate'[u] = kstate[u]
        /\ kstate' \in [Tasks -> {"out", "blocked", "runnable", "running", "dying", "gone"}]
    <2>1. kstate \in [Tasks -> {"out", "blocked", "runnable", "running", "dying", "gone"}]
      BY Zenon DEF IInv, KTypes
    <2> QED  BY <1>4, <2>1
  <1>8. /\ assoc' \in [Tasks -> Cpus] /\ on_cpu' \in [Tasks -> BOOLEAN]
        /\ \A u \in Tasks \ {t} : assoc'[u] = assoc[u] /\ on_cpu'[u] = on_cpu[u]
    BY <1>4, Constants, Zenon DEF IInv, KTypes
  <1>9. /\ kcur' \in [Cpus -> Tasks \cup {NoTask}] /\ chain' \in [Cpus -> BOOLEAN]
        /\ \A d \in Cpus : IF d = c /\ running THEN kcur'[d] = NoTask /\ ~chain'[d]
                             ELSE kcur'[d] = kcur[d] /\ (chain'[d] <=> chain[d])
    <2>1. kcur \in [Cpus -> Tasks \cup {NoTask}] /\ chain \in [Cpus -> BOOLEAN]
      BY Zenon DEF IInv, KTypes
    <2> QED  BY <1>4, <2>1, ZenonT(60)
  <1>10. \A d \in Cpus : kcur'[d] # t
    <2> SUFFICES ASSUME NEW d \in Cpus, kcur'[d] = t  PROVE FALSE
      BY Zenon
    <2>1. kcur[d] = t /\ ~(d = c /\ running)
      BY <1>9, Constants, Zenon
    <2>2. running /\ kcur[c] = t
      BY <1>0, <1>1, <2>1, Zenon
    <2>3. d = c
      BY <2>1, <2>2, RunningTask, Zenon
    <2> QED  BY <2>1, <2>2, <2>3, Zenon
  <1>11. \A d \in Cpus :
           \/ kcur'[d] = kcur[d] /\ chain'[d] = chain[d]
           \/ kcur[d] = t /\ kcur'[d] = NoTask /\ ~chain'[d]
              /\ (chain[d] => m.fsw /\ m.cpu = d)
    <2> SUFFICES ASSUME NEW d \in Cpus
                 PROVE  \/ kcur'[d] = kcur[d] /\ chain'[d] = chain[d]
                        \/ kcur[d] = t /\ kcur'[d] = NoTask /\ ~chain'[d]
                           /\ (chain[d] => m.fsw /\ m.cpu = d)
      BY Zenon
    <2>1. CASE d = c /\ running
      BY <1>1, <1>3, <1>6, <1>9, <2>1, Zenon
    <2>2. CASE ~(d = c /\ running)
      <3>1. chain'[d] \in BOOLEAN /\ chain[d] \in BOOLEAN
        BY <1>9, Zenon DEF IInv, KTypes
      <3> QED  BY <1>9, <2>2, <3>1, Zenon
    <2> QED  BY <2>1, <2>2, Zenon
  <1>12. /\ Produce(m) /\ kstate[t] # "gone" /\ kstate'[t] # "out"
         /\ m.type = "NEW" <=> kstate[t] = "out"
         /\ m.type \in {"DEPARTED", "DEAD"} <=> kstate'[t] = "gone"
         /\ m.type \in {"NEW", "WAKEUP", "SWITCHTO", "DEAD"} => ~m.fsw
         /\ UNCHANGED <<agentRuns, cfs>>
    BY <1>4, <1>5, <1>6, <1>7, Zenon
  <1> QED  BY <1>6, <1>7, <1>8, <1>9, <1>10, <1>11, <1>12, KernelEvent, ZenonT(60)

\* The channels after a SwitchTo: the one of c may have grown.
LEMMA SwitchToMail ==
    ASSUME IInv, UNCHANGED svars, NEW c \in Cpus, NEW a \in Tasks, NEW b \in Tasks,
           kcur[c] = a, kstate'[a] = "blocked", SameTasks({}), assoc' = assoc,
           IF chain[c] THEN UNCHANGED <<barrier, channel>>
                       ELSE Send(Msg("SWITCHTO", a, FALSE, FALSE, c))
    PROVE  /\ Mail' /\ \A u \in Tasks : Booked(u)'
           /\ channel' \in [Cpus -> Seq(Mess)] /\ barrier' \in [Tasks -> Int]
           /\ \A q \in Cpus : /\ Elems(channel[q]) \subseteq Elems(channel'[q])
                              /\ pc[q] \in Migrating => /\ channel'[q] # << >>
                                                       /\ Peek(q)' = Peek(q)
           /\ \A q \in Cpus : q # c => channel'[q] = channel[q]
  <1>1. BooksKept
    BY KernelBooks, Zenon
  <1>2. Booked(a) /\ Runs(c, a) /\ kstate[a] = "running"
    BY Zenon DEF IInv, Running, Runs
  <1>3. CASE chain[c]
    <2>1. channel' = channel /\ barrier' = barrier
      BY <1>3, Zenon
    <2>2. Mail' /\ \A u \in Tasks : Booked(u)'
      BY <1>1, <2>1, QuietMail, Zenon
    <2>3. \A q \in Cpus : pc[q] \in Migrating => channel'[q] # << >> /\ Peek(q)' = Peek(q)
      BY <2>1, Zenon DEF IInv, Migration, Migrates, Peek
    <2>4. channel' \in [Cpus -> Seq(Mess)] /\ barrier' \in [Tasks -> Int]
      BY <2>1, Zenon DEF IInv, KTypes
    <2> QED  BY <2>1, <2>2, <2>3, <2>4, Zenon
  <1>4. CASE ~chain[c]
    <2>1. PICK m : m = Msg("SWITCHTO", a, FALSE, FALSE, c)
      BY Zenon
    <2>2. /\ m \in Mess /\ m.type = "SWITCHTO" /\ m.task = a /\ m.seqnum = barrier[a] + 1
          /\ m.fsw = FALSE
      <3>1. barrier[a] \in Int
        BY Zenon DEF IInv, KTypes
      <3> QED  BY ONLY <2>1, <3>1, a \in Tasks, c \in Cpus DEF Msg, Mess, MsgTypes
    <2>3. Send(m)
      BY <1>4, <2>1, Zenon
    <2>4. assoc[a] = c
      BY <1>2, <1>4, Constants, Zenon DEF Runs, Booked, Home
    <2>5. SameTasks({a})
      BY Zenon DEF SameTasks
    <2>6. /\ kstate[a] # "gone" /\ kstate'[a] # "out" /\ assoc'[a] = assoc[a]
          /\ m.type = "NEW" <=> kstate[a] = "out"
          /\ m.type \in {"DEPARTED", "DEAD"} <=> kstate'[a] = "gone"
          /\ m.type \in {"NEW", "WAKEUP", "SWITCHTO", "DEAD"} => ~m.fsw
      BY <1>2, <2>2, Zenon
    <2> QED  BY <1>1, <2>2, <2>3, <2>4, <2>5, <2>6, PostMail, ZenonT(60)
  <1> QED  BY <1>3, <1>4, Zenon

\* The task on c switches to b.
LEMMA SwitchToEvent ==
    ASSUME IInv, UNCHANGED svars, NEW c \in Cpus, NEW b \in Tasks, KSwitchTo(c, b)
    PROVE  IInv'
  <1>1. PICK a \in Tasks : a = kcur[c]
    BY Zenon DEF IInv, KTypes, KSwitchTo, Executes
  <1>2. /\ kstate[b] = "blocked" /\ kstate' = [kstate EXCEPT ![a] = "blocked", ![b] = "running"]
        /\ kcur' = [kcur EXCEPT ![c] = b] /\ chain' = [chain EXCEPT ![c] = TRUE]
        /\ on_cpu' = [on_cpu EXCEPT ![b] = TRUE]
        /\ IF chain[c] THEN UNCHANGED <<barrier, channel>>
                       ELSE Send(Msg("SWITCHTO", a, FALSE, FALSE, c))
        /\ UNCHANGED <<assoc, stale, agentRuns, cfs>>
    BY <1>1, Zenon DEF KSwitchTo
  <1>3. Runs(c, a) /\ Running(c)
    BY <1>1, Zenon DEF IInv, Running
  <1>4. /\ kstate[a] = "running" /\ a # b /\ pc[c] = "in_run"
        /\ \A d \in Cpus : kcur[d] = a => d = c
        /\ \A d \in Cpus : kcur[d] # b
    BY <1>2, <1>3, RunningTask, Zenon DEF Runs
  <1>5. /\ kstate'[a] = "blocked" /\ kstate'[b] = "running"
        /\ \A u \in Tasks \ {a, b} : kstate'[u] = kstate[u]
        /\ kstate' \in [Tasks -> {"out", "blocked", "runnable", "running", "dying", "gone"}]
    <2>1. kstate \in [Tasks -> {"out", "blocked", "runnable", "running", "dying", "gone"}]
      BY Zenon DEF IInv, KTypes
    <2> QED  BY <1>2, <1>4, <2>1
  <1>6. /\ kcur' \in [Cpus -> Tasks \cup {NoTask}] /\ chain' \in [Cpus -> BOOLEAN]
        /\ on_cpu' \in [Tasks -> BOOLEAN]
        /\ \A d \in Cpus : IF d = c THEN kcur'[d] = b /\ chain'[d]
                             ELSE kcur'[d] = kcur[d] /\ chain'[d] = chain[d]
        /\ \A u \in Tasks : on_cpu'[u] = IF u = b THEN TRUE ELSE on_cpu[u]
    BY <1>2, Zenon DEF IInv, KTypes
  <1>7. SameTasks({})
    <2> SUFFICES ASSUME NEW u \in Tasks
                 PROVE  /\ kstate'[u] = "out" <=> kstate[u] = "out"
                        /\ kstate'[u] = "gone" <=> kstate[u] = "gone"
      BY <1>2, Zenon DEF SameTasks
    <2>1. CASE u \in {a, b}
      BY <1>2, <1>4, <1>5, <2>1, Zenon
    <2>2. CASE u \notin {a, b}
      BY <1>5, <2>2, Zenon
    <2> QED  BY <2>1, <2>2, Zenon
  <1>8. /\ Mail' /\ \A u \in Tasks : Booked(u)'
        /\ channel' \in [Cpus -> Seq(Mess)] /\ barrier' \in [Tasks -> Int]
        /\ \A q \in Cpus : /\ Elems(channel[q]) \subseteq Elems(channel'[q])
                           /\ pc[q] \in Migrating => /\ channel'[q] # << >>
                                                    /\ Peek(q)' = Peek(q)
        /\ \A q \in Cpus : q # c => channel'[q] = channel[q]
    BY <1>1, <1>2, <1>5, <1>7, SwitchToMail, ZenonT(60)
  <1>9. /\ UNCHANGED <<known, task, rq, current, pc, nxt, dest, on_idle>> /\ STypes'
    BY KernelBooks, Zenon DEF IInv
  <1>10. KTypes'
    <2>1. /\ stale' \in [Cpus -> BOOLEAN] /\ agentRuns' \in [Cpus -> BOOLEAN]
          /\ cfs' \in [Cpus -> BOOLEAN] /\ assoc' \in [Tasks -> Cpus]
      BY <1>2, Zenon DEF IInv, KTypes
    <2> QED  BY <1>5, <1>6, <1>8, <2>1, Zenon DEF KTypes
  <1>11. Migration'
    <2>1. \A q \in Cpus : pc'[q] \in Migrating => \E u \in Tasks : Migrates(q, u)'
      BY <1>8, <1>9, MigrationFrame, Zenon DEF IInv, Unassigned
    <2> QED  BY <2>1, Zenon DEF Migration
  <1>12. ASSUME NEW d \in Cpus  PROVE Running(d)'
    <2>1. Running(d)
      BY Zenon DEF IInv
    <2>2. /\ agentRuns'[d] <=> pc'[d] \notin {"asleep", "in_run"}
          /\ pc'[d] \in InHands => nxt'[d] \in Tasks
      BY <1>2, <1>9, <2>1, Zenon DEF Running
    <2>3. chain'[d] => kcur'[d] # NoTask
      BY <1>6, <2>1, Constants, Zenon DEF Running
    <2>4. ASSUME NEW u \in Tasks, kcur'[d] = u  PROVE Runs(d, u)'
      <3>1. CASE d = c
        <4>1. u = b
          BY <1>6, <2>4, <3>1, Zenon
        <4>2. \A e \in Cpus : kcur'[e] = u => e = d
          BY <1>4, <1>6, <3>1, <4>1, Zenon
        <4> QED  BY <1>4, <1>5, <1>6, <1>9, <3>1, <4>1, <4>2, Zenon DEF Runs
      <3>2. CASE d # c
        <4>1. kcur[d] = u /\ Runs(d, u) /\ u # a /\ u # b /\ chain'[d] = chain[d]
          BY <1>4, <1>6, <2>1, <2>4, <3>2, Zenon DEF Running
        <4>2. kstate'[u] = kstate[u] /\ on_cpu'[u] = on_cpu[u]
          BY <1>5, <1>6, <4>1, Zenon
        <4>3. \A e \in Cpus : kcur'[e] = u => e = d
          BY <1>6, <4>1, Zenon DEF Runs
        <4> QED  BY <1>9, <4>1, <4>2, <4>3, Zenon DEF Runs
      <3> QED  BY <3>1, <3>2, Zenon
    <2> QED  BY <2>2, <2>3, <2>4, Zenon DEF Running
  <1>13. ASSUME NEW d \in Cpus  PROVE Awake(d)'
    <2>1. Awake(d)
      BY Zenon DEF IInv
    <2>2. PingComing(d) => PingComing(d)'
      BY <1>8, <1>9, StillComing, Zenon
    <2>3. pc[d] \in {"sched", "yield", "asleep"} => channel'[d] = channel[d]
      BY <1>4, <1>8, Zenon
    <2>4. kcur'[d] # NoTask \/ kcur[d] = NoTask
      BY <1>6, Constants, Zenon
    <2>5. /\ pc'[d] = pc[d] /\ rq'[d] = rq[d] /\ current'[d] = current[d]
          /\ on_idle'[d] = on_idle[d] /\ stale'[d] = stale[d]
      BY <1>2, <1>9, Zenon
    <2> QED  BY <2>1, <2>2, <2>3, <2>4, <2>5, StillAwake, Zenon
  <1> QED  BY <1>8, <1>9, <1>10, <1>11, <1>12, <1>13, Zenon DEF IInv

\* Kernel steps that send nothing.
LEMMA QuietKernel ==
    ASSUME IInv, UNCHANGED svars,
           UNCHANGED <<kstate, kcur, chain, barrier, assoc, channel, stale, agentRuns>>,
           cfs' \in [Cpus -> BOOLEAN], on_cpu' \in [Tasks -> BOOLEAN],
           \A c \in Cpus, u \in Tasks : kcur[c] = u => on_cpu'[u] = on_cpu[u]
    PROVE  IInv'
  <1>1. /\ BooksKept /\ UNCHANGED <<known, task, rq, current, pc, nxt, dest, on_idle>>
        /\ STypes'
    BY KernelBooks, Zenon DEF IInv
  <1>2. KTypes'
    BY Zenon DEF IInv, KTypes
  <1>3. SameTasks({})
    BY Zenon DEF SameTasks
  <1>4. Mail' /\ \A u \in Tasks : Booked(u)'
    BY <1>1, <1>3, QuietMail, Zenon
  <1>5. Migration'
    <2>1. \A q \in Cpus : pc[q] \in Migrating => channel'[q] # << >> /\ Peek(q)' = Peek(q)
      BY Zenon DEF IInv, Migration, Migrates, Peek
    <2>2. \A q \in Cpus : pc'[q] \in Migrating => \E u \in Tasks : Migrates(q, u)'
      BY <1>1, <2>1, MigrationFrame, Zenon DEF IInv, Unassigned
    <2> QED  BY <2>2, Zenon DEF Migration
  <1>6. ASSUME NEW c \in Cpus  PROVE Running(c)'
    <2>1. Running(c)
      BY Zenon DEF IInv
    <2>2. /\ agentRuns'[c] <=> pc'[c] \notin {"asleep", "in_run"}
          /\ pc'[c] \in InHands => nxt'[c] \in Tasks
          /\ chain'[c] => kcur'[c] # NoTask
      BY <1>1, <2>1, Zenon DEF Running
    <2>3. \A u \in Tasks : kcur'[c] = u => Runs(c, u)'
      BY <1>1, <2>1, ZenonT(60) DEF Running, Runs
    <2> QED  BY <2>2, <2>3, Zenon DEF Running
  <1>7. ASSUME NEW c \in Cpus  PROVE Awake(c)'
    BY <1>1, Zenon DEF IInv, Awake, PingComing
  <1> QED  BY <1>1, <1>2, <1>4, <1>5, <1>6, <1>7, Zenon DEF IInv

\* Every step of the kernel keeps the invariant.
LEMMA KernelStep ==
    ASSUME IInv, Kernel, Returns = FALSE
    PROVE  IInv'
  <1>1. ASSUME NEW t \in Tasks, NEW flag \in BOOLEAN, KNew(t, flag), UNCHANGED svars
        PROVE  IInv'
    <2>1. PICK to \in {"runnable", "blocked"} : to = IF flag THEN "runnable" ELSE "blocked"
      BY Zenon
    <2>2. kstate' = [kstate EXCEPT ![t] = to] /\ kstate[t] = "out"
      BY <1>1, <2>1, Zenon DEF KNew
    <2> QED  BY <1>1, <2>1, <2>2, OffCpuEvent, ZenonT(60) DEF KNew
  <1>2. ASSUME NEW t \in Tasks, NEW flag \in BOOLEAN, KWakeup(t, flag), UNCHANGED svars
        PROVE  IInv'
    BY <1>2, OffCpuEvent, ZenonT(60) DEF KWakeup
  <1>3. ASSUME NEW t \in Tasks, KDead(t), UNCHANGED svars  PROVE IInv'
    BY <1>3, OffCpuEvent, ZenonT(60) DEF KDead
  <1>4. ASSUME NEW t \in Tasks, KOffCpu(t), UNCHANGED svars  PROVE IInv'
    <2>1. /\ UNCHANGED <<kstate, kcur, chain, barrier, assoc, channel, stale, agentRuns, cfs>>
          /\ on_cpu' = [on_cpu EXCEPT ![t] = FALSE] /\ \A c \in Cpus : kcur[c] # t
      BY <1>4, Zenon DEF KOffCpu
    <2>2. /\ cfs' \in [Cpus -> BOOLEAN] /\ on_cpu' \in [Tasks -> BOOLEAN]
          /\ \A c \in Cpus, u \in Tasks : kcur[c] = u => on_cpu'[u] = on_cpu[u]
      BY <2>1, Zenon DEF IInv, KTypes
    <2> QED  BY <1>4, <2>1, <2>2, QuietKernel, Zenon
  <1>5. ASSUME NEW t \in Tasks, NEW back \in {FALSE, Returns}, KDepart(t, back), UNCHANGED svars
        PROVE  IInv'
    BY <1>5, DepartEvent, Zenon
  <1>6. ASSUME NEW c \in Cpus, KBlock(c) \/ KYield(c) \/ KExit(c) \/ KPreempt(c),
               UNCHANGED svars
        PROVE  IInv'
    <2>1. /\ kcur[c] # NoTask
          /\ \E type \in {"BLOCKED", "YIELD", "PREEMPT"}, to \in {"blocked", "runnable", "dying"} :
               LeaveCpu(c, type, to)
      BY <1>6, Zenon DEF KBlock, KYield, KExit, KPreempt, Executes
    <2> QED  BY <1>6, <2>1, LeaveCpuEvent, Zenon
  <1>7. ASSUME NEW c \in Cpus, NEW b \in Tasks, KSwitchTo(c, b), UNCHANGED svars
        PROVE  IInv'
    BY <1>7, SwitchToEvent, Zenon
  <1>8. ASSUME NEW c, KCfsArrives(c) \/ KCfsLeaves(c), UNCHANGED svars
        PROVE  IInv'
    <2>1. /\ UNCHANGED <<kstate, kcur, chain, on_cpu, barrier, assoc, channel, stale, agentRuns>>
          /\ cfs' = [cfs EXCEPT ![c] = TRUE] \/ cfs' = [cfs EXCEPT ![c] = FALSE]
      BY <1>8, Zenon DEF KCfsArrives, KCfsLeaves
    <2>2. cfs' \in [Cpus -> BOOLEAN] /\ on_cpu' \in [Tasks -> BOOLEAN]
      BY <2>1, Zenon DEF IInv, KTypes
    <2> QED  BY <1>8, <2>1, <2>2, QuietKernel, Zenon
  <1> QED  BY <1>1, <1>2, <1>3, <1>4, <1>5, <1>6, <1>7, <1>8, Zenon DEF Kernel

-----------------------------------------------------------------------------
(* Steps of the agents. *)

\* The message an agent is about to dispatch.
LEMMA HeadFacts ==
    ASSUME IInv, NEW c \in Cpus, pc[c] \notin Migrating, channel[c] # << >>
    PROVE  /\ Peek(c) \in Mess /\ Peek(c).task \in Tasks /\ Peek(c).seqnum \in Int
           /\ Peek(c) \in Unread(c) /\ Dated(Peek(c)) /\ Placed(Peek(c), c)
           /\ Elems(channel[c]) = Later(channel[c]) \cup {Peek(c)}
           /\ \A n \in Later(channel[c]) : Precedes(Peek(c), n)
  <1>1. channel[c] \in Seq(Mess) /\ Order(channel[c])
    BY Zenon DEF IInv, KTypes, Mail
  <1>2. /\ Peek(c) \in Mess /\ Elems(channel[c]) = Later(channel[c]) \cup {Peek(c)}
        /\ \A n \in Later(channel[c]) : Precedes(Peek(c), n)
    BY <1>1, TailElems, OrderTail, Zenon DEF Peek
  <1>3. Peek(c).task \in Tasks /\ Peek(c).seqnum \in Int
    BY <1>2 DEF Mess
  <1>4. Peek(c) \in Unread(c) /\ Peek(c) \in Elems(channel[c])
    BY <1>2, Zenon DEF Unread
  <1>5. Dated(Peek(c)) /\ Placed(Peek(c), c)
    BY <1>4, Zenon DEF IInv, Mail
  <1> QED  BY <1>2, <1>3, <1>4, <1>5, Zenon

\* An agent that works leaves the tasks that run alone.
LEMMA AgentRunning ==
    ASSUME IInv, NEW c \in Cpus, NEW x, pc' = [pc EXCEPT ![c] = x],
           pc[c] # "in_run", x # "in_run", UNCHANGED <<kstate, kcur, chain, on_cpu>>,
           \A d \in Cpus : d # c => agentRuns'[d] = agentRuns[d] /\ nxt'[d] = nxt[d],
           agentRuns'[c] <=> x # "asleep", x \in InHands => nxt'[c] \in Tasks,
           \A u \in Tasks : u \in known /\ kstate[u] = "running" /\ task[u].cpu \in Cpus =>
             u \in known' /\ task'[u].cpu = task[u].cpu
    PROVE  \A d \in Cpus : Running(d)'
  <1> SUFFICES ASSUME NEW d \in Cpus  PROVE Running(d)'
    BY Zenon
  <1>1. Running(d) /\ pc'[d] = IF d = c THEN x ELSE pc[d]
    BY Zenon DEF IInv, STypes
  <1>2. /\ agentRuns'[d] <=> pc'[d] \notin {"asleep", "in_run"}
        /\ pc'[d] \in InHands => nxt'[d] \in Tasks
    <2>1. CASE d = c
      BY <1>1, <2>1, Zenon
    <2>2. CASE d # c
      BY <1>1, <2>2, Zenon DEF Running
    <2> QED  BY <2>1, <2>2, Zenon
  <1>3. chain'[d] => kcur'[d] # NoTask
    BY <1>1, Zenon DEF Running
  <1>4. ASSUME NEW u \in Tasks, kcur'[d] = u  PROVE Runs(d, u)'
    <2>1. Runs(d, u)
      BY <1>1, <1>4, Zenon DEF Running
    <2>2. d # c
      BY <2>1, Zenon DEF Runs
    <2>3. pc'[d] = "in_run" /\ \A e \in Cpus : kcur'[e] = u => e = d
      BY <1>1, <2>1, <2>2, Zenon DEF Runs
    <2>4. ~chain'[d] => u \in known' /\ task'[u].cpu = d
      BY <2>1, Zenon DEF Runs
    <2> QED  BY <2>1, <2>3, <2>4, Zenon DEF Runs
  <1> QED  BY <1>2, <1>3, <1>4, Zenon DEF Running

\* An agent's step disturbs no other agent's sleep, or pings it.
LEMMA AgentAwake ==
    ASSUME IInv, NEW c \in Cpus, NEW x, pc' = [pc EXCEPT ![c] = x],
           \A d \in Cpus : d # c => /\ channel'[d] = channel[d] /\ (stale[d] => stale'[d])
                                    /\ on_idle'[d] = on_idle[d] /\ dest'[d] = dest[d]
                                    /\ current'[d] \in {current[d], NoTask}
                                    /\ kcur'[d] = kcur[d]
                                    /\ rq'[d] = rq[d] \/ (x = "ping" /\ dest'[c] = d),
           pc[c] = "ping" => \A d \in Cpus : d = dest[c] => stale'[d],
           \A d \in Cpus : \A n \in Elems(channel[c]) :
             n.fsw /\ n.cpu = d => n \in Elems(channel'[c]) \/ stale'[d],
           Awake(c)'
    PROVE  \A d \in Cpus : Awake(d)'
  <1>1. \A d \in Cpus : pc'[d] = IF d = c THEN x ELSE pc[d]
    BY Zenon DEF IInv, STypes
  <1>2. ASSUME NEW d \in Cpus, PingComing(d), ~stale'[d]  PROVE PingComing(d)'
    <2>1. \A e \in Cpus : pc[e] = "ping" /\ dest[e] = d => pc'[e] = "ping" /\ dest'[e] = d
      <3> SUFFICES ASSUME NEW e \in Cpus, pc[e] = "ping", dest[e] = d
                   PROVE  pc'[e] = "ping" /\ dest'[e] = d
        BY Zenon
      <3>1. e # c
        BY <1>2, Zenon
      <3>2. pc'[e] = pc[e]
        BY ONLY <1>1, <3>1, e \in Cpus, Zenon
      <3>3. dest'[e] = dest[e]
        BY <3>1, Zenon
      <3> QED  BY ONLY <3>2, <3>3, pc[e] = "ping", dest[e] = d, Zenon
    <2>2. \A e \in Cpus : \A n \in Elems(channel[e]) :
             n.fsw /\ n.cpu = d => n \in Elems(channel'[e])
      BY <1>2, Zenon
    <2> QED  BY <1>2, <2>1, <2>2, StillComing, Zenon
  <1>3. ASSUME NEW d \in Cpus, d # c  PROVE Awake(d)'
    <2>1. \/ rq'[d] = rq[d] /\ current'[d] \in {current[d], NoTask}
          \/ PingComing(d)'
      <3>1. ASSUME x = "ping", dest'[c] = d  PROVE PingComing(d)'
        <4>1. pc'[c] = "ping" /\ dest'[c] = d
          BY <1>1, <3>1, Zenon
        <4> QED  BY <4>1, Zenon DEF PingComing
      <3> QED  BY <1>3, <3>1, Zenon
    <2>2. PingComing(d) => PingComing(d)' \/ stale'[d]
      BY <1>2, Zenon
    <2>3. Awake(d) /\ pc'[d] = pc[d]
      BY <1>1, <1>3, Zenon DEF IInv
    <2> QED  BY <1>3, <2>1, <2>2, <2>3, StillAwake, Zenon
  <1> QED  BY <1>3, Zenon

\* A step that consumes the message at Peek(c), after a handler that has kept the books
\* and pinged the cpu on which a SwitchTo chain ended.
LEMMA ConsumeStep ==
    ASSUME IInv, NEW c \in Cpus, pc[c] = "drain", channel[c] # << >>, Consume(c),
           UNCHANGED <<kquiet, pc, nxt, dest, rr, on_idle>>, fault' = FALSE,
           known' \subseteq Tasks,
           task' \in [Tasks -> [run_state : RunStates, cpu : Cpus \cup {NoCpu},
                                prio_boost : BOOLEAN, seqnum : Int]],
           rq' \in [Cpus -> Seq(Tasks)], current' \in [Cpus -> Tasks \cup {NoTask}],
           PingChainCpu(Peek(c)) \/ (UNCHANGED stale /\ ~Peek(c).fsw),
           \A d \in Cpus : /\ d # c => rq'[d] = rq[d]
                           /\ current'[d] \in {current[d], NoTask},
           Mail', \A u \in Tasks : Booked(u)',
           \A u \in Tasks : u \in known /\ kstate[u] = "running" /\ task[u].cpu \in Cpus =>
             u \in known' /\ task'[u].cpu = task[u].cpu,
           \A q \in Cpus : pc[q] \in Migrating => \A u \in Tasks :
             /\ u \in known' => u \in known /\ task'[u].cpu = task[u].cpu
             /\ Unassigned(u) => Unassigned(u)'
    PROVE  IInv'
  <1>1. /\ channel[c] \in Seq(Mess) /\ Tail(channel[c]) \in Seq(Mess)
        /\ Elems(Tail(channel[c])) = Later(channel[c])
        /\ Elems(channel[c]) = Later(channel[c]) \cup {Peek(c)}
        /\ Peek(c) \in Mess
    <2>1. channel[c] \in Seq(Mess)
      BY Zenon DEF IInv, KTypes
    <2> QED  BY <2>1, TailElems, Zenon DEF Peek
  <1>2. /\ \A q \in Cpus : channel'[q] = IF q = c THEN Tail(channel[c]) ELSE channel[q]
        /\ channel' \in [Cpus -> Seq(Mess)]
    BY <1>1, Zenon DEF IInv, KTypes, Consume
  <1>3. /\ stale' \in [Cpus -> BOOLEAN] /\ \A d \in Cpus : stale[d] => stale'[d]
        /\ Peek(c).fsw => stale'[Peek(c).cpu]
    <2>1. Peek(c).cpu \in Cpus /\ stale \in [Cpus -> BOOLEAN]
      BY <1>1 DEF IInv, KTypes, Mess
    <2> QED  BY <2>1, Zenon DEF PingChainCpu, KPing
  <1>4. UNCHANGED <<kstate, kcur, chain, on_cpu, barrier, assoc, agentRuns, cfs>>
    BY Zenon DEF kquiet
  <1>5. KTypes'
    BY <1>2, <1>3, <1>4, Zenon DEF IInv, KTypes
  <1>6. STypes'
    BY Zenon DEF IInv, STypes
  <1>7. pc' = [pc EXCEPT ![c] = "drain"]
    BY Zenon DEF IInv, STypes
  <1>8. Migration'
    <2>1. ASSUME NEW q \in Cpus, pc[q] \in Migrating
          PROVE  channel'[q] # << >> /\ Peek(q)' = Peek(q)
      <3>1. q # c
        BY <2>1, Zenon DEF Migrating
      <3> QED  BY <1>2, <2>1, <3>1, ZenonT(60) DEF IInv, Migration, Migrates, Peek
    <2>2. \A q \in Cpus : pc'[q] \in Migrating => \E u \in Tasks : Migrates(q, u)'
      BY <2>1, MigrationFrame, Zenon DEF IInv
    <2> QED  BY <2>2, Zenon DEF Migration
  <1>9. \A d \in Cpus : Running(d)'
    <2>1. agentRuns'[c] /\ pc[c] # "in_run" /\ "drain" \notin InHands
      BY <1>4, Zenon DEF IInv, Running, InHands
    <2> QED  BY <1>4, <1>7, <2>1, AgentRunning, Zenon
  <1>10. \A d \in Cpus : Awake(d)'
    <2>1. Awake(c)'
      BY Zenon DEF Awake
    <2>2. \A d \in Cpus : \A n \in Elems(channel[c]) :
            n.fsw /\ n.cpu = d => n \in Elems(channel'[c]) \/ stale'[d]
      BY <1>1, <1>2, <1>3, ZenonT(60)
    <2>3. pc[c] # "ping" /\ "drain" # "ping"
      BY Zenon
    <2> QED  BY <1>2, <1>3, <1>4, <1>7, <2>1, <2>2, <2>3, AgentAwake, ZenonT(60)
  <1> QED  BY <1>5, <1>6, <1>8, <1>9, <1>10, Zenon DEF IInv

\* The fields of a FifoTask.
FifoTasks == [run_state : RunStates, cpu : Cpus \cup {NoCpu}, prio_boost : BOOLEAN, seqnum : Int]

\* A handler of a task that has a cpu: it is that of the agent.
LEMMA HandlerStep ==
    ASSUME IInv, NEW c \in Cpus, pc[c] = "drain", channel[c] # << >>, Consume(c),
           UNCHANGED <<kquiet, known, pc, nxt, dest, rr, on_idle>>, fault' = FALSE,
           NEW t \in known, t = Peek(c).task, task[t].cpu # NoCpu, Peek(c).type # "NEW",
           task' \in [Tasks -> FifoTasks], task'[t].cpu = task[t].cpu,
           \A u \in Tasks \ {t} : task'[u] = task[u],
           current' \in [Cpus -> Tasks \cup {NoTask}],
           \A d \in Cpus : current'[d] \in {current[d], NoTask},
           rq' = rq \/ \E b \in BOOLEAN : rq' = [rq EXCEPT ![task[t].cpu] = Pushed(@, t, b)],
           PingChainCpu(Peek(c)) \/ (UNCHANGED stale /\ ~Peek(c).fsw)
    PROVE  IInv'
  <1>1. t \in Tasks /\ task[t].cpu = c
    <2>1. Placed(Peek(c), c) /\ Peek(c).task \in Tasks
      BY HeadFacts, Zenon DEF Migrating
    <2> QED  BY <2>1, Zenon DEF Placed, Home
  <1>2. /\ rq' \in [Cpus -> Seq(Tasks)] /\ \A d \in Cpus : d # c => rq'[d] = rq[d]
        /\ \A u \in Tasks : Contains(rq'[c], u) => Contains(rq[c], u) \/ u = t
    <2>1. CASE rq' = rq
      BY <2>1, Zenon DEF IInv, STypes
    <2>2. ASSUME NEW b \in BOOLEAN, rq' = [rq EXCEPT ![c] = Pushed(rq[c], t, b)]
          PROVE  /\ rq' \in [Cpus -> Seq(Tasks)] /\ \A d \in Cpus : d # c => rq'[d] = rq[d]
                 /\ \A u \in Tasks : Contains(rq'[c], u) => Contains(rq[c], u) \/ u = t
      <3>1. rq \in [Cpus -> Seq(Tasks)] /\ rq[c] \in Seq(Tasks)
        BY Zenon DEF IInv, STypes
      <3>2. /\ Pushed(rq[c], t, b) \in Seq(Tasks)
            /\ \A u : Contains(Pushed(rq[c], t, b), u) => Contains(rq[c], u) \/ u = t
        BY <1>1, <3>1, PushedQueue, Zenon
      <3> QED  BY <2>2, <3>1, <3>2, Zenon
    <2> QED  BY <1>1, <2>1, <2>2, Zenon
  <1>3. \A u \in Tasks : task'[u].cpu = task[u].cpu
    BY Zenon
  <1>4. BooksKept
    <2>1. SamePhase
      BY Zenon DEF SamePhase
    <2>2. ASSUME NEW d \in Cpus, NEW u \in Tasks, Holds(d, u)'
          PROVE  Holds(d, u) \/ (u \in known /\ task[u].cpu = d)
      <3>1. CASE current'[d] = u
        BY <3>1, Constants, Zenon DEF Holds
      <3>2. CASE Contains(rq'[d], u)
        BY <1>1, <1>2, <3>2, Zenon DEF Holds
      <3>3. CASE pc'[d] \in InHands /\ nxt'[d] = u
        BY <3>3, Zenon DEF Holds
      <3> QED  BY <2>2, <3>1, <3>2, <3>3, Zenon DEF Holds
    <2> QED  BY <1>3, <2>1, <2>2, Zenon DEF BooksKept, IInv, STypes
  <1>5. UNCHANGED <<kstate, barrier, assoc>>
    BY Zenon DEF kquiet
  <1>6. SameTasks({})
    BY <1>5, Zenon DEF SameTasks
  <1>7. Mail' /\ \A u \in Tasks : Booked(u)'
    BY <1>4, <1>5, <1>6, TakeMail, Zenon DEF Migrating
  <1>8. \A u \in Tasks : Unassigned(u) => Unassigned(u)'
    <2> SUFFICES ASSUME NEW u \in Tasks, Unassigned(u)  PROVE Unassigned(u)'
      BY Zenon
    <2>1. u # t
      BY Zenon DEF Unassigned
    <2> QED  BY <2>1, Zenon DEF Unassigned
  <1>9. UNCHANGED <<kquiet, pc, nxt, dest, rr, on_idle>> /\ known' = known /\ known \subseteq Tasks
    BY Zenon DEF IInv, STypes
  <1>10. \A d \in Cpus : /\ d # c => rq'[d] = rq[d]
                          /\ current'[d] \in {current[d], NoTask}
    BY <1>2, Zenon
  <1> QED  BY <1>2, <1>3, <1>7, <1>8, <1>9, <1>10, ConsumeStep, ZenonT(60) DEF FifoTasks

\* A message that is dropped is of a task that left, and ended no SwitchTo chain.
LEMMA DropMessageStep ==
    ASSUME IInv, ~fault, NEW c \in Cpus, DropMessage(c)
    PROVE  IInv'
  <1> DEFINE m == Peek(c)
  <1>1. /\ pc[c] = "drain" /\ channel[c] # << >> /\ Consume(c) /\ UNCHANGED <<kquiet, stale, svars>>
        /\ m.type = "NEW" <=> m.task \in known
    BY Zenon DEF DropMessage, At
  <1>2. /\ m \in Mess /\ m.task \in Tasks /\ Dated(m) /\ Placed(m, c)
        /\ Elems(channel[c]) = Later(channel[c]) \cup {m}
        /\ \A n \in Later(channel[c]) : Precedes(m, n)
    BY <1>1, HeadFacts, Zenon DEF Migrating
  <1> HIDE DEF m
  <1>3. m.type # "NEW" /\ m.task \notin known
    BY <1>1, <1>2, Zenon DEF Placed
  <1>4. ~m.fsw
    <2> SUFFICES ASSUME m.fsw  PROVE FALSE
      BY Zenon
    <2>1. c = DefaultChan /\ UnreadNew(m.task)
      BY <1>2, <1>3, Zenon DEF Placed, Home
    <2>2. PICK n \in Unread(c) : n.task = m.task /\ n.type = "NEW"
      BY <2>1, Zenon DEF UnreadNew
    <2>3. n \in Later(channel[c])
      BY <1>1, <1>2, <1>3, <2>2, Zenon DEF Unread, Migrating
    <2> QED  BY <1>2, <2>2, <2>3, Zenon DEF Precedes
  <1>5. /\ BooksKept /\ UNCHANGED <<known, task, rq, current, pc, nxt, dest, on_idle>> /\ STypes'
    BY <1>1, KernelBooks, Zenon DEF IInv
  <1>6. UNCHANGED <<kstate, barrier, assoc>> /\ rr' = rr /\ fault' = fault
    BY <1>1, Zenon DEF kquiet, svars
  <1>7. SameTasks({})
    BY <1>6, Zenon DEF SameTasks
  <1>8. Mail' /\ \A u \in Tasks : Booked(u)'
    BY <1>1, <1>3, <1>5, <1>6, <1>7, TakeMail, Zenon DEF Migrating, m
  <1>9. \A u \in Tasks : Unassigned(u) => Unassigned(u)'
    BY <1>5, Zenon DEF Unassigned
  <1>10. UNCHANGED <<kquiet, pc, nxt, dest, rr, on_idle>> /\ fault' = FALSE
    BY <1>1, <1>5, <1>6, Zenon DEF IInv, STypes
  <1>11. UNCHANGED stale /\ ~Peek(c).fsw
    BY <1>1, <1>4, Zenon DEF m
  <1>12. /\ known' \subseteq Tasks /\ task' \in [Tasks -> FifoTasks]
         /\ rq' \in [Cpus -> Seq(Tasks)] /\ current' \in [Cpus -> Tasks \cup {NoTask}]
    BY <1>5, Zenon DEF STypes, FifoTasks
  <1> QED  BY <1>1, <1>5, <1>8, <1>9, <1>10, <1>11, <1>12, ConsumeStep, ZenonT(60) DEF FifoTasks

\* A handler's assignments to its task.
Updated(f, t, state, b, n) ==
    [f EXCEPT ![t].run_state = state, ![t].prio_boost = b, ![t].seqnum = n]

\* What a handler writes to a FifoTask leaves its cpu alone.
LEMMA TaskUpdate ==
    ASSUME NEW f \in [Tasks -> FifoTasks], NEW t \in Tasks, NEW state \in RunStates,
           NEW b \in BOOLEAN, NEW n \in Int
    PROVE  /\ Updated(f, t, state, b, n) \in [Tasks -> FifoTasks]
           /\ Updated(f, t, state, b, n)[t].cpu = f[t].cpu
           /\ \A u \in Tasks \ {t} : Updated(f, t, state, b, n)[u] = f[u]
  <1>1. PICK f1 : f1 = [f EXCEPT ![t].run_state = state]
    BY Zenon
  <1>2. PICK f2 : f2 = [f1 EXCEPT ![t].prio_boost = b]
    BY Zenon
  <1>3. /\ f1 \in [Tasks -> FifoTasks] /\ f1[t].cpu = f[t].cpu
        /\ \A u \in Tasks \ {t} : f1[u] = f[u]
    BY <1>1, SMT DEF FifoTasks
  <1>4. /\ f2 \in [Tasks -> FifoTasks] /\ f2[t].cpu = f1[t].cpu
        /\ \A u \in Tasks \ {t} : f2[u] = f1[u]
    BY <1>2, <1>3, SMT DEF FifoTasks
  <1>5. Updated(f, t, state, b, n) = [f2 EXCEPT ![t].seqnum = n]
    BY <1>1, <1>2, Zenon DEF Updated
  <1>6. PICK f3 : f3 = [f2 EXCEPT ![t].seqnum = n]
    BY Zenon
  <1>7. /\ f3 \in [Tasks -> FifoTasks] /\ f3[t].cpu = f2[t].cpu
        /\ \A u \in Tasks \ {t} : f3[u] = f2[u]
    BY <1>4, <1>6, SMT DEF FifoTasks
  <1> QED  BY <1>3, <1>4, <1>5, <1>6, <1>7, Zenon

\* current after TaskOffCpu.
LEMMA OffCpuCurrent ==
    ASSUME IInv, NEW t
    PROVE  /\ OffCpu(t) \in [Cpus -> Tasks \cup {NoTask}]
           /\ \A d \in Cpus : OffCpu(t)[d] \in {current[d], NoTask}
  <1>1. \A d \in Cpus : current[d] \in Tasks \cup {NoTask}
    BY Zenon DEF IInv, STypes
  <1> QED  BY <1>1, Zenon DEF OffCpu

\* TaskYield, TaskPreempted: the task goes back into its queue.
LEMMA OffCpuRequeueStep ==
    ASSUME IInv, NEW c \in Cpus, pc[c] = "drain", channel[c] # << >>,
           Peek(c).type # "NEW", Peek(c).task \in known, NEW boost \in BOOLEAN,
           OffCpuRequeue(c, boost), ~fault'
    PROVE  IInv'
  <1>1. PICK t \in known : t = Peek(c).task
    BY Zenon
  <1>2. /\ fault' = FALSE /\ task[t].cpu # NoCpu /\ current' = OffCpu(t)
        /\ task' = [task EXCEPT ![t].run_state = "kQueued",
                                ![t].prio_boost = @ \/ boost,
                                ![t].seqnum = Peek(c).seqnum]
        /\ rq' = [rq EXCEPT ![task[t].cpu] = Pushed(@, t, task[t].prio_boost \/ boost)]
        /\ PingChainCpu(Peek(c)) /\ Consume(c)
        /\ UNCHANGED <<kquiet, known, pc, nxt, dest, rr, on_idle>>
    BY <1>1, Zenon DEF OffCpuRequeue, OffCpuOK
  <1>3. t \in Tasks /\ task \in [Tasks -> FifoTasks]
    BY Zenon DEF IInv, STypes, FifoTasks
  <1>4. Peek(c).seqnum \in Int
    BY HeadFacts, Zenon DEF Migrating
  <1>5. /\ task' \in [Tasks -> FifoTasks] /\ task'[t].cpu = task[t].cpu
        /\ \A u \in Tasks \ {t} : task'[u] = task[u]
    <2>1. PICK b \in BOOLEAN : b = (task[t].prio_boost \/ boost)
      BY Zenon
    <2>2. task' = Updated(task, t, "kQueued", b, Peek(c).seqnum)
      BY <1>2, <2>1, Zenon DEF Updated
    <2>3. "kQueued" \in RunStates
      BY DEF RunStates
    <2>4. task \in [Tasks -> FifoTasks] /\ t \in Tasks /\ Peek(c).seqnum \in Int
      BY <1>3, <1>4, Zenon
    <2> QED  BY ONLY <2>2, <2>3, <2>4, b \in BOOLEAN, TaskUpdate
  <1>6. \E b \in BOOLEAN : rq' = [rq EXCEPT ![task[t].cpu] = Pushed(@, t, b)]
    BY <1>2, Zenon
  <1>7. /\ current' \in [Cpus -> Tasks \cup {NoTask}]
        /\ \A d \in Cpus : current'[d] \in {current[d], NoTask}
    BY <1>2, OffCpuCurrent, Zenon
  <1> QED  BY <1>1, <1>2, <1>5, <1>6, <1>7, HandlerStep, ZenonT(60)

\* TaskBlocked and TaskSwitchto: the task leaves its cpu and is not queued.
LEMMA OffCpuBlockStep ==
    ASSUME IInv, NEW c \in Cpus, pc[c] = "drain", channel[c] # << >>,
           Peek(c).type # "NEW", Peek(c).task \in known, NEW fsw,
           OffCpuBlock(c, fsw), ~fault'
    PROVE  IInv'
  <1>1. PICK t \in known : t = Peek(c).task
    BY Zenon
  <1>2. /\ fault' = FALSE /\ task[t].cpu # NoCpu /\ current' = OffCpu(t)
        /\ task' = [task EXCEPT ![t].run_state = "kBlocked", ![t].seqnum = Peek(c).seqnum]
        /\ PingChainCpu(Peek(c)) /\ Consume(c) /\ rq' = rq
        /\ UNCHANGED <<kquiet, known, pc, nxt, dest, rr, on_idle>>
    BY <1>1, Zenon DEF OffCpuBlock, OffCpuOK
  <1>3. t \in Tasks /\ task \in [Tasks -> FifoTasks]
    BY Zenon DEF IInv, STypes, FifoTasks
  <1>4. Peek(c).seqnum \in Int
    BY HeadFacts, Zenon DEF Migrating
  <1>5. /\ task' \in [Tasks -> FifoTasks] /\ task'[t].cpu = task[t].cpu
        /\ \A u \in Tasks \ {t} : task'[u] = task[u]
    BY ONLY <1>2, <1>3, <1>4, ZenonT(60) DEF FifoTasks, RunStates
  <1>6. /\ current' \in [Cpus -> Tasks \cup {NoTask}]
        /\ \A d \in Cpus : current'[d] \in {current[d], NoTask}
    BY <1>2, OffCpuCurrent, Zenon
  <1> QED  BY <1>1, <1>2, <1>5, <1>6, HandlerStep, ZenonT(60)

\* A wakeup of a task that has a cpu.
LEMMA WakeupStep ==
    ASSUME IInv, NEW c \in Cpus, TaskRunnable(c), ~fault', task[Peek(c).task].cpu # NoCpu
    PROVE  IInv'
  <1>1. PICK t \in known : t = Peek(c).task
    BY Zenon DEF TaskRunnable, Dispatching
  <1>2. PICK flag : flag = Peek(c).flag
    BY Zenon
  <1>3. /\ pc[c] = "drain" /\ channel[c] # << >> /\ Peek(c).type = "WAKEUP"
        /\ fault' = FALSE /\ task[t].cpu # NoCpu
        /\ task' = [task EXCEPT ![t].run_state = "kQueued", ![t].prio_boost = ~flag,
                                ![t].seqnum = Peek(c).seqnum]
        /\ rq' = [rq EXCEPT ![task[t].cpu] = Pushed(@, t, ~flag)]
        /\ Consume(c)
        /\ UNCHANGED <<kquiet, stale, known, current, pc, nxt, dest, rr, on_idle>>
    BY <1>1, <1>2, Zenon DEF TaskRunnable, Dispatching, At
  <1>4. t \in Tasks /\ task \in [Tasks -> FifoTasks]
    BY Zenon DEF IInv, STypes, FifoTasks
  <1>5. Peek(c).seqnum \in Int /\ ~Peek(c).fsw
    BY <1>3, HeadFacts, Zenon DEF Migrating, Dated
  <1>6. /\ task' \in [Tasks -> FifoTasks] /\ task'[t].cpu = task[t].cpu
        /\ \A u \in Tasks \ {t} : task'[u] = task[u]
    <2>1. PICK b \in BOOLEAN : b = (~flag)
      BY Zenon
    <2>2. task' = Updated(task, t, "kQueued", b, Peek(c).seqnum)
      BY <1>3, <2>1, Zenon DEF Updated
    <2>3. "kQueued" \in RunStates
      BY DEF RunStates
    <2>4. task \in [Tasks -> FifoTasks] /\ t \in Tasks /\ Peek(c).seqnum \in Int
      BY <1>4, <1>5, Zenon
    <2> QED  BY ONLY <2>2, <2>3, <2>4, b \in BOOLEAN, TaskUpdate
  <1>7. \E b \in BOOLEAN : rq' = [rq EXCEPT ![task[t].cpu] = Pushed(@, t, b)]
    BY <1>3, Zenon
  <1>8. /\ current' \in [Cpus -> Tasks \cup {NoTask}]
        /\ \A d \in Cpus : current'[d] \in {current[d], NoTask}
    BY <1>3, Zenon DEF IInv, STypes
  <1> QED  BY <1>1, <1>3, <1>5, <1>6, <1>7, <1>8, HandlerStep, ZenonT(60)

\* A step that consumes the last message of a task and frees the task.
LEMMA FreeMail ==
    ASSUME IInv, NEW c \in Cpus, pc[c] = "drain", channel[c] # << >>, Consume(c),
           NEW t \in known, t = Peek(c).task, Peek(c).type \in {"DEPARTED", "DEAD"},
           known' = known \ {t}, UNCHANGED <<kstate, barrier, assoc, pc, nxt, dest>>,
           \A u \in Tasks \ {t} : task'[u] = task[u],
           \A d \in Cpus : /\ current'[d] \in {current[d], NoTask}
                           /\ \A u \in Tasks : Contains(rq'[d], u) => Contains(rq[d], u)
    PROVE  Mail' /\ \A u \in Tasks : Booked(u)'
  <1>1. PICK m : m = Peek(c)
    BY Zenon
  <1>2. /\ m \in Mess /\ m.task = t /\ t \in Tasks /\ Dated(m) /\ Placed(m, c)
        /\ m.type \in {"DEPARTED", "DEAD"}
        /\ Elems(channel[c]) = Later(channel[c]) \cup {m}
        /\ \A n \in Later(channel[c]) : Precedes(m, n)
    BY <1>1, HeadFacts, Zenon DEF Migrating
  <1>3. kstate[t] = "gone" /\ Home(t) = c
    BY <1>2, Zenon DEF Dated, Placed
  <1>4. /\ channel[c] \in Seq(Mess) /\ Order(channel[c])
        /\ \A q \in Cpus : channel'[q] = IF q = c THEN Tail(channel[c]) ELSE channel[q]
    BY Zenon DEF IInv, KTypes, Mail, Consume
  <1>5. Elems(channel'[c]) = Later(channel[c]) /\ Order(channel'[c])
    BY <1>4, TailElems, OrderTail, Zenon
  <1>6. ASSUME NEW q \in Cpus
        PROVE  /\ Unread(q)' \subseteq Unread(q) /\ Order(channel'[q])
               /\ \A n \in Unread(q) : n \in Unread(q)' \/ n = m
               /\ Elems(channel'[q]) \subseteq Elems(channel[q])
               /\ q = c => Unread(q)' = Later(channel[c])
    <2>1. CASE q = c
      BY <1>2, <1>5, <2>1, Zenon DEF Unread, Migrating
    <2>2. CASE q # c
      <3>1. channel'[q] = channel[q] /\ Order(channel[q])
        BY <1>4, <2>2, Zenon DEF IInv, Mail
      <3>2. Unread(q)' = Unread(q)
        BY <3>1, Zenon DEF Unread
      <3> QED  BY <2>2, <3>1, <3>2, Zenon
    <2> QED  BY <2>1, <2>2, Zenon
  <1>7. ASSUME NEW u \in Tasks, u # t  PROVE Kept(u)
    <2>1. pc[DefaultChan] = "set_queued" => Peek(DefaultChan)' = Peek(DefaultChan)
      BY <1>4, Constants, Zenon DEF Peek
    <2>2. Handover(u)' <=> Handover(u)
      BY <2>1, Zenon DEF Handover
    <2>3. task'[u].cpu = task[u].cpu /\ (u \in known' <=> u \in known)
      BY <1>7, Zenon
    <2>4. Home(u)' = Home(u)
      BY <2>2, <2>3, Zenon DEF Home
    <2>5. UnreadNew(u) => UnreadNew(u)'
      BY <1>2, <1>6, Constants, Zenon DEF UnreadNew
    <2>6. \A d \in Cpus : Holds(d, u)' => Holds(d, u)
      BY Constants, Zenon DEF Holds
    <2> QED  BY <2>3, <2>4, <2>5, <2>6, Zenon DEF Kept
  <1>8. ASSUME NEW q \in Cpus, NEW n \in Unread(q)'  PROVE Placed(n, q)'
    <2>1. n \in Unread(q) /\ Placed(n, q)
      BY <1>6, Zenon DEF IInv, Mail
    <2>2. n.task # t
      <3> SUFFICES ASSUME n.task = t  PROVE FALSE
        BY Zenon
      <3>1. q = c
        BY <1>3, <2>1, Zenon DEF Placed
      <3>2. Precedes(m, n)
        BY <1>2, <1>6, <3>1, Zenon
      <3> QED  BY <1>2, <3>2, Zenon DEF Precedes
    <2>3. n.task \in Tasks
      <3>1. channel[q] \in Seq(Mess)
        BY Zenon DEF IInv, KTypes
      <3>2. n \in Mess
        BY <2>1, <3>1, ElemsIn, Zenon DEF Unread
      <3> QED  BY <3>2 DEF Mess
    <2> QED  BY <1>7, <2>1, <2>2, <2>3, KeptPlaced, Zenon
  <1>9. Mail'
    <2>1. \A q \in Cpus : \A n \in Elems(channel'[q]) : Dated(n)'
      BY <1>6, Zenon DEF IInv, Mail, Dated
    <2> QED  BY <1>6, <1>8, <2>1, Zenon DEF Mail
  <1>10. SameTasks({t})
    BY Zenon DEF SameTasks
  <1>11. ASSUME NEW u \in Tasks  PROVE Booked(u)'
    <2>1. CASE u = t
      BY <1>3, <2>1, Zenon DEF Booked
    <2>2. CASE u # t
      <3>1. u \notin {t} /\ Booked(u)
        BY <2>2, Zenon DEF IInv
      <3> QED  BY <1>7, <1>10, <2>2, <3>1, KeptBooked, Zenon
    <2> QED  BY <2>1, <2>2, Zenon
  <1> QED  BY <1>9, <1>11, Zenon

\* The last message of a task that was not in the middle of a handover.
LEMMA FreeStep ==
    ASSUME IInv, NEW c \in Cpus, pc[c] = "drain", channel[c] # << >>, Consume(c),
           UNCHANGED <<kquiet, pc, nxt, dest, rr, on_idle>>, fault' = FALSE,
           NEW t \in known, t = Peek(c).task, Peek(c).type \in {"DEPARTED", "DEAD"}, Free(t),
           ~Unassigned(t), rq' \in [Cpus -> Seq(Tasks)],
           current' \in [Cpus -> Tasks \cup {NoTask}],
           \A d \in Cpus : /\ current'[d] \in {current[d], NoTask}
                           /\ d # c => rq'[d] = rq[d]
                           /\ \A u \in Tasks : Contains(rq'[d], u) => Contains(rq[d], u),
           PingChainCpu(Peek(c)) \/ (UNCHANGED stale /\ ~Peek(c).fsw)
    PROVE  IInv'
  <1>1. t \in Tasks /\ kstate[t] = "gone"
    BY HeadFacts, Zenon DEF Migrating, Dated
  <1>2. /\ known' = known \ {t} /\ task' \in [Tasks -> FifoTasks]
        /\ \A u \in Tasks \ {t} : task'[u] = task[u]
    <2>1. NewTask \in FifoTasks
      BY DEF NewTask, FifoTasks, RunStates
    <2>2. task \in [Tasks -> FifoTasks]
      BY Zenon DEF IInv, STypes, FifoTasks
    <2> QED  BY <1>1, <2>1, <2>2, Zenon DEF Free
  <1>3. UNCHANGED <<kstate, barrier, assoc>>
    BY Zenon DEF kquiet
  <1>4. Mail' /\ \A u \in Tasks : Booked(u)'
    BY <1>2, <1>3, FreeMail, ZenonT(60)
  <1>5. \A u \in Tasks : /\ u \in known' => u \in known /\ task'[u].cpu = task[u].cpu
                         /\ Unassigned(u) => Unassigned(u)'
    <2> SUFFICES ASSUME NEW u \in Tasks
                 PROVE  /\ u \in known' => u \in known /\ task'[u].cpu = task[u].cpu
                        /\ Unassigned(u) => Unassigned(u)'
      BY Zenon
    <2>1. CASE u = t
      BY <1>2, <2>1, Zenon
    <2>2. CASE u # t
      BY <1>2, <2>2, Zenon DEF Unassigned
    <2> QED  BY <2>1, <2>2, Zenon
  <1>6. \A u \in Tasks : u \in known /\ kstate[u] = "running" /\ task[u].cpu \in Cpus =>
          u \in known' /\ task'[u].cpu = task[u].cpu
    BY <1>1, <1>2, Zenon
  <1>7. known' \subseteq Tasks
    BY <1>2, Zenon DEF IInv, STypes
  <1> QED  BY <1>2, <1>4, <1>5, <1>6, <1>7, ConsumeStep, ZenonT(60) DEF FifoTasks

\* TaskDead frees a task that nobody holds.
LEMMA TaskDeadStep ==
    ASSUME IInv, NEW c \in Cpus, TaskDead(c), ~fault'
    PROVE  IInv'
  <1>1. PICK t \in known : t = Peek(c).task
    BY Zenon DEF TaskDead, Dispatching
  <1>2. /\ pc[c] = "drain" /\ channel[c] # << >> /\ Peek(c).type = "DEAD" /\ Consume(c)
        /\ fault' = FALSE /\ task[t].run_state = "kBlocked" /\ Free(t)
        /\ UNCHANGED <<kquiet, stale, rq, current, pc, nxt, dest, rr, on_idle>>
    BY <1>1, Zenon DEF TaskDead, Dispatching, At
  <1>3. ~Unassigned(t)
    BY <1>2, Zenon DEF Unassigned
  <1>4. ~Peek(c).fsw
    BY <1>2, HeadFacts, Zenon DEF Migrating, Dated
  <1>5. /\ rq' \in [Cpus -> Seq(Tasks)] /\ current' \in [Cpus -> Tasks \cup {NoTask}]
        /\ \A d \in Cpus : current'[d] = current[d] /\ rq'[d] = rq[d]
    BY <1>2, Zenon DEF IInv, STypes
  <1> QED  BY <1>1, <1>2, <1>3, <1>4, <1>5, FreeStep, ZenonT(60)

\* What is needed of a step that takes the agent of c from one place to another and
\* consumes nothing: what it does to the other agents, to the tasks that run, and to
\* the task in Migrate.
OthersKept(c) ==
    \A d \in Cpus : d # c => /\ agentRuns'[d] = agentRuns[d] /\ nxt'[d] = nxt[d]
                             /\ dest'[d] = dest[d] /\ on_idle'[d] = on_idle[d]
                             /\ current'[d] \in {current[d], NoTask}
                             /\ rq'[d] = rq[d] \/ (pc'[c] = "ping" /\ dest'[c] = d)
                             /\ stale[d] => stale'[d]

RunningKept ==
    \A u \in Tasks : u \in known /\ kstate[u] = "running" /\ task[u].cpu \in Cpus =>
                       u \in known' /\ task'[u].cpu = task[u].cpu

HandoverKept(c) ==
    \A q \in Cpus : q # c /\ pc[q] \in Migrating => \A u \in Tasks :
        /\ u \in known' => u \in known /\ task'[u].cpu = task[u].cpu
        /\ Unassigned(u) => Unassigned(u)'

\* An agent's step outside Commit, from the parts that its assignments disturb.
LEMMA MoveStep ==
    ASSUME IInv, NEW c \in Cpus, NEW x, pc' = [pc EXCEPT ![c] = x],
           pc[c] # "in_run", x # "in_run",
           UNCHANGED <<kstate, kcur, chain, on_cpu, barrier, cfs, channel>>,
           assoc' \in [Tasks -> Cpus], stale' \in [Cpus -> BOOLEAN],
           agentRuns' \in [Cpus -> BOOLEAN], STypes', Mail', \A u \in Tasks : Booked(u)',
           OthersKept(c), RunningKept, HandoverKept(c),
           agentRuns'[c] <=> x # "asleep", x \in InHands => nxt'[c] \in Tasks,
           x \in Migrating => \E t \in Tasks : Migrates(c, t)',
           pc[c] = "ping" => \A d \in Cpus : d = dest[c] => stale'[d],
           Awake(c)'
    PROVE  IInv'
  <1>1. \A d \in Cpus : pc'[d] = IF d = c THEN x ELSE pc[d]
    BY Zenon DEF IInv, STypes
  <1>2. KTypes'
    BY Zenon DEF IInv, KTypes
  <1>3. Migration'
    <2>1. ASSUME NEW q \in Cpus, pc[q] \in Migrating
          PROVE  channel'[q] # << >> /\ Peek(q)' = Peek(q)
      BY <2>1, Zenon DEF IInv, Migration, Migrates, Peek
    <2>2. ASSUME NEW q \in Cpus, pc'[q] \in Migrating  PROVE \E u \in Tasks : Migrates(q, u)'
      <3>1. CASE q = c
        BY <1>1, <2>2, <3>1, Zenon
      <3>2. CASE q # c
        <4>1. pc'[q] = pc[q] /\ dest'[q] = dest[q] /\ Migration
          BY <1>1, <3>2, Zenon DEF OthersKept, IInv
        <4>2. \A u \in Tasks : /\ u \in known' => u \in known /\ task'[u].cpu = task[u].cpu
                               /\ Unassigned(u) => Unassigned(u)'
          BY <2>2, <3>2, <4>1, Zenon DEF HandoverKept
        <4> QED  BY <2>1, <2>2, <4>1, <4>2, MigrationFrame, Zenon
      <3> QED  BY <3>1, <3>2, Zenon
    <2> QED  BY <2>2, Zenon DEF Migration
  <1>4. \A d \in Cpus : Running(d)'
    BY AgentRunning, ZenonT(60) DEF OthersKept, RunningKept
  <1>5. \A d \in Cpus : Awake(d)'
    <2>1. \A d \in Cpus : d # c => /\ channel'[d] = channel[d] /\ (stale[d] => stale'[d])
                                   /\ on_idle'[d] = on_idle[d] /\ dest'[d] = dest[d]
                                   /\ current'[d] \in {current[d], NoTask}
                                   /\ kcur'[d] = kcur[d]
                                   /\ rq'[d] = rq[d] \/ (x = "ping" /\ dest'[c] = d)
      <3>1. pc'[c] = x
        BY <1>1, Zenon
      <3> QED  BY <3>1, Zenon DEF OthersKept
    <2>2. \A d \in Cpus : \A n \in Elems(channel[c]) :
            n.fsw /\ n.cpu = d => n \in Elems(channel'[c]) \/ stale'[d]
      BY Zenon
    <2> QED  BY <2>1, <2>2, AgentAwake, Zenon
  <1> QED  BY <1>2, <1>3, <1>4, <1>5, Zenon DEF IInv

\* What the books say once the allocator has a new task.
LEMMA NewMail ==
    ASSUME IInv, NEW c \in Cpus, pc[c] = "drain", channel[c] # << >>,
           NEW t \in Tasks, t = Peek(c).task, Peek(c).type = "NEW", t \notin known,
           known' = known \cup {t}, task'[t].cpu = NoCpu,
           \A u \in Tasks \ {t} : task'[u] = task[u],
           UNCHANGED <<kstate, barrier, assoc, rq, current, nxt, dest>>,
           \A q \in Cpus : q # c => pc'[q] = pc[q] /\ channel'[q] = channel[q],
           pc'[c] \in {"drain", "associate"}, Unread(c)' = Later(channel[c]),
           Order(channel'[c]), Elems(channel'[c]) \subseteq Elems(channel[c])
    PROVE  c = DefaultChan /\ Mail' /\ \A u \in Tasks : Booked(u)'
  <1>1. PICK m : m = Peek(c)
    BY Zenon
  <1>2. /\ m \in Mess /\ m.task = t /\ Dated(m) /\ Placed(m, c) /\ m.type = "NEW"
        /\ Elems(channel[c]) = Later(channel[c]) \cup {m} /\ Booked(t)
        /\ \A n \in Later(channel[c]) : Precedes(m, n)
    BY <1>1, HeadFacts, Zenon DEF Migrating, IInv
  <1>3. /\ c = DefaultChan /\ Home(t) = c /\ kstate[t] # "out"
        /\ \A d \in Cpus : ~Holds(d, t)
    BY <1>2, Zenon DEF Placed, Home, Dated
  <1>4. Home(t)' = c
    BY <1>3, Zenon DEF Home, Handover
  <1>5. ASSUME NEW q \in Cpus
        PROVE  /\ Unread(q)' \subseteq Unread(q) /\ Order(channel'[q])
               /\ \A n \in Unread(q) : n \in Unread(q)' \/ n = m
               /\ Elems(channel'[q]) \subseteq Elems(channel[q])
    <2>1. CASE q = c
      BY <1>2, <2>1, Zenon DEF Unread, Migrating
    <2>2. CASE q # c
      <3>1. channel'[q] = channel[q] /\ Order(channel[q]) /\ pc'[q] = pc[q]
        BY <2>2, Zenon DEF IInv, Mail
      <3>2. Unread(q)' = Unread(q)
        BY <3>1, Zenon DEF Unread
      <3> QED  BY <3>1, <3>2, Zenon
    <2> QED  BY <2>1, <2>2, Zenon
  <1>6. \A d \in Cpus, u \in Tasks : Holds(d, u)' => Holds(d, u)
    <2>1. \A d \in Cpus : pc'[d] \in InHands => pc[d] \in InHands
      BY Zenon DEF InHands
    <2> QED  BY <2>1, Zenon DEF Holds
  <1>7. ASSUME NEW u \in Tasks, u # t  PROVE Kept(u)
    <2>1. ~Handover(u)' /\ ~Handover(u)
      BY <1>3, Zenon DEF Handover
    <2>2. task'[u].cpu = task[u].cpu /\ (u \in known' <=> u \in known)
      BY <1>7, Zenon
    <2>3. Home(u)' = Home(u)
      BY <2>1, <2>2, Zenon DEF Home
    <2>4. UnreadNew(u) => UnreadNew(u)'
      BY <1>2, <1>3, <1>5, <1>7, Zenon DEF UnreadNew
    <2> QED  BY <1>6, <2>2, <2>3, <2>4, Zenon DEF Kept
  <1>8. ASSUME NEW q \in Cpus, NEW n \in Unread(q)'  PROVE Placed(n, q)'
    <2>1. n \in Unread(q) /\ Placed(n, q)
      BY <1>5, Zenon DEF IInv, Mail
    <2>2. CASE n.task = t
      <3>1. q = c
        BY <1>3, <2>1, <2>2, Zenon DEF Placed
      <3>2. n.type # "NEW"
        BY <1>2, <2>2, <3>1, Zenon DEF Precedes
      <3> QED  BY <1>4, <2>2, <3>1, <3>2, Zenon DEF Placed
    <2>3. CASE n.task # t
      <3>1. channel[q] \in Seq(Mess)
        BY Zenon DEF IInv, KTypes
      <3>2. n \in Mess
        BY <2>1, <3>1, ElemsIn, Zenon DEF Unread
      <3>3. n.task \in Tasks
        BY <3>2 DEF Mess
      <3> QED  BY <1>7, <2>1, <2>3, <3>3, KeptPlaced, Zenon
    <2> QED  BY <2>2, <2>3, Zenon
  <1>9. Mail'
    <2>1. \A q \in Cpus : \A n \in Elems(channel'[q]) : Dated(n)'
      BY <1>5, ZenonT(60) DEF IInv, Mail, Dated
    <2> QED  BY <1>5, <1>8, <2>1, Zenon DEF Mail
  <1>10. SameTasks({t})
    BY Zenon DEF SameTasks
  <1>11. ASSUME NEW u \in Tasks  PROVE Booked(u)'
    <2>1. CASE u = t
      BY <1>2, <1>3, <1>4, <1>6, <2>1, Zenon DEF Booked
    <2>2. CASE u # t
      <3>1. u \notin {t} /\ Booked(u)
        BY <2>2, Zenon DEF IInv
      <3> QED  BY <1>7, <1>10, <2>2, <3>1, KeptBooked, Zenon
    <2> QED  BY <2>1, <2>2, Zenon
  <1> QED  BY <1>3, <1>9, <1>11, Zenon

\* TaskNew: the task becomes known and, if runnable, is about to migrate.
LEMMA TaskNewStep ==
    ASSUME IInv, ~fault, NEW c \in Cpus, TaskNew(c)
    PROVE  IInv'
  <1>1. /\ pc[c] = "drain" /\ channel[c] # << >> /\ Peek(c).type = "NEW" /\ Peek(c).task \notin known
        /\ UNCHANGED <<kquiet, stale, rq, current, nxt, dest, rr, on_idle, fault>>
    BY Zenon DEF TaskNew, At
  <1>2. /\ Peek(c).task \in Tasks /\ Peek(c).seqnum \in Int /\ Dated(Peek(c))
        /\ Elems(channel[c]) = Later(channel[c]) \cup {Peek(c)}
    BY <1>1, HeadFacts, Zenon DEF Migrating
  <1>3. PICK t \in Tasks : t = Peek(c).task
    BY <1>2, Zenon
  <1>0. PICK state \in RunStates : state = IF Peek(c).flag THEN "kRunnable" ELSE "kBlocked"
    BY Zenon DEF RunStates
  <1>4. PICK r : r = [NewTask EXCEPT !.seqnum = Peek(c).seqnum, !.run_state = state]
    BY Zenon
  <1>5. known' = known \cup {t} /\ task' = [task EXCEPT ![t] = r]
    BY <1>0, <1>3, <1>4, Zenon DEF TaskNew
  <1>6. /\ task' \in [Tasks -> FifoTasks] /\ task'[t].cpu = NoCpu
        /\ \A u \in Tasks \ {t} : task'[u] = task[u]
    <2>1. task \in [Tasks -> FifoTasks]
      BY Zenon DEF IInv, STypes, FifoTasks
    <2>2. r \in FifoTasks /\ r.cpu = NoCpu
      BY ONLY <1>2, <1>4, state \in RunStates, ZenonT(60) DEF NewTask, FifoTasks
    <2> QED  BY <1>5, <2>1, <2>2, Zenon
  <1>7. /\ UNCHANGED <<kstate, kcur, chain, on_cpu, barrier, assoc, agentRuns, cfs>>
        /\ fault' = FALSE /\ ~Peek(c).fsw /\ t \notin known /\ known' \subseteq Tasks
    BY <1>1, <1>2, <1>3, <1>5, Zenon DEF kquiet, Dated, IInv, STypes
  <1>8. RunningKept
    BY <1>5, <1>6, <1>7, Zenon DEF RunningKept
  <1>9. \A q \in Cpus : pc[q] \in Migrating => q = DefaultChan
    BY Zenon DEF IInv, Migration, Migrates
  <1>10. channel[c] \in Seq(Mess) /\ Order(channel[c])
    BY Zenon DEF IInv, KTypes, Mail
  <1>11. CASE Peek(c).flag
    <2>1. pc' = [pc EXCEPT ![c] = "associate"] /\ channel' = channel
      BY <1>11, Zenon DEF TaskNew
    <2>2. \A d \in Cpus : pc'[d] = IF d = c THEN "associate" ELSE pc[d]
      BY <2>1, Zenon DEF IInv, STypes
    <2>3. Unread(c)' = Later(channel[c])
      BY <2>1, <2>2, Zenon DEF Unread, Migrating
    <2>4. c = DefaultChan /\ Mail' /\ \A u \in Tasks : Booked(u)'
      <3>1. /\ \A q \in Cpus : q # c => pc'[q] = pc[q] /\ channel'[q] = channel[q]
            /\ pc'[c] \in {"drain", "associate"}
            /\ Order(channel'[c]) /\ Elems(channel'[c]) \subseteq Elems(channel[c])
        BY <1>10, <2>1, <2>2, Zenon
      <3>2. UNCHANGED <<kstate, barrier, assoc, rq, current, nxt, dest>>
        BY <1>1, <1>7, Zenon
      <3> QED  BY <1>1, <1>3, <1>5, <1>6, <1>7, <2>3, <3>1, <3>2, NewMail, ZenonT(60)
    <2>5. OthersKept(c)
      BY <1>1, <1>7, Zenon DEF OthersKept
    <2>6. HandoverKept(c)
      BY <1>9, <2>4, Zenon DEF HandoverKept
    <2>7. STypes'
      <3>1. pc' \in [Cpus -> PCs]
        BY <2>1, Zenon DEF IInv, STypes, PCs
      <3> QED  BY <1>1, <1>6, <1>7, <3>1, Zenon DEF IInv, STypes, FifoTasks
    <2>8. Migrates(c, t)'
      <3>1. Peek(c)' = Peek(c) /\ pc'[c] = "associate"
        BY <2>1, <2>2, Zenon DEF Peek
      <3> QED  BY <1>1, <1>3, <2>1, <2>4, <3>1, Zenon DEF Migrates
    <2>9. Awake(c)'
      BY <2>2, Zenon DEF Awake
    <2>10. /\ assoc' \in [Tasks -> Cpus] /\ stale' \in [Cpus -> BOOLEAN]
           /\ agentRuns' \in [Cpus -> BOOLEAN] /\ agentRuns'[c] /\ stale' = stale
      BY <1>1, <1>7, Zenon DEF IInv, KTypes, Running
    <2>11. "associate" \notin InHands /\ pc[c] # "ping" /\ pc[c] # "in_run"
      BY <1>1, Zenon DEF InHands
    <2> QED  BY <1>7, <1>8, <2>1, <2>4, <2>5, <2>6, <2>7, <2>8, <2>9, <2>10, <2>11,
                MoveStep, ZenonT(60)
  <1>12. CASE ~Peek(c).flag
    <2>1. Consume(c) /\ pc' = pc
      BY <1>12, ZenonT(60) DEF TaskNew
    <2>2. \A q \in Cpus : channel'[q] = IF q = c THEN Tail(channel[c]) ELSE channel[q]
      BY <2>1, Zenon DEF IInv, KTypes, Consume
    <2>3. Elems(channel'[c]) = Later(channel[c]) /\ Order(channel'[c])
      BY <1>1, <1>10, <2>2, TailElems, OrderTail, Zenon
    <2>4. Unread(c)' = Later(channel[c])
      BY <1>1, <2>1, <2>3, Zenon DEF Unread, Migrating
    <2>5. Elems(channel'[c]) \subseteq Elems(channel[c])
      BY <1>2, <2>3, Zenon
    <2>6. c = DefaultChan /\ Mail' /\ \A u \in Tasks : Booked(u)'
      BY <1>1, <1>3, <1>5, <1>6, <1>7, <2>1, <2>2, <2>3, <2>4, <2>5, NewMail, ZenonT(60)
    <2>7. \A q \in Cpus : pc[q] \notin Migrating
      BY <1>1, <1>9, <2>6, Zenon DEF Migrating
    <2>8. /\ rq' \in [Cpus -> Seq(Tasks)] /\ current' \in [Cpus -> Tasks \cup {NoTask}]
          /\ \A d \in Cpus : rq'[d] = rq[d] /\ current'[d] = current[d]
          /\ UNCHANGED <<kquiet, pc, nxt, dest, rr, on_idle>> /\ UNCHANGED stale
      BY <1>1, <2>1, Zenon DEF IInv, STypes
    <2> QED  BY <1>1, <1>6, <1>7, <1>8, <2>1, <2>6, <2>7, <2>8, ConsumeStep, ZenonT(60)
             DEF FifoTasks, RunningKept
  <1> QED  BY <1>11, <1>12, Zenon

\* A wakeup of a task that has no cpu yet begins its migration.
LEMMA WakeupNewStep ==
    ASSUME IInv, NEW c \in Cpus, TaskRunnable(c), ~fault', task[Peek(c).task].cpu = NoCpu
    PROVE  IInv'
  <1>1. PICK t \in known : t = Peek(c).task
    BY Zenon DEF TaskRunnable, Dispatching
  <1>2. PICK b \in BOOLEAN : b = (~Peek(c).flag)
    BY Zenon
  <1>3. /\ pc[c] = "drain" /\ channel[c] # << >> /\ Peek(c).type = "WAKEUP"
        /\ fault' = FALSE /\ task[t].cpu = NoCpu /\ task[t].run_state = "kBlocked"
        /\ task' = [task EXCEPT ![t].run_state = "kRunnable", ![t].prio_boost = b]
        /\ pc' = [pc EXCEPT ![c] = "associate"]
        /\ UNCHANGED <<kquiet, stale, known, rq, channel, current, nxt, dest, rr, on_idle>>
    BY <1>1, <1>2, Zenon DEF TaskRunnable, Dispatching, At
  <1>4. t \in Tasks /\ task \in [Tasks -> FifoTasks] /\ known \subseteq Tasks
    BY Zenon DEF IInv, STypes, FifoTasks
  <1>5. /\ task' \in [Tasks -> FifoTasks] /\ task'[t].cpu = NoCpu
        /\ \A u \in Tasks \ {t} : task'[u] = task[u]
    <2>1. PICK f : f = [task EXCEPT ![t].run_state = "kRunnable"]
      BY Zenon
    <2>2. f \in [Tasks -> FifoTasks] /\ f[t].cpu = NoCpu /\ \A u \in Tasks \ {t} : f[u] = task[u]
      BY ONLY <1>3, <1>4, <2>1 DEF FifoTasks, RunStates
    <2>3. task' = [f EXCEPT ![t].prio_boost = b]
      BY <1>3, <2>1, Zenon
    <2> QED  BY ONLY <1>4, <2>2, <2>3, b \in BOOLEAN DEF FifoTasks
  <1>6. \A u \in Tasks : task'[u].cpu = task[u].cpu
    BY <1>3, <1>5, Zenon
  <1>7. /\ Peek(c) \in Unread(c) /\ Placed(Peek(c), c)
        /\ Elems(channel[c]) = Later(channel[c]) \cup {Peek(c)}
    BY <1>3, HeadFacts, Zenon DEF Migrating
  <1>8. c = DefaultChan
    <2>1. ~Handover(t)
      <3> SUFFICES ASSUME Handover(t)  PROVE FALSE
        BY Zenon
      <3>1. PICK v \in Tasks : Migrates(DefaultChan, v)
        BY Constants, Zenon DEF Handover, IInv, Migration, Migrating
      <3>2. task[t].run_state = "kRunnable"
        BY <3>1, Zenon DEF Handover, Migrates, Unassigned
      <3> QED  BY <1>3, <3>2
    <2> QED  BY <1>1, <1>3, <1>7, <2>1, Zenon DEF Placed, Home
  <1>9. \A d \in Cpus : pc'[d] = IF d = c THEN "associate" ELSE pc[d]
    BY <1>3, Zenon DEF IInv, STypes
  <1>10. UNCHANGED <<kstate, kcur, chain, on_cpu, barrier, assoc, agentRuns, cfs>>
    BY <1>3, Zenon DEF kquiet
  <1>11. ASSUME NEW q \in Cpus
         PROVE  /\ Unread(q)' \subseteq Unread(q)
                /\ \A n \in Unread(q) : n \in Unread(q)' \/ n = Peek(c)
    <2>1. CASE q = c
      BY <1>3, <1>7, <1>9, <2>1, Zenon DEF Unread, Migrating
    <2>2. CASE q # c
      BY <1>3, <1>9, <2>2, Zenon DEF Unread
    <2> QED  BY <2>1, <2>2, Zenon
  <1>12. ASSUME NEW u \in Tasks  PROVE Kept(u)
    <2>1. ~Handover(u)' /\ ~Handover(u)
      <3>1. pc'[DefaultChan] = "associate" /\ pc[DefaultChan] = "drain"
        BY <1>3, <1>8, <1>9, Zenon
      <3> QED  BY <3>1, Zenon DEF Handover
    <2>2. Home(u)' = Home(u)
      BY <1>3, <1>6, <2>1, Zenon DEF Home
    <2>3. UnreadNew(u) => UnreadNew(u)'
      BY <1>3, <1>8, <1>11, Zenon DEF UnreadNew
    <2>4. \A d \in Cpus : Holds(d, u)' => Holds(d, u)
      <3>1. \A d \in Cpus : pc'[d] \in InHands => pc[d] \in InHands
        BY <1>9, Zenon DEF InHands
      <3> QED  BY <1>3, <3>1, Zenon DEF Holds
    <2> QED  BY <1>3, <1>6, <2>2, <2>3, <2>4, Zenon DEF Kept
  <1>13. SameTasks({})
    BY <1>10, Zenon DEF SameTasks
  <1>14. Mail' /\ \A u \in Tasks : Booked(u)'
    <2>1. Mail'
      BY <1>3, <1>10, <1>11, <1>12, <1>13, MailKept, Zenon DEF IInv, Mail
    <2>2. \A u \in Tasks : Booked(u)'
      BY <1>12, <1>13, KeptBooked, Zenon DEF IInv
    <2> QED  BY <2>1, <2>2, Zenon
  <1>15. OthersKept(c) /\ RunningKept
    BY <1>3, <1>6, <1>10, Zenon DEF OthersKept, RunningKept
  <1>16. HandoverKept(c)
    BY <1>8, Zenon DEF HandoverKept, IInv, Migration, Migrates
  <1>17. STypes'
    <2>1. pc' \in [Cpus -> PCs]
      BY <1>3, Zenon DEF IInv, STypes, PCs
    <2> QED  BY <1>3, <1>5, <2>1, Zenon DEF IInv, STypes, FifoTasks
  <1>18. Migrates(c, t)'
    <2>1. Peek(c)' = Peek(c) /\ pc'[c] = "associate"
      BY <1>3, <1>9, Zenon DEF Peek
    <2> QED  BY <1>1, <1>3, <1>8, <2>1, Zenon DEF Migrates
  <1>19. Awake(c)'
    BY <1>9, Zenon DEF Awake
  <1>20. /\ assoc' \in [Tasks -> Cpus] /\ stale' \in [Cpus -> BOOLEAN]
         /\ agentRuns' \in [Cpus -> BOOLEAN] /\ agentRuns'[c]
    BY <1>3, <1>10, Zenon DEF IInv, KTypes, Running
  <1>21. "associate" \notin InHands /\ pc[c] # "ping" /\ pc[c] # "in_run"
    BY <1>3, Zenon DEF InHands
  <1> QED  BY <1>3, <1>4, <1>10, <1>14, <1>15, <1>16, <1>17, <1>18, <1>19, <1>20, <1>21,
              MoveStep, ZenonT(60)

\* The agent in Migrate, and the message it holds.
LEMMA MigratingFacts ==
    ASSUME IInv, NEW c \in Cpus, pc[c] \in Migrating
    PROVE  /\ c = DefaultChan /\ channel[c] # << >> /\ Peek(c) \in Mess
           /\ Peek(c).task \in Tasks /\ Peek(c).seqnum \in Int /\ ~Peek(c).fsw
           /\ Peek(c).type \in {"NEW", "WAKEUP"} /\ Migrates(c, Peek(c).task)
           /\ Elems(channel[c]) = Later(channel[c]) \cup {Peek(c)}
           /\ \A n \in Later(channel[c]) : Precedes(Peek(c), n)
           /\ Unread(c) = Later(channel[c]) /\ HandoverKept(c)
           /\ channel[c] \in Seq(Mess) /\ Order(channel[c])
  <1>1. PICK t \in Tasks : Migrates(c, t)
    BY Zenon DEF IInv, Migration
  <1>2. channel[c] \in Seq(Mess) /\ Order(channel[c])
    BY Zenon DEF IInv, KTypes, Mail
  <1>3. /\ c = DefaultChan /\ channel[c] # << >> /\ Peek(c).task = t
        /\ Peek(c).type \in {"NEW", "WAKEUP"}
    BY <1>1, Zenon DEF Migrates
  <1>4. /\ Peek(c) \in Mess /\ Elems(channel[c]) = Later(channel[c]) \cup {Peek(c)}
        /\ \A n \in Later(channel[c]) : Precedes(Peek(c), n)
    BY <1>2, <1>3, TailElems, OrderTail, Zenon DEF Peek
  <1>5. Peek(c).seqnum \in Int
    BY <1>4 DEF Mess
  <1>6. Dated(Peek(c))
    BY <1>4, Zenon DEF IInv, Mail
  <1>7. ~Peek(c).fsw
    BY <1>3, <1>6, Zenon DEF Dated
  <1>8. HandoverKept(c)
    BY <1>3, Zenon DEF HandoverKept, IInv, Migration, Migrates
  <1>9. Unread(c) = Later(channel[c])
    BY Zenon DEF Unread
  <1> QED  BY <1>1, <1>2, <1>3, <1>4, <1>5, <1>7, <1>8, <1>9, Zenon

\* Migrate, rq.Enqueue of the destination: the task is in its agent's hands.
LEMMA MigratePushStep ==
    ASSUME IInv, NEW c \in Cpus, MigratePush(c), ~fault'
    PROVE  IInv'
  <1>1. pc[c] = "push" /\ pc[c] \in Migrating
    BY Zenon DEF MigratePush, At, Migrating
  <1>2. /\ c = DefaultChan /\ channel[c] # << >> /\ Peek(c).type \in {"NEW", "WAKEUP"}
        /\ Peek(c).task \in Tasks /\ HandoverKept(c) /\ Migrates(c, Peek(c).task)
    BY <1>1, MigratingFacts, Zenon
  <1>3. PICK t \in Tasks : t = Peek(c).task
    BY <1>2, Zenon
  <1>4. PICK d \in Cpus : d = dest[c]
    BY <1>1, <1>2, Zenon DEF Migrates
  <1>5. /\ fault' = FALSE /\ t \in known /\ rq' = [rq EXCEPT ![d] = Pushed(@, t, task[t].prio_boost)]
        /\ pc' = [pc EXCEPT ![c] = "ping"]
        /\ UNCHANGED <<kvars, known, task, current, nxt, dest, rr, on_idle>>
    BY <1>3, <1>4, Zenon DEF MigratePush, Freed
  <1>6. task[t].cpu = d
    BY <1>1, <1>2, <1>3, <1>4, <1>5, Zenon DEF Migrates
  <1>7. /\ rq' \in [Cpus -> Seq(Tasks)] /\ \A e \in Cpus : e # d => rq'[e] = rq[e]
        /\ \A u \in Tasks : Contains(rq'[d], u) => Contains(rq[d], u) \/ u = t
    <2>1. rq \in [Cpus -> Seq(Tasks)] /\ rq[d] \in Seq(Tasks)
      BY Zenon DEF IInv, STypes
    <2>2. /\ Pushed(rq[d], t, task[t].prio_boost) \in Seq(Tasks)
          /\ \A u : Contains(Pushed(rq[d], t, task[t].prio_boost), u) => Contains(rq[d], u) \/ u = t
      BY <2>1, PushedQueue, Zenon
    <2> QED  BY <1>5, <2>1, <2>2, Zenon
  <1>8. \A e \in Cpus : pc'[e] = IF e = c THEN "ping" ELSE pc[e]
    BY <1>5, Zenon DEF IInv, STypes
  <1>9. BooksKept
    <2>1. SamePhase
      BY <1>1, <1>5, PhaseFrame, Zenon DEF IInv, Migrating
    <2>2. ASSUME NEW e \in Cpus, NEW u \in Tasks, Holds(e, u)'
          PROVE  Holds(e, u) \/ (u \in known /\ task[u].cpu = e)
      <3>1. CASE current'[e] = u
        BY <1>5, <3>1, Zenon DEF Holds
      <3>2. CASE Contains(rq'[e], u)
        BY <1>5, <1>6, <1>7, <3>2, Zenon DEF Holds
      <3>3. CASE pc'[e] \in InHands /\ nxt'[e] = u
        <4>1. e # c
          BY <1>8, <3>3, Zenon DEF InHands
        <4> QED  BY <1>5, <1>8, <3>3, <4>1, Zenon DEF Holds
      <3> QED  BY <2>2, <3>1, <3>2, <3>3, Zenon DEF Holds
    <2> QED  BY <1>5, <2>1, <2>2, Zenon DEF BooksKept
  <1>10. UNCHANGED <<kstate, kcur, chain, on_cpu, barrier, assoc, channel, stale, agentRuns, cfs>>
    BY <1>5, Zenon DEF kvars
  <1>11. SameTasks({})
    BY <1>10, Zenon DEF SameTasks
  <1>12. Mail' /\ \A u \in Tasks : Booked(u)'
    BY <1>9, <1>10, <1>11, QuietMail, Zenon
  <1>13. OthersKept(c)
    BY <1>4, <1>5, <1>7, <1>8, <1>10, Zenon DEF OthersKept
  <1>14. RunningKept
    BY <1>5, Zenon DEF RunningKept
  <1>15. STypes'
    <2>1. pc' \in [Cpus -> PCs]
      BY <1>5, Zenon DEF IInv, STypes, PCs
    <2> QED  BY <1>5, <1>7, <2>1, Zenon DEF IInv, STypes
  <1>16. Migrates(c, t)'
    <2>1. Peek(c)' = Peek(c) /\ pc'[c] = "ping" /\ dest'[c] \in Cpus
      BY <1>4, <1>5, <1>8, <1>10, Zenon DEF Peek
    <2> QED  BY <1>2, <1>3, <1>10, <2>1, Zenon DEF Migrates
  <1>17. Awake(c)'
    BY <1>8, Zenon DEF Awake
  <1>18. /\ assoc' \in [Tasks -> Cpus] /\ stale' \in [Cpus -> BOOLEAN]
         /\ agentRuns' \in [Cpus -> BOOLEAN] /\ agentRuns'[c]
    BY <1>1, <1>10, Zenon DEF IInv, KTypes, Running
  <1>19. "ping" \notin InHands /\ pc[c] # "ping" /\ pc[c] # "in_run"
    BY <1>1, Zenon DEF InHands
  <1> QED  BY <1>2, <1>5, <1>10, <1>12, <1>13, <1>14, <1>15, <1>16, <1>17, <1>18, <1>19,
              MoveStep, ZenonT(60)

\* A step that leaves the books, the channels and the tasks alone.
LEMMA QuietMove ==
    ASSUME IInv, NEW c \in Cpus, NEW x \in PCs, pc' = [pc EXCEPT ![c] = x],
           x \in Migrating <=> pc[c] \in Migrating,
           pc[c] \notin {"set_queued", "in_run"}, x \notin {"set_queued", "in_run", "push"},
           UNCHANGED <<kstate, kcur, chain, on_cpu, barrier, assoc, cfs, channel,
                       known, task, rq, current, dest, rr, fault>>,
           stale' \in [Cpus -> BOOLEAN], agentRuns' \in [Cpus -> BOOLEAN],
           nxt' \in [Cpus -> Tasks \cup {NoTask}], on_idle' \in [Cpus -> BOOLEAN],
           \A d \in Cpus : d # c => /\ agentRuns'[d] = agentRuns[d] /\ nxt'[d] = nxt[d]
                                    /\ on_idle'[d] = on_idle[d] /\ (stale[d] => stale'[d]),
           agentRuns'[c] <=> x # "asleep", x \in InHands => nxt'[c] \in Tasks,
           x \in InHands => Holds(c, nxt'[c]),
           x = "ping" => dest[c] \in Cpus,
           pc[c] = "ping" => \A d \in Cpus : d = dest[c] => stale'[d],
           Awake(c)'
    PROVE  IInv'
  <1>1. \A d \in Cpus : pc'[d] = IF d = c THEN x ELSE pc[d]
    BY Zenon DEF IInv, STypes
  <1>2. BooksKept
    <2>1. SamePhase
      BY PhaseFrame, Zenon DEF IInv
    <2>2. ASSUME NEW d \in Cpus, NEW u \in Tasks, Holds(d, u)'  PROVE Holds(d, u)
      <3>1. CASE current'[d] = u \/ Contains(rq'[d], u)
        BY <3>1, Zenon DEF Holds
      <3>2. CASE pc'[d] \in InHands /\ nxt'[d] = u
        <4>1. CASE d = c
          <5>0. pc'[c] = x
            BY <1>1, Zenon
          <5>1. x \in InHands /\ nxt'[c] = u
            BY ONLY <3>2, <4>1, <5>0, Zenon
          <5>2. Holds(c, u)
            BY <5>1, Zenon
          <5> QED  BY <4>1, <5>2, Zenon
        <4>2. CASE d # c
          BY <1>1, <3>2, <4>2, Zenon DEF Holds
        <4> QED  BY <4>1, <4>2, Zenon
      <3> QED  BY <2>2, <3>1, <3>2, Zenon DEF Holds
    <2> QED  BY <2>1, <2>2, Zenon DEF BooksKept
  <1>3. SameTasks({})
    BY Zenon DEF SameTasks
  <1>4. Mail' /\ \A u \in Tasks : Booked(u)'
    BY <1>2, <1>3, QuietMail, Zenon
  <1>5. OthersKept(c) /\ RunningKept /\ HandoverKept(c)
    BY Zenon DEF OthersKept, RunningKept, HandoverKept, Unassigned
  <1>6. STypes'
    <2>1. pc' \in [Cpus -> PCs]
      BY Zenon DEF IInv, STypes
    <2> QED  BY <2>1, Zenon DEF IInv, STypes
  <1>7. x \in Migrating => \E t \in Tasks : Migrates(c, t)'
    <2> SUFFICES ASSUME x \in Migrating  PROVE \E t \in Tasks : Migrates(c, t)'
      BY Zenon
    <2>1. PICK t \in Tasks : Migrates(c, t)
      BY Zenon DEF IInv, Migration
    <2>2. Peek(c)' = Peek(c) /\ pc'[c] = x
      BY <1>1, Zenon DEF Peek
    <2>3. /\ c = DefaultChan /\ channel'[c] # << >> /\ Peek(c)'.task = t
          /\ Peek(c)'.type \in {"NEW", "WAKEUP"}
      BY <2>1, <2>2, Zenon DEF Migrates
    <2>4. /\ pc'[c] \in {"set_queued", "push", "ping"} => dest'[c] \in Cpus
          /\ pc'[c] # "set_queued" /\ pc'[c] # "push"
      BY <2>2, Zenon
    <2> QED  BY <2>3, <2>4, Zenon DEF Migrates
  <1>8. assoc' \in [Tasks -> Cpus]
    BY Zenon DEF IInv, KTypes
  <1> QED  BY <1>4, <1>5, <1>6, <1>7, <1>8, MoveStep, ZenonT(60)

\* Migrate, the ping: the destination's barrier moves.
LEMMA MigratePingStep ==
    ASSUME IInv, NEW c \in Cpus, MigratePing(c)
    PROVE  IInv'
  <1>1. pc[c] = "ping" /\ pc[c] \in Migrating
    BY Zenon DEF MigratePing, At, Migrating
  <1>2. /\ stale' = [stale EXCEPT ![dest[c]] = TRUE] /\ pc' = [pc EXCEPT ![c] = "advance"]
        /\ UNCHANGED <<kquiet, channel, known, task, rq, current, nxt, dest, rr, on_idle, fault>>
    BY Zenon DEF MigratePing, KPing
  <1>3. UNCHANGED <<kstate, kcur, chain, on_cpu, barrier, assoc, agentRuns, cfs>>
    BY <1>2, Zenon DEF kquiet
  <1>4. /\ stale' \in [Cpus -> BOOLEAN] /\ \A d \in Cpus : stale[d] => stale'[d]
        /\ \A d \in Cpus : d = dest[c] => stale'[d]
    BY <1>2, Zenon DEF IInv, KTypes
  <1>5. Awake(c)' /\ pc'[c] = "advance"
    <2>1. pc'[c] = "advance"
      BY <1>2, Zenon DEF IInv, STypes
    <2> QED  BY <2>1, Zenon DEF Awake
  <1>6. agentRuns' \in [Cpus -> BOOLEAN] /\ agentRuns'[c]
    BY <1>1, <1>3, Zenon DEF IInv, KTypes, Running
  <1>7. nxt' \in [Cpus -> Tasks \cup {NoTask}] /\ on_idle' \in [Cpus -> BOOLEAN]
    BY <1>2, Zenon DEF IInv, STypes
  <1>8. "advance" \in PCs /\ "advance" \in Migrating /\ "advance" \notin InHands
    BY Zenon DEF PCs, Migrating, InHands
  <1> QED  BY <1>1, <1>2, <1>3, <1>4, <1>5, <1>6, <1>7, <1>8, QuietMove, ZenonT(60)

\* AgentThread reads its barrier: what it reads is not stale.
LEMMA ReadBarrierStep ==
    ASSUME IInv, NEW c \in Cpus, ReadBarrier(c)
    PROVE  IInv'
  <1>1. /\ pc[c] = "loop" /\ stale' = [stale EXCEPT ![c] = FALSE]
        /\ pc' = [pc EXCEPT ![c] = "drain"]
        /\ UNCHANGED <<kquiet, channel, known, task, rq, current, nxt, dest, rr, on_idle, fault>>
    BY Zenon DEF ReadBarrier, At
  <1>2. UNCHANGED <<kstate, kcur, chain, on_cpu, barrier, assoc, agentRuns, cfs>>
    BY <1>1, Zenon DEF kquiet
  <1>3. stale' \in [Cpus -> BOOLEAN] /\ \A d \in Cpus : d # c => stale'[d] = stale[d]
    BY <1>1, Zenon DEF IInv, KTypes
  <1>4. Awake(c)'
    <2>1. pc'[c] = "drain"
      BY <1>1, Zenon DEF IInv, STypes
    <2> QED  BY <2>1, Zenon DEF Awake
  <1>5. agentRuns' \in [Cpus -> BOOLEAN] /\ agentRuns'[c]
    BY <1>1, <1>2, Zenon DEF IInv, KTypes, Running
  <1>6. nxt' \in [Cpus -> Tasks \cup {NoTask}] /\ on_idle' \in [Cpus -> BOOLEAN]
    BY <1>1, Zenon DEF IInv, STypes
  <1>7. "drain" \in PCs /\ "drain" \notin Migrating /\ pc[c] \notin Migrating /\ "drain" \notin InHands
    BY <1>1, Zenon DEF PCs, Migrating, InHands
  <1> QED  BY <1>1, <1>2, <1>3, <1>4, <1>5, <1>6, <1>7, QuietMove, ZenonT(60)

\* Schedule has drained its channel: whatever comes later moves the barrier.
LEMMA ChannelEmptyStep ==
    ASSUME IInv, NEW c \in Cpus, ChannelEmpty(c)
    PROVE  IInv'
  <1>1. /\ pc[c] = "drain" /\ channel[c] = << >> /\ pc' = [pc EXCEPT ![c] = "sched"]
        /\ UNCHANGED <<kvars, known, task, rq, current, nxt, dest, rr, on_idle, fault>>
    BY Zenon DEF ChannelEmpty, At
  <1>2. UNCHANGED <<kstate, kcur, chain, on_cpu, barrier, assoc, channel, stale, agentRuns, cfs>>
    BY <1>1, Zenon DEF kvars
  <1>3. Awake(c)'
    <2>1. pc'[c] = "sched"
      BY <1>1, Zenon DEF IInv, STypes
    <2> QED  BY <1>1, <1>2, <2>1, Zenon DEF Awake
  <1>4. stale' \in [Cpus -> BOOLEAN] /\ agentRuns' \in [Cpus -> BOOLEAN] /\ agentRuns'[c]
    BY <1>1, <1>2, Zenon DEF IInv, KTypes, Running
  <1>5. nxt' \in [Cpus -> Tasks \cup {NoTask}] /\ on_idle' \in [Cpus -> BOOLEAN]
    BY <1>1, Zenon DEF IInv, STypes
  <1>6. "sched" \in PCs /\ "sched" \notin Migrating /\ pc[c] \notin Migrating /\ "sched" \notin InHands
    BY <1>1, Zenon DEF PCs, Migrating, InHands
  <1> QED  BY <1>1, <1>2, <1>3, <1>4, <1>5, <1>6, QuietMove, ZenonT(60)

\* FifoSchedule waits until the next task is off the cpu it ran on.
LEMMA WaitOffCpuStep ==
    ASSUME IInv, NEW c \in Cpus, WaitOffCpu(c)
    PROVE  IInv'
  <1>1. /\ pc[c] = "spin" /\ pc' = [pc EXCEPT ![c] = "commit"]
        /\ UNCHANGED <<kvars, known, task, rq, current, nxt, dest, rr, on_idle, fault>>
    BY Zenon DEF WaitOffCpu, At
  <1>2. UNCHANGED <<kstate, kcur, chain, on_cpu, barrier, assoc, channel, stale, agentRuns, cfs>>
    BY <1>1, Zenon DEF kvars
  <1>3. Awake(c)'
    <2>1. pc'[c] = "commit"
      BY <1>1, Zenon DEF IInv, STypes
    <2> QED  BY <2>1, Zenon DEF Awake
  <1>4. /\ stale' \in [Cpus -> BOOLEAN] /\ agentRuns' \in [Cpus -> BOOLEAN] /\ agentRuns'[c]
        /\ nxt[c] \in Tasks
    BY <1>1, <1>2, Zenon DEF IInv, KTypes, Running, InHands
  <1>5. nxt' \in [Cpus -> Tasks \cup {NoTask}] /\ on_idle' \in [Cpus -> BOOLEAN]
    BY <1>1, Zenon DEF IInv, STypes
  <1>6. "commit" \in PCs /\ "commit" \notin Migrating /\ pc[c] \notin Migrating
    BY <1>1, Zenon DEF PCs, Migrating
  <1>7. Holds(c, nxt'[c])
    BY <1>1, Zenon DEF Holds, InHands
  <1> QED  BY <1>1, <1>2, <1>3, <1>4, <1>5, <1>6, <1>7, QuietMove, ZenonT(60)

\* An agent sleeps only if its barrier did not move since it read it.
LEMMA LocalYieldStep ==
    ASSUME IInv, NEW c \in Cpus, LocalYield(c)
    PROVE  IInv'
  <1>0. PICK x \in {"loop", "asleep"} : x = IF stale[c] THEN "loop" ELSE "asleep"
    BY Zenon
  <1>1. /\ pc[c] = "yield" /\ pc' = [pc EXCEPT ![c] = x]
        /\ agentRuns' = [agentRuns EXCEPT ![c] = stale[c]]
        /\ UNCHANGED <<kstate, kcur, chain, on_cpu, barrier, assoc, channel, stale,
                       cfs, known, task, rq, current, nxt, dest, rr, on_idle, fault>>
    BY <1>0, Zenon DEF LocalYield, At
  <1>2. \A d \in Cpus : pc'[d] = IF d = c THEN x ELSE pc[d]
    BY <1>1, Zenon DEF IInv, STypes
  <1>3. /\ stale' \in [Cpus -> BOOLEAN] /\ agentRuns' \in [Cpus -> BOOLEAN]
        /\ agentRuns'[c] = stale[c] /\ \A d \in Cpus : d # c => agentRuns'[d] = agentRuns[d]
    BY <1>1, Zenon DEF IInv, KTypes
  <1>4. agentRuns'[c] <=> x # "asleep"
    BY <1>0, <1>3, Zenon
  <1>5. PingComing(c) => PingComing(c)'
    <2>1. \A d \in Cpus : pc[d] = "ping" => pc'[d] = "ping"
      BY <1>1, <1>2, Zenon
    <2> QED  BY <1>1, <2>1, Zenon DEF PingComing
  <1>6. Awake(c)'
    <2>1. Awake(c) /\ pc'[c] = x
      BY <1>2, Zenon DEF IInv
    <2> QED  BY <1>1, <1>5, <2>1, Zenon DEF Awake
  <1>7. nxt' \in [Cpus -> Tasks \cup {NoTask}] /\ on_idle' \in [Cpus -> BOOLEAN]
    BY <1>1, Zenon DEF IInv, STypes
  <1>8. /\ x \in PCs /\ x \notin Migrating /\ pc[c] \notin Migrating /\ x \notin InHands
        /\ x \notin {"set_queued", "in_run", "push", "ping"}
    BY <1>1, Zenon DEF PCs, Migrating, InHands
  <1> QED  BY <1>1, <1>3, <1>4, <1>6, <1>7, <1>8, QuietMove, ZenonT(60)

\* What the books say of the task in Migrate, which no agent holds yet.
LEMMA HandoverMail ==
    ASSUME IInv, NEW c \in Cpus, NEW x \in Migrating, pc' = [pc EXCEPT ![c] = x],
           pc[c] \in Migrating, NEW t \in known, t = Peek(c).task, task[t].cpu = NoCpu,
           UNCHANGED <<kstate, barrier, channel, known, rq, current, nxt>>,
           \A u \in Tasks \ {t} : task'[u] = task[u] /\ assoc'[u] = assoc[u],
           kstate[t] # "gone" => assoc'[t] = Home(t)',
           \A q \in Cpus : \A n \in Unread(q) : n.task = t => Home(t)' = Home(t)
    PROVE  Mail' /\ \A u \in Tasks : Booked(u)'
  <1>1. c = DefaultChan /\ t \in Tasks
    BY MigratingFacts, Zenon DEF IInv, STypes
  <1>2. \A q \in Cpus : pc'[q] = IF q = c THEN x ELSE pc[q]
    BY Zenon DEF IInv, STypes
  <1>3. \A q \in Cpus : Unread(q)' = Unread(q)
    <2>1. \A q \in Cpus : pc'[q] \in Migrating <=> pc[q] \in Migrating
      BY <1>2, Zenon
    <2> QED  BY <2>1, Zenon DEF Unread
  <1>4. \A d \in Cpus : pc'[d] \in InHands => pc[d] \in InHands
    <2>1. x \notin InHands
      BY Zenon DEF Migrating, InHands
    <2> QED  BY <1>2, <2>1, Zenon
  <1>5. \A d \in Cpus, u \in Tasks : Holds(d, u)' => Holds(d, u)
    BY <1>4, Zenon DEF Holds
  <1>6. \A d \in Cpus : ~Holds(d, t)
    <2>1. Booked(t)
      BY <1>1, Zenon DEF IInv
    <2> QED  BY <2>1, Constants, Zenon DEF Booked
  <1>7. ASSUME NEW u \in Tasks, u # t  PROVE Kept(u)
    <2>1. ~Handover(u)' /\ ~Handover(u)
      BY <1>1, <1>7, Zenon DEF Handover, Peek
    <2>2. task'[u] = task[u]
      BY <1>7, Zenon
    <2>3. Home(u)' = Home(u)
      BY <2>1, <2>2, Zenon DEF Home
    <2>4. UnreadNew(u) => UnreadNew(u)'
      BY <1>3, Constants, Zenon DEF UnreadNew
    <2> QED  BY <1>5, <2>2, <2>3, <2>4, Zenon DEF Kept
  <1>8. ASSUME NEW q \in Cpus, NEW n \in Unread(q)'  PROVE Placed(n, q)'
    <2>1. n \in Unread(q) /\ Placed(n, q)
      BY <1>3, Zenon DEF IInv, Mail
    <2>2. CASE n.task = t
      <3>1. q = Home(t)' /\ n.type # "NEW"
        BY <2>1, <2>2, Zenon DEF Placed
      <3> QED  BY <2>2, <3>1, Zenon DEF Placed
    <2>3. CASE n.task # t
      <3>1. channel[q] \in Seq(Mess)
        BY Zenon DEF IInv, KTypes
      <3>2. n \in Mess
        BY <2>1, <3>1, ElemsIn, Zenon DEF Unread
      <3>3. n.task \in Tasks
        BY <3>2 DEF Mess
      <3> QED  BY <1>7, <2>1, <2>3, <3>3, KeptPlaced, Zenon
    <2> QED  BY <2>2, <2>3, Zenon
  <1>9. Mail'
    <2>1. \A q \in Cpus : /\ \A n \in Elems(channel'[q]) : Dated(n)'
                          /\ Order(channel'[q])
      BY Zenon DEF IInv, Mail, Dated
    <2> QED  BY <1>8, <2>1, Zenon DEF Mail
  <1>10. SameTasks({t})
    BY Zenon DEF SameTasks
  <1>11. ASSUME NEW u \in Tasks  PROVE Booked(u)'
    <2>1. CASE u = t
      <3>1. Booked(t)
        BY <1>1, Zenon DEF IInv
      <3> QED  BY <1>1, <1>5, <1>6, <2>1, <3>1, Zenon DEF Booked
    <2>2. CASE u # t
      <3>1. u \notin {t} /\ Booked(u)
        BY <2>2, Zenon DEF IInv
      <3> QED  BY <1>7, <1>10, <2>2, <3>1, KeptBooked, Zenon
    <2> QED  BY <2>1, <2>2, Zenon
  <1> QED  BY <1>9, <1>11, Zenon

\* Migrate, task->cpu = cpu: from here the books say what the kernel does.
LEMMA MigrateSetQueuedStep ==
    ASSUME IInv, NEW c \in Cpus, MigrateSetQueued(c), ~fault'
    PROVE  IInv'
  <1>1. pc[c] = "set_queued" /\ pc[c] \in Migrating
    BY Zenon DEF MigrateSetQueued, At, Migrating
  <1>2. /\ c = DefaultChan /\ channel[c] # << >> /\ Peek(c).type \in {"NEW", "WAKEUP"}
        /\ Peek(c).task \in Tasks /\ HandoverKept(c) /\ Migrates(c, Peek(c).task)
    BY <1>1, MigratingFacts, Zenon
  <1>3. PICK t \in Tasks : t = Peek(c).task
    BY <1>2, Zenon
  <1>4. PICK d \in Cpus : d = dest[c]
    BY <1>1, <1>2, Zenon DEF Migrates
  <1>5. /\ fault' = FALSE /\ t \in known
        /\ task' = [task EXCEPT ![t].cpu = d, ![t].run_state = "kQueued"]
        /\ pc' = [pc EXCEPT ![c] = "push"]
        /\ UNCHANGED <<kvars, known, rq, current, nxt, dest, rr, on_idle>>
    BY <1>3, <1>4, Zenon DEF MigrateSetQueued, Freed
  <1>6. task[t].cpu = NoCpu
    BY <1>1, <1>2, <1>3, Zenon DEF Migrates, Unassigned
  <1>7. /\ task' \in [Tasks -> FifoTasks] /\ task'[t].cpu = d
        /\ \A u \in Tasks \ {t} : task'[u] = task[u]
    <2>0. task \in [Tasks -> FifoTasks]
      BY Zenon DEF IInv, STypes, FifoTasks
    <2>1. PICK f : f = [task EXCEPT ![t].cpu = d]
      BY Zenon
    <2>2. f \in [Tasks -> FifoTasks] /\ f[t].cpu = d /\ \A u \in Tasks \ {t} : f[u] = task[u]
      BY ONLY <2>0, <2>1, d \in Cpus, t \in Tasks DEF FifoTasks
    <2>3. task' = [f EXCEPT ![t].run_state = "kQueued"]
      BY <1>5, <2>1, Zenon
    <2> QED  BY ONLY <2>2, <2>3, t \in Tasks DEF FifoTasks, RunStates
  <1>8. \A e \in Cpus : pc'[e] = IF e = c THEN "push" ELSE pc[e]
    BY <1>5, Zenon DEF IInv, STypes
  <1>9. UNCHANGED <<kstate, kcur, chain, on_cpu, barrier, assoc, channel, stale, agentRuns, cfs>>
    BY <1>5, Zenon DEF kvars
  <1>10. Mail' /\ \A u \in Tasks : Booked(u)'
    <2>1. Home(t) = d
      <3>1. Handover(t)
        BY <1>1, <1>2, <1>3, Zenon DEF Handover
      <3> QED  BY <1>2, <1>4, <1>5, <1>6, <3>1, Zenon DEF Home
    <2>2. Home(t)' = d
      BY <1>5, <1>7, Constants, Zenon DEF Home
    <2>3. kstate[t] # "gone" => assoc'[t] = Home(t)'
      BY <1>9, <2>1, <2>2, Zenon DEF IInv, Booked
    <2>4. "push" \in Migrating
      BY Zenon DEF Migrating
    <2>5. /\ UNCHANGED <<kstate, barrier, channel, known, rq, current, nxt>>
          /\ \A u \in Tasks \ {t} : task'[u] = task[u] /\ assoc'[u] = assoc[u]
          /\ Home(t)' = Home(t)
      BY <1>5, <1>7, <1>9, <2>1, <2>2, Zenon
    <2> QED  BY <1>1, <1>3, <1>5, <1>6, <2>3, <2>4, <2>5, HandoverMail, ZenonT(60)
  <1>11. OthersKept(c)
    BY <1>5, <1>9, Zenon DEF OthersKept
  <1>12. RunningKept
    BY <1>5, <1>6, <1>7, Constants, Zenon DEF RunningKept
  <1>13. STypes'
    <2>1. pc' \in [Cpus -> PCs]
      BY <1>5, Zenon DEF IInv, STypes, PCs
    <2> QED  BY <1>5, <1>7, <2>1, Zenon DEF IInv, STypes, FifoTasks
  <1>14. Migrates(c, t)'
    <2>1. Peek(c)' = Peek(c) /\ pc'[c] = "push" /\ dest'[c] = d
      BY <1>4, <1>5, <1>8, <1>9, Zenon DEF Peek
    <2> QED  BY <1>2, <1>3, <1>7, <1>9, <2>1, Zenon DEF Migrates
  <1>15. Awake(c)'
    BY <1>8, Zenon DEF Awake
  <1>16. /\ assoc' \in [Tasks -> Cpus] /\ stale' \in [Cpus -> BOOLEAN]
         /\ agentRuns' \in [Cpus -> BOOLEAN] /\ agentRuns'[c]
    BY <1>1, <1>9, Zenon DEF IInv, KTypes, Running
  <1>17. "push" \notin InHands /\ pc[c] # "ping" /\ pc[c] # "in_run"
    BY <1>1, Zenon DEF InHands
  <1> QED  BY <1>2, <1>5, <1>9, <1>10, <1>11, <1>12, <1>13, <1>14, <1>15, <1>16, <1>17,
              MoveStep, ZenonT(60)

\* Migrate is done, its message is consumed.
LEMMA MigrateReturnStep ==
    ASSUME IInv, ~fault, NEW c \in Cpus, MigrateReturn(c), ~fault'
    PROVE  IInv'
  <1>1. pc[c] = "advance" /\ pc[c] \in Migrating
    BY Zenon DEF MigrateReturn, At, Migrating
  <1>2. /\ c = DefaultChan /\ channel[c] # << >> /\ Peek(c).task \in Tasks
        /\ Peek(c).seqnum \in Int /\ ~Peek(c).fsw
        /\ Elems(channel[c]) = Later(channel[c]) \cup {Peek(c)}
        /\ Unread(c) = Later(channel[c]) /\ channel[c] \in Seq(Mess) /\ Order(channel[c])
    BY <1>1, MigratingFacts, Zenon
  <1>3. /\ Consume(c) /\ dest' = [dest EXCEPT ![c] = NoCpu] /\ pc' = [pc EXCEPT ![c] = "drain"]
        /\ UNCHANGED <<kquiet, stale, known, rq, current, nxt, rr, on_idle>>
        /\ task' = task \/ task' = [task EXCEPT ![Peek(c).task].seqnum = Peek(c).seqnum]
    BY Zenon DEF MigrateReturn
  <1>4. task' \in [Tasks -> FifoTasks] /\ \A u \in Tasks : task'[u].cpu = task[u].cpu
                                       /\ task'[u].run_state = task[u].run_state
    <2>1. task \in [Tasks -> FifoTasks]
      BY Zenon DEF IInv, STypes, FifoTasks
    <2>2. PICK t \in Tasks : t = Peek(c).task
      BY <1>2, Zenon
    <2>3. PICK n \in Int : n = Peek(c).seqnum
      BY <1>2, Zenon
    <2>4. CASE task' = [task EXCEPT ![t].seqnum = n]
      BY ONLY <2>1, <2>4, t \in Tasks, n \in Int DEF FifoTasks
    <2> QED  BY <1>3, <2>1, <2>2, <2>3, <2>4, Zenon
  <1>5. \A d \in Cpus : pc'[d] = IF d = c THEN "drain" ELSE pc[d]
    BY <1>3, Zenon DEF IInv, STypes
  <1>6. UNCHANGED <<kstate, kcur, chain, on_cpu, barrier, assoc, agentRuns, cfs>>
    BY <1>3, Zenon DEF kquiet
  <1>7. /\ \A q \in Cpus : channel'[q] = IF q = c THEN Tail(channel[c]) ELSE channel[q]
        /\ Elems(channel'[c]) = Later(channel[c]) /\ Order(channel'[c])
        /\ channel' \in [Cpus -> Seq(Mess)]
    <2>1. Tail(channel[c]) \in Seq(Mess) /\ Elems(Tail(channel[c])) = Later(channel[c])
      BY <1>2, TailElems, Zenon
    <2>2. Order(Tail(channel[c]))
      BY <1>2, OrderTail, Zenon
    <2>3. /\ \A q \in Cpus : channel'[q] = IF q = c THEN Tail(channel[c]) ELSE channel[q]
          /\ channel' \in [Cpus -> Seq(Mess)]
      BY <1>3, <2>1, Zenon DEF IInv, KTypes, Consume
    <2> QED  BY <2>1, <2>2, <2>3, Zenon
  <1>8. ASSUME NEW q \in Cpus
        PROVE  /\ Unread(q)' = Unread(q) /\ Order(channel'[q])
               /\ Elems(channel'[q]) \subseteq Elems(channel[q])
    <2>1. CASE q = c
      <3>1. pc'[c] \notin Migrating
        BY <1>5, Zenon DEF Migrating
      <3> QED  BY <1>2, <1>7, <2>1, <3>1, Zenon DEF Unread
    <2>2. CASE q # c
      BY <1>5, <1>7, <2>2, Zenon DEF Unread, IInv, Mail
    <2> QED  BY <2>1, <2>2, Zenon
  <1>9. ASSUME NEW u \in Tasks  PROVE Kept(u)
    <2>1. ~Handover(u)' /\ ~Handover(u)
      BY <1>1, <1>2, <1>5, Zenon DEF Handover
    <2>2. Home(u)' = Home(u)
      BY <1>3, <1>4, <2>1, Zenon DEF Home
    <2>3. UnreadNew(u) => UnreadNew(u)'
      BY <1>8, Constants, Zenon DEF UnreadNew
    <2>4. \A d \in Cpus : Holds(d, u)' => Holds(d, u)
      <3>1. \A d \in Cpus : pc'[d] \in InHands => pc[d] \in InHands
        BY <1>5, Zenon DEF InHands
      <3> QED  BY <1>3, <3>1, Zenon DEF Holds
    <2> QED  BY <1>3, <1>4, <2>2, <2>3, <2>4, Zenon DEF Kept
  <1>10. Mail' /\ \A u \in Tasks : Booked(u)'
    <2>1. SameTasks({})
      BY <1>6, Zenon DEF SameTasks
    <2>2. Mail'
      BY <1>6, <1>8, <1>9, <2>1, MailKept, Zenon DEF IInv
    <2>3. \A u \in Tasks : Booked(u)'
      BY <1>9, <2>1, KeptBooked, Zenon DEF IInv
    <2> QED  BY <2>2, <2>3, Zenon
  <1>11. KTypes'
    BY <1>3, <1>6, <1>7, Zenon DEF IInv, KTypes
  <1>12. STypes'
    <2>1. pc' \in [Cpus -> PCs] /\ dest' \in [Cpus -> Cpus \cup {NoCpu}]
      BY <1>3, Zenon DEF IInv, STypes, PCs
    <2>2. fault' \in BOOLEAN
      BY Zenon DEF MigrateReturn, IInv, STypes
    <2> QED  BY <1>3, <1>4, <2>1, <2>2, ZenonT(60) DEF IInv, STypes, FifoTasks
  <1>13. Migration'
    <2>1. \A q \in Cpus : pc'[q] \notin Migrating
      BY <1>2, <1>5, Zenon DEF IInv, Migration, Migrates, Migrating
    <2> QED  BY <2>1, Zenon DEF Migration
  <1>14. \A d \in Cpus : Running(d)'
    <2>1. agentRuns'[c] /\ pc[c] # "in_run" /\ "drain" \notin InHands
      BY <1>1, <1>6, Zenon DEF IInv, Running, InHands
    <2> QED  BY <1>3, <1>4, <1>6, <2>1, AgentRunning, Zenon
  <1>15. \A d \in Cpus : Awake(d)'
    <2>1. Awake(c)'
      BY <1>5, Zenon DEF Awake
    <2>2. \A d \in Cpus : \A n \in Elems(channel[c]) :
            n.fsw /\ n.cpu = d => n \in Elems(channel'[c]) \/ stale'[d]
      BY <1>2, <1>7, Zenon
    <2>3. \A d \in Cpus : d # c => dest'[d] = dest[d]
      BY <1>3, Zenon DEF IInv, STypes
    <2>4. pc[c] # "ping"
      BY <1>1, Zenon
    <2> QED  BY <1>3, <1>6, <1>7, <2>1, <2>2, <2>3, <2>4, AgentAwake, ZenonT(60)
  <1> QED  BY <1>10, <1>11, <1>12, <1>13, <1>14, <1>15, Zenon DEF IInv

\* The agent takes the head of its queue in hand.
LEMMA DequeueStep ==
    ASSUME IInv, NEW c \in Cpus, pc[c] = "sched", rq[c] # << >>, NEW t \in Tasks, t = Head(rq[c]),
           rq' = [rq EXCEPT ![c] = Tail(@)], task' = [task EXCEPT ![t].run_state = "kRunnable"],
           task[t].run_state = "kQueued", nxt' = [nxt EXCEPT ![c] = t],
           pc' = [pc EXCEPT ![c] = "spin"], on_idle' \in [Cpus -> BOOLEAN], fault' = FALSE,
           \A d \in Cpus : d # c => on_idle'[d] = on_idle[d],
           UNCHANGED <<kvars, known, current, dest, rr>>
    PROVE  IInv'
  <1>1. UNCHANGED <<kstate, kcur, chain, on_cpu, barrier, assoc, channel, stale, agentRuns, cfs>>
    BY Zenon DEF kvars
  <1>2. \A d \in Cpus : /\ pc'[d] = IF d = c THEN "spin" ELSE pc[d]
                        /\ nxt'[d] = IF d = c THEN t ELSE nxt[d]
    BY Zenon DEF IInv, STypes
  <1>3. /\ rq' \in [Cpus -> Seq(Tasks)] /\ \A d \in Cpus : d # c => rq'[d] = rq[d]
        /\ \A u \in Tasks : Contains(rq'[c], u) => Contains(rq[c], u)
        /\ Contains(rq[c], t)
    <2>1. rq \in [Cpus -> Seq(Tasks)] /\ rq[c] \in Seq(Tasks)
      BY Zenon DEF IInv, STypes
    <2>2. /\ Tail(rq[c]) \in Seq(Tasks) /\ Contains(rq[c], t)
          /\ \A u : Contains(Tail(rq[c]), u) => Contains(rq[c], u)
      BY <2>1, TailQueue, Zenon
    <2> QED  BY <2>1, <2>2, Zenon
  <1>4. /\ task' \in [Tasks -> FifoTasks] /\ \A u \in Tasks : task'[u].cpu = task[u].cpu
        /\ \A u \in Tasks \ {t} : task'[u] = task[u]
    <2>1. task \in [Tasks -> FifoTasks]
      BY Zenon DEF IInv, STypes, FifoTasks
    <2>2. task' = [task EXCEPT ![t].run_state = "kRunnable"]
      BY Zenon
    <2> QED  BY ONLY <2>1, <2>2, t \in Tasks DEF FifoTasks, RunStates
  <1>5. BooksKept
    <2>1. SamePhase
      BY PhaseFrame, Zenon DEF IInv, Migrating
    <2>2. ASSUME NEW d \in Cpus, NEW u \in Tasks, Holds(d, u)'  PROVE Holds(d, u)
      <3>1. CASE current'[d] = u \/ Contains(rq'[d], u)
        BY <1>3, <3>1, Zenon DEF Holds
      <3>2. CASE pc'[d] \in InHands /\ nxt'[d] = u
        <4>1. CASE d = c
          <5>1. u = t
            BY <1>2, <3>2, <4>1, Zenon
          <5> QED  BY <1>3, <4>1, <5>1, Zenon DEF Holds
        <4>2. CASE d # c
          BY <1>2, <3>2, <4>2, Zenon DEF Holds
        <4> QED  BY <4>1, <4>2, Zenon
      <3> QED  BY <2>2, <3>1, <3>2, Zenon DEF Holds
    <2>3. \A u \in known : task'[u].cpu = task[u].cpu
      BY <1>4, Zenon DEF IInv, STypes
    <2> QED  BY <2>1, <2>2, <2>3, Zenon DEF BooksKept
  <1>6. Mail' /\ \A u \in Tasks : Booked(u)'
    <2>1. SameTasks({})
      BY <1>1, Zenon DEF SameTasks
    <2> QED  BY <1>1, <1>5, <2>1, QuietMail, Zenon
  <1>7. OthersKept(c) /\ RunningKept
    BY <1>1, <1>2, <1>3, <1>4, ZenonT(60) DEF OthersKept, RunningKept
  <1>8. HandoverKept(c)
    <2>1. ASSUME NEW u \in Tasks, Unassigned(u)  PROVE Unassigned(u)'
      <3>1. u # t
        BY <2>1, Zenon DEF Unassigned
      <3> QED  BY <1>4, <2>1, <3>1, Zenon DEF Unassigned
    <2> QED  BY <1>4, <2>1, Zenon DEF HandoverKept
  <1>9. STypes'
    <2>1. pc' \in [Cpus -> PCs] /\ nxt' \in [Cpus -> Tasks \cup {NoTask}]
      BY Zenon DEF IInv, STypes, PCs
    <2> QED  BY <1>3, <1>4, <2>1, Zenon DEF IInv, STypes, FifoTasks
  <1>10. Awake(c)'
    <2>1. pc'[c] = "spin"
      BY <1>2, Zenon
    <2> QED  BY ONLY <2>1, Zenon DEF Awake
  <1>11. /\ assoc' \in [Tasks -> Cpus] /\ stale' \in [Cpus -> BOOLEAN]
         /\ agentRuns' \in [Cpus -> BOOLEAN] /\ agentRuns'[c] /\ nxt'[c] \in Tasks
    <2>1. nxt'[c] \in Tasks
      BY <1>2, Zenon
    <2>2. KTypes /\ Running(c) /\ pc[c] = "sched"
      BY Zenon DEF IInv
    <2> QED  BY ONLY <1>1, <2>1, <2>2, Zenon DEF KTypes, Running
  <1>12. "spin" \notin Migrating /\ pc[c] # "ping" /\ pc[c] # "in_run"
    BY Zenon DEF Migrating
  <1> QED  BY <1>1, <1>6, <1>7, <1>8, <1>9, <1>10, <1>11, <1>12, MoveStep, ZenonT(60)

\* FifoSchedule takes its current task or the head of its queue in hand.
LEMMA PickNextStep ==
    ASSUME IInv, ~fault, NEW c \in Cpus, PickNext(c), ~fault'
    PROVE  IInv'
  <1>1. PICK cur \in Tasks \cup {NoTask} : cur = IF cfs[c] THEN NoTask ELSE current[c]
    BY Zenon DEF IInv, STypes
  <1>2. /\ pc[c] = "sched" /\ on_idle' = [on_idle EXCEPT ![c] = YieldFlags(c)]
        /\ UNCHANGED <<kvars, known, current, dest, rr>>
    BY Zenon DEF PickNext, At
  <1>3. /\ on_idle' \in [Cpus -> BOOLEAN] /\ on_idle'[c] = YieldFlags(c)
        /\ \A d \in Cpus : d # c => on_idle'[d] = on_idle[d]
    <2>1. YieldFlags(c) \in BOOLEAN
      BY Zenon DEF YieldFlags, IInv, KTypes
    <2> QED  BY <1>2, <2>1, Zenon DEF IInv, STypes
  <1>4. UNCHANGED <<kstate, kcur, chain, on_cpu, barrier, assoc, channel, stale, agentRuns, cfs>>
    BY <1>2, Zenon DEF kvars
  <1>5. CASE ~cfs[c] /\ cur = NoTask /\ rq[c] # << >>
    <2>1. rq[c] \in Seq(Tasks)
      BY Zenon DEF IInv, STypes
    <2>2. PICK t \in Tasks : t = Head(rq[c])
      BY <1>5, <2>1, TailQueue, Zenon
    <2>3. t # NoTask
      BY Constants, Zenon
    <2>4. /\ rq' = [rq EXCEPT ![c] = Tail(@)] /\ task' = [task EXCEPT ![t].run_state = "kRunnable"]
          /\ task[t].run_state = "kQueued" /\ nxt' = [nxt EXCEPT ![c] = t]
          /\ pc' = [pc EXCEPT ![c] = "spin"] /\ fault' = FALSE
      BY <1>1, <1>5, <2>2, <2>3, Zenon DEF PickNext
    <2> QED  BY <1>2, <1>3, <1>5, <2>2, <2>4, DequeueStep, ZenonT(60)
  <1>6. CASE ~(~cfs[c] /\ cur = NoTask /\ rq[c] # << >>)
    <2>1. PICK x \in {"yield", "spin"} : x = IF cur = NoTask THEN "yield" ELSE "spin"
      BY Zenon
    <2>2. /\ nxt' = [nxt EXCEPT ![c] = cur] /\ pc' = [pc EXCEPT ![c] = x]
          /\ UNCHANGED <<rq, task, fault>>
      BY <1>1, <1>6, <2>1, Zenon DEF PickNext
    <2>3. /\ nxt' \in [Cpus -> Tasks \cup {NoTask}] /\ nxt'[c] = cur
          /\ \A d \in Cpus : d # c => nxt'[d] = nxt[d]
          /\ pc'[c] = x
      BY <2>2, Zenon DEF IInv, STypes
    <2>4. x \in InHands => nxt'[c] \in Tasks /\ Holds(c, nxt'[c])
      <3> SUFFICES ASSUME x \in InHands  PROVE nxt'[c] \in Tasks /\ Holds(c, nxt'[c])
        BY Zenon
      <3>1. cur # NoTask
        BY <2>1, Zenon DEF InHands
      <3> QED  BY <1>1, <2>3, <3>1, Zenon DEF Holds
    <2>5. Awake(c)'
      <3>1. channel'[c] = << >> \/ stale'[c]
        BY <1>2, <1>4, Zenon DEF IInv, Awake
      <3>2. CASE x = "spin"
        BY <2>3, <3>1, <3>2, Zenon DEF Awake
      <3>3. CASE x = "yield"
        <4>1. cur = NoTask
          BY <2>1, <3>3, Zenon
        <4>2. (rq'[c] = << >> /\ current'[c] = NoTask) \/ on_idle'[c]
          BY <1>1, <1>2, <1>3, <1>6, <2>2, <4>1, ZenonT(60) DEF YieldFlags
        <4> QED  BY <2>3, <3>1, <3>3, <4>2, Zenon DEF Awake
      <3> QED  BY <3>2, <3>3, Zenon
    <2>6. stale' \in [Cpus -> BOOLEAN] /\ agentRuns' \in [Cpus -> BOOLEAN] /\ agentRuns'[c]
      BY <1>2, <1>4, Zenon DEF IInv, KTypes, Running
    <2>7. /\ x \in PCs /\ x \notin Migrating /\ pc[c] \notin Migrating
          /\ x \notin {"set_queued", "in_run", "push", "ping", "asleep"}
      BY <1>2, Zenon DEF PCs, Migrating
    <2> QED  BY <1>2, <1>3, <1>4, <2>2, <2>3, <2>4, <2>5, <2>6, <2>7, QuietMove, ZenonT(60)
  <1> QED  BY <1>5, <1>6, ZenonT(60)

\* The transaction fails: the agent comes back with its task in the queue.
LEMMA CommitFailsStep ==
    ASSUME IInv, NEW c \in Cpus, CommitFails(c), ~fault'
    PROVE  IInv'
  <1>1. pc[c] = "commit" /\ pc[c] \in InHands
    BY Zenon DEF CommitFails, At, InHands
  <1>2. PICK t \in Tasks : t = nxt[c]
    BY <1>1, Zenon DEF IInv, Running
  <1>3. /\ fault' = FALSE /\ rq' = [rq EXCEPT ![c] = Pushed(@, t, TRUE)]
        /\ current' = current \/ current' = OffCpu(t)
        /\ task' = [task EXCEPT ![t].run_state = "kQueued", ![t].prio_boost = TRUE]
        /\ nxt' = [nxt EXCEPT ![c] = NoTask] /\ pc' = [pc EXCEPT ![c] = "loop"]
        /\ UNCHANGED <<kvars, known, dest, rr, on_idle>>
    BY <1>2, Zenon DEF CommitFails
  <1>4. UNCHANGED <<kstate, kcur, chain, on_cpu, barrier, assoc, channel, stale, agentRuns, cfs>>
    BY <1>3, Zenon DEF kvars
  <1>5. \A d \in Cpus : /\ pc'[d] = IF d = c THEN "loop" ELSE pc[d]
                        /\ d # c => nxt'[d] = nxt[d]
    BY <1>3, Zenon DEF IInv, STypes
  <1>6. Holds(c, t) /\ (t \in known => task[t].cpu = c)
    <2>1. Holds(c, t) /\ Booked(t)
      BY <1>1, <1>2, Zenon DEF Holds, IInv
    <2> QED  BY <2>1, Zenon DEF Booked
  <1>7. /\ rq' \in [Cpus -> Seq(Tasks)] /\ \A d \in Cpus : d # c => rq'[d] = rq[d]
        /\ \A u \in Tasks : Contains(rq'[c], u) => Contains(rq[c], u) \/ u = t
    <2>1. rq \in [Cpus -> Seq(Tasks)] /\ rq[c] \in Seq(Tasks)
      BY Zenon DEF IInv, STypes
    <2>2. /\ Pushed(rq[c], t, TRUE) \in Seq(Tasks)
          /\ \A u : Contains(Pushed(rq[c], t, TRUE), u) => Contains(rq[c], u) \/ u = t
      BY <2>1, PushedQueue, Zenon
    <2> QED  BY <1>3, <2>1, <2>2, Zenon
  <1>8. /\ current' \in [Cpus -> Tasks \cup {NoTask}]
        /\ \A d \in Cpus : current'[d] \in {current[d], NoTask}
    <2>1. CASE current' = current
      BY <2>1, Zenon DEF IInv, STypes
    <2>2. CASE current' = OffCpu(t)
      BY <2>2, OffCpuCurrent, Zenon
    <2> QED  BY <1>3, <2>1, <2>2, Zenon
  <1>9. /\ task' \in [Tasks -> FifoTasks] /\ \A u \in Tasks : task'[u].cpu = task[u].cpu
        /\ \A u \in Tasks \ {t} : task'[u] = task[u]
    <2>0. task \in [Tasks -> FifoTasks]
      BY Zenon DEF IInv, STypes, FifoTasks
    <2>1. PICK f : f = [task EXCEPT ![t].run_state = "kQueued"]
      BY Zenon
    <2>2. /\ f \in [Tasks -> FifoTasks] /\ \A u \in Tasks : f[u].cpu = task[u].cpu
          /\ \A u \in Tasks \ {t} : f[u] = task[u]
      BY ONLY <2>0, <2>1, t \in Tasks DEF FifoTasks, RunStates
    <2>3. task' = [f EXCEPT ![t].prio_boost = TRUE]
      BY <1>3, <2>1, Zenon
    <2>4. /\ task' \in [Tasks -> FifoTasks] /\ \A u \in Tasks : task'[u].cpu = f[u].cpu
          /\ \A u \in Tasks \ {t} : task'[u] = f[u]
      BY ONLY <2>2, <2>3, t \in Tasks, ZenonT(60) DEF FifoTasks
    <2> QED  BY <2>2, <2>4, Zenon
  <1>10. BooksKept
    <2>1. SamePhase
      BY <1>1, <1>3, PhaseFrame, Zenon DEF IInv, Migrating
    <2>2. ASSUME NEW d \in Cpus, NEW u \in Tasks, Holds(d, u)'  PROVE Holds(d, u)
      <3>1. CASE current'[d] = u
        <4>1. current[d] = u
          BY <1>8, <3>1, Constants, Zenon
        <4> QED  BY <4>1, Zenon DEF Holds
      <3>2. CASE Contains(rq'[d], u)
        <4>1. CASE d = c
          <5>1. Contains(rq[c], u) \/ u = t
            BY <1>7, <3>2, <4>1, Zenon
          <5>2. CASE u = t
            BY <1>6, <4>1, <5>2, Zenon
          <5>3. CASE Contains(rq[c], u)
            BY <4>1, <5>3, Zenon DEF Holds
          <5> QED  BY <5>1, <5>2, <5>3, Zenon
        <4>2. CASE d # c
          BY <1>7, <3>2, <4>2, Zenon DEF Holds
        <4> QED  BY <4>1, <4>2, Zenon
      <3>3. CASE pc'[d] \in InHands /\ nxt'[d] = u
        <4>1. d # c
          BY <1>5, <3>3, Zenon DEF InHands
        <4> QED  BY <1>5, <3>3, <4>1, Zenon DEF Holds
      <3> QED  BY <2>2, <3>1, <3>2, <3>3, Zenon DEF Holds
    <2>3. \A u \in known : task'[u].cpu = task[u].cpu
      BY <1>9, Zenon DEF IInv, STypes
    <2> QED  BY <1>3, <2>1, <2>2, <2>3, Zenon DEF BooksKept
  <1>11. Mail' /\ \A u \in Tasks : Booked(u)'
    <2>1. SameTasks({})
      BY <1>4, Zenon DEF SameTasks
    <2> QED  BY <1>4, <1>10, <2>1, QuietMail, Zenon
  <1>12. OthersKept(c) /\ RunningKept
    BY <1>3, <1>4, <1>5, <1>7, <1>8, <1>9, Zenon DEF OthersKept, RunningKept
  <1>13. HandoverKept(c)
    <2>1. ASSUME NEW u \in Tasks, Unassigned(u)  PROVE Unassigned(u)'
      <3>1. u # t
        BY <1>6, <2>1, Constants, Zenon DEF Unassigned
      <3> QED  BY <1>3, <1>9, <2>1, <3>1, Zenon DEF Unassigned
    <2> QED  BY <1>3, <1>9, <2>1, Zenon DEF HandoverKept
  <1>14. STypes'
    <2>1. pc' \in [Cpus -> PCs] /\ nxt' \in [Cpus -> Tasks \cup {NoTask}]
      BY <1>3, Zenon DEF IInv, STypes, PCs
    <2> QED  BY <1>3, <1>7, <1>8, <1>9, <2>1, Zenon DEF IInv, STypes, FifoTasks
  <1>15. Awake(c)'
    BY <1>5, Zenon DEF Awake
  <1>16. /\ assoc' \in [Tasks -> Cpus] /\ stale' \in [Cpus -> BOOLEAN]
         /\ agentRuns' \in [Cpus -> BOOLEAN] /\ agentRuns'[c]
    BY <1>1, <1>4, Zenon DEF IInv, KTypes, Running
  <1>17. "loop" \notin Migrating /\ "loop" \notin InHands /\ pc[c] # "ping" /\ pc[c] # "in_run"
    BY <1>1, Zenon DEF Migrating, InHands
  <1> QED  BY <1>3, <1>4, <1>11, <1>12, <1>13, <1>14, <1>15, <1>16, <1>17, MoveStep, ZenonT(60)

\* The task of a commit that succeeded: its agent's, and on no cpu.
LEMMA CommitSucceedsStep ==
    ASSUME IInv, ~fault, NEW c \in Cpus, CommitSucceeds(c)
    PROVE  IInv'
  <1>1. pc[c] = "commit" /\ pc[c] \in InHands
    BY Zenon DEF CommitSucceeds, At, InHands
  <1>2. PICK t \in Tasks : t = nxt[c]
    BY <1>1, Zenon DEF IInv, Running
  <1>3. kcur[c] = NoTask
    <2>1. kcur[c] \in Tasks \cup {NoTask} /\ Running(c)
      BY Zenon DEF IInv, KTypes
    <2>2. ASSUME NEW u \in Tasks, kcur[c] = u  PROVE FALSE
      <3>1. Runs(c, u)
        BY <2>1, <2>2, Zenon DEF Running
      <3> QED  BY <1>1, <3>1, Zenon DEF Runs
    <2> QED  BY <2>1, <2>2, Zenon
  <1>4. /\ kcur' = [kcur EXCEPT ![c] = t] /\ chain' = [chain EXCEPT ![c] = FALSE]
        /\ kstate' = [u \in Tasks |-> IF u = t THEN "running"
                                      ELSE IF u = kcur[c] THEN "runnable" ELSE kstate[u]]
        /\ on_cpu' = [on_cpu EXCEPT ![t] = TRUE] /\ UNCHANGED <<barrier, channel, stale>>
        /\ agentRuns' = [agentRuns EXCEPT ![c] = FALSE] /\ pc' = [pc EXCEPT ![c] = "in_run"]
        /\ UNCHANGED <<assoc, cfs, known, task, rq, current, nxt, dest, rr, on_idle, fault>>
    BY <1>2, <1>3, Zenon DEF CommitSucceeds, KSwitch
  <1>5. kstate[t] \notin {"out", "gone"} /\ ~on_cpu[t]
    BY <1>2, Zenon DEF CommitSucceeds, CommitOutcome
  <1>6. Holds(c, t) /\ t \in known /\ task[t].cpu = c
    <2>1. Holds(c, t) /\ Booked(t)
      BY <1>1, <1>2, Zenon DEF Holds, IInv
    <2> QED  BY <1>5, <2>1, Zenon DEF Booked
  <1>7. /\ kstate'[t] = "running" /\ on_cpu'[t]
        /\ \A u \in Tasks : u # t => kstate'[u] = kstate[u] /\ on_cpu'[u] = on_cpu[u]
    BY <1>3, <1>4, Constants, Zenon DEF IInv, KTypes
  <1>8. \A d \in Cpus : /\ pc'[d] = IF d = c THEN "in_run" ELSE pc[d]
                        /\ kcur'[d] = IF d = c THEN t ELSE kcur[d]
                        /\ chain'[d] = IF d = c THEN FALSE ELSE chain[d]
                        /\ agentRuns'[d] = IF d = c THEN FALSE ELSE agentRuns[d]
    BY <1>4, Zenon DEF IInv, STypes, KTypes
  <1>9. KTypes'
    <2>1. kstate' \in [Tasks -> {"out", "blocked", "runnable", "running", "dying", "gone"}]
      BY <1>4, Zenon DEF IInv, KTypes
    <2>2. /\ kcur' \in [Cpus -> Tasks \cup {NoTask}] /\ chain' \in [Cpus -> BOOLEAN]
          /\ on_cpu' \in [Tasks -> BOOLEAN] /\ agentRuns' \in [Cpus -> BOOLEAN]
      BY <1>4, Zenon DEF IInv, KTypes
    <2> QED  BY <1>4, <2>1, <2>2, Zenon DEF IInv, KTypes
  <1>10. STypes'
    <2>1. pc' \in [Cpus -> PCs]
      BY <1>4, Zenon DEF IInv, STypes, PCs
    <2> QED  BY <1>4, <2>1, Zenon DEF IInv, STypes
  <1>11. BooksKept
    <2>1. SamePhase
      BY <1>1, <1>4, PhaseFrame, Zenon DEF IInv, Migrating
    <2>2. \A d \in Cpus, u \in Tasks : Holds(d, u)' => Holds(d, u)
      <3>1. \A d \in Cpus : pc'[d] \in InHands => pc[d] \in InHands
        BY <1>1, <1>8, Zenon
      <3> QED  BY <1>4, <3>1, Zenon DEF Holds
    <2> QED  BY <1>4, <2>1, <2>2, Zenon DEF BooksKept
  <1>12. Mail' /\ \A u \in Tasks : Booked(u)'
    <2>1. SameTasks({})
      <3>1. ASSUME NEW u \in Tasks
            PROVE  /\ kstate'[u] = "out" <=> kstate[u] = "out"
                   /\ kstate'[u] = "gone" <=> kstate[u] = "gone"
        <4>1. CASE u = t
          BY <1>5, <1>7, <4>1, Zenon
        <4>2. CASE u # t
          BY <1>7, <4>2, Zenon
        <4> QED  BY <4>1, <4>2, Zenon
      <3> QED  BY <1>4, <3>1, Zenon DEF SameTasks
    <2> QED  BY <1>4, <1>11, <2>1, QuietMail, Zenon
  <1>13. Migration'
    <2>1. ASSUME NEW q \in Cpus, pc'[q] \in Migrating  PROVE \E u \in Tasks : Migrates(q, u)'
      <3>1. q # c /\ pc'[q] = pc[q]
        <4>1. q # c
          BY <1>8, <2>1, Zenon DEF Migrating
        <4> QED  BY <1>8, <4>1, Zenon
      <3>2. Migration /\ pc[q] \in Migrating
        BY <2>1, <3>1, Zenon DEF IInv
      <3>3. channel'[q] # << >> /\ Peek(q)' = Peek(q)
        BY <1>4, <3>2, Zenon DEF Migration, Migrates, Peek
      <3>4. dest'[q] = dest[q] /\ \A u \in Tasks :
              /\ u \in known' => u \in known /\ task'[u].cpu = task[u].cpu
              /\ Unassigned(u) => Unassigned(u)'
        BY <1>4, Zenon DEF Unassigned
      <3> QED  BY <2>1, <3>1, <3>2, <3>3, <3>4, MigrationFrame, Zenon
    <2> QED  BY <2>1, Zenon DEF Migration
  <1>14. ASSUME NEW d \in Cpus  PROVE Running(d)'
    <2>1. Running(d) /\ Running(c)
      BY Zenon DEF IInv
    <2>2. agentRuns'[d] <=> pc'[d] \notin {"asleep", "in_run"}
      <3>1. CASE d = c
        BY <1>8, <3>1, Zenon
      <3>2. CASE d # c
        BY <1>8, <2>1, <3>2, Zenon DEF Running
      <3> QED  BY <3>1, <3>2, Zenon
    <2>3. /\ pc'[d] \in InHands => nxt'[d] \in Tasks
          /\ chain'[d] => kcur'[d] # NoTask
      BY <1>1, <1>4, <1>8, <2>1, Zenon DEF Running
    <2>4. ASSUME NEW u \in Tasks, kcur'[d] = u  PROVE Runs(d, u)'
      <3>1. CASE d = c
        <4>1. u = t
          BY <1>8, <2>4, <3>1, Zenon
        <4>2. ASSUME NEW e \in Cpus, kcur'[e] = t  PROVE e = c
          <5> SUFFICES ASSUME e # c  PROVE FALSE
            BY Zenon
          <5>1. kcur[e] = t /\ Running(e)
            BY <1>8, <4>2, Zenon DEF IInv
          <5> QED  BY <1>5, <5>1, Zenon DEF Running, Runs
        <4>3. pc'[c] = "in_run"
          BY <1>8, Zenon
        <4> QED  BY <1>4, <1>6, <1>7, <3>1, <4>1, <4>2, <4>3, Zenon DEF Runs
      <3>2. CASE d # c
        <4>1. kcur[d] = u /\ pc'[d] = pc[d] /\ chain'[d] = chain[d]
          BY <1>8, <2>4, <3>2, Zenon
        <4>2. Runs(d, u)
          BY <2>1, <4>1, Zenon DEF Running
        <4>3. u # t
          BY <1>5, <4>2, Zenon DEF Runs
        <4>4. ASSUME NEW e \in Cpus, kcur'[e] = u  PROVE e = d
          <5>1. kcur[e] = u
            BY <1>8, <4>3, <4>4, Zenon
          <5> QED  BY <4>2, <5>1, Zenon DEF Runs
        <4>5. kstate'[u] = kstate[u] /\ on_cpu'[u] = on_cpu[u]
          BY <1>7, <4>3, Zenon
        <4> QED  BY <1>4, <4>1, <4>2, <4>4, <4>5, Zenon DEF Runs
      <3> QED  BY <3>1, <3>2, Zenon
    <2> QED  BY <2>2, <2>3, <2>4, Zenon DEF Running
  <1>15. ASSUME NEW d \in Cpus  PROVE Awake(d)'
    <2>1. CASE d = c
      <3>1. pc'[d] = "in_run" /\ kcur'[d] # NoTask
        BY <1>8, <2>1, Constants, Zenon
      <3> QED  BY <3>1, Zenon DEF Awake
    <2>2. CASE d # c
      <3>1. Awake(d) /\ pc'[d] = pc[d] /\ kcur'[d] = kcur[d]
        BY <1>8, <2>2, Zenon DEF IInv
      <3>2. PingComing(d) => PingComing(d)'
        <4>1. \A e \in Cpus : pc[e] = "ping" => pc'[e] = "ping"
          BY <1>1, <1>8, Zenon
        <4> QED  BY <1>4, <4>1, Zenon DEF PingComing
      <3> QED  BY <1>4, <3>1, <3>2, StillAwake, Zenon
    <2> QED  BY <2>1, <2>2, Zenon
  <1> QED  BY <1>9, <1>10, <1>12, <1>13, <1>14, <1>15, Zenon DEF IInv

\* What TaskOnCpu, after a commit, stores into the task that ran.
TaskOnCpu(f, t, c, b) ==
    [f EXCEPT ![t].run_state = "kOnCpu", ![t].cpu = c, ![t].prio_boost = b]

\* TaskOnCpu stores the cpu that it is given.
LEMMA TaskOnCpuUpdate ==
    ASSUME NEW f \in [Tasks -> FifoTasks], NEW t \in Tasks, NEW c \in Cpus, NEW b \in BOOLEAN
    PROVE  /\ TaskOnCpu(f, t, c, b) \in [Tasks -> FifoTasks]
           /\ TaskOnCpu(f, t, c, b)[t].cpu = c
           /\ \A u \in Tasks \ {t} : TaskOnCpu(f, t, c, b)[u] = f[u]
  <1>1. PICK f1 : f1 = [f EXCEPT ![t].run_state = "kOnCpu"]
    BY Zenon
  <1>2. PICK f2 : f2 = [f1 EXCEPT ![t].cpu = c]
    BY Zenon
  <1>3. f1 \in [Tasks -> FifoTasks] /\ \A u \in Tasks \ {t} : f1[u] = f[u]
    BY <1>1, SMT DEF FifoTasks, RunStates
  <1>4. /\ f2 \in [Tasks -> FifoTasks] /\ f2[t].cpu = c
        /\ \A u \in Tasks \ {t} : f2[u] = f1[u]
    BY ONLY <1>2, <1>3, t \in Tasks, c \in Cpus, SMT DEF FifoTasks
  <1>5. TaskOnCpu(f, t, c, b) = [f2 EXCEPT ![t].prio_boost = b]
    BY <1>1, <1>2, Zenon DEF TaskOnCpu
  <1>6. PICK f3 : f3 = [f2 EXCEPT ![t].prio_boost = b]
    BY Zenon
  <1>7. /\ f3 \in [Tasks -> FifoTasks] /\ f3[t].cpu = f2[t].cpu
        /\ \A u \in Tasks \ {t} : f3[u] = f2[u]
    BY ONLY <1>4, <1>6, t \in Tasks, b \in BOOLEAN, SMT DEF FifoTasks
  <1> QED  BY <1>3, <1>4, <1>5, <1>6, <1>7, Zenon

\* The agent is back on its cpu; the task it had put there is announced or not.
LEMMA AgentWakesStep ==
    ASSUME IInv, ~fault, NEW c \in Cpus, AgentWakes(c)
    PROVE  IInv'
  <1>1. pc[c] \in {"asleep", "in_run"}
    BY Zenon DEF AgentWakes, At
  <1>2. /\ nxt' = [nxt EXCEPT ![c] = NoTask] /\ pc' = [pc EXCEPT ![c] = "loop"]
        /\ UNCHANGED <<known, rq, dest, rr, on_idle, fault>>
    BY Zenon DEF AgentWakes
  <1>3. PICK announce \in AgentPreempts : KAgentOnCpu(c, announce)
    BY Zenon DEF AgentWakes
  <1>4. /\ announce => kcur[c] # NoTask
        /\ agentRuns' = [agentRuns EXCEPT ![c] = TRUE] /\ kcur' = [kcur EXCEPT ![c] = NoTask]
        /\ chain' = [chain EXCEPT ![c] = FALSE]
        /\ kstate' = [t \in Tasks |-> IF t = kcur[c] THEN "runnable" ELSE kstate[t]]
        /\ on_cpu' = [t \in Tasks |-> on_cpu[t] /\ t # kcur[c]] /\ UNCHANGED <<assoc, cfs>>
    BY <1>3, Zenon DEF KAgentOnCpu
  <1>5. \A d \in Cpus : /\ pc'[d] = IF d = c THEN "loop" ELSE pc[d]
                        /\ d # c => nxt'[d] = nxt[d]
                        /\ kcur'[d] = IF d = c THEN NoTask ELSE kcur[d]
                        /\ chain'[d] = IF d = c THEN FALSE ELSE chain[d]
                        /\ agentRuns'[d] = IF d = c THEN TRUE ELSE agentRuns[d]
    BY <1>2, <1>4, Zenon DEF IInv, STypes, KTypes
  <1>6. /\ current' \in [Cpus -> Tasks \cup {NoTask}] /\ \A d \in Cpus : d # c => current'[d] = current[d]
        /\ \A u \in Tasks : current'[c] = u => Holds(c, u)
        /\ task' \in [Tasks -> FifoTasks]
        /\ \A u \in Tasks : u \in known => task'[u].cpu = task[u].cpu
        /\ \A u \in Tasks : Unassigned(u) => task'[u] = task[u]
    <2>0. task \in [Tasks -> FifoTasks] /\ current \in [Cpus -> Tasks \cup {NoTask}]
      BY Zenon DEF IInv, STypes, FifoTasks
    <2>1. CASE pc[c] # "in_run"
      <3>1. UNCHANGED <<current, task>>
        BY <2>1, Zenon DEF AgentWakes
      <3> QED  BY <2>0, <3>1, Zenon DEF Holds
    <2>2. CASE pc[c] = "in_run"
      <3>1. PICK t \in Tasks : t = nxt[c]
        BY <2>2, Zenon DEF IInv, Running, InHands
      <3>2. /\ current' = [current EXCEPT ![c] = t]
            /\ task' = TaskOnCpu(task, t, c, FALSE)
        BY <2>2, <3>1, Zenon DEF AgentWakes, TaskOnCpu
      <3>3. /\ task' \in [Tasks -> FifoTasks] /\ task'[t].cpu = c
            /\ \A u \in Tasks \ {t} : task'[u] = task[u]
        <4>1. PICK b \in BOOLEAN : b = FALSE
          BY Zenon
        <4>2. PICK f \in [Tasks -> FifoTasks] : f = task
          BY <2>0, Zenon
        <4>3. /\ TaskOnCpu(f, t, c, b) \in [Tasks -> FifoTasks]
              /\ TaskOnCpu(f, t, c, b)[t].cpu = c
              /\ \A u \in Tasks \ {t} : TaskOnCpu(f, t, c, b)[u] = f[u]
          BY ONLY t \in Tasks, c \in Cpus, b \in BOOLEAN, f \in [Tasks -> FifoTasks], TaskOnCpuUpdate
        <4> QED  BY <3>2, <4>1, <4>2, <4>3, Zenon
      <3>4. Holds(c, t) /\ (t \in known => task[t].cpu = c)
        <4>1. Holds(c, t) /\ Booked(t)
          BY <2>2, <3>1, Zenon DEF Holds, IInv, InHands
        <4> QED  BY <4>1, Zenon DEF Booked
      <3>5. ~Unassigned(t)
        BY <3>4, Constants, Zenon DEF Unassigned
      <3>6. /\ current' \in [Cpus -> Tasks \cup {NoTask}] /\ current'[c] = t
            /\ \A d \in Cpus : d # c => current'[d] = current[d]
        BY <2>0, <3>2, Zenon
      <3>7. ASSUME NEW u \in Tasks, u \in known  PROVE task'[u].cpu = task[u].cpu
        BY <3>3, <3>4, <3>7, Zenon
      <3>8. \A u \in Tasks : Unassigned(u) => task'[u] = task[u]
        BY <3>3, <3>5, Zenon
      <3>9. \A u \in Tasks : current'[c] = u => Holds(c, u)
        BY <3>4, <3>6, Zenon
      <3> QED  BY <3>3, <3>6, <3>7, <3>8, <3>9, Zenon
    <2> QED  BY <2>1, <2>2, Zenon
  <1>7. BooksKept
    <2>1. SamePhase
      <3>1. "loop" \notin Migrating /\ pc[c] \notin Migrating /\ pc[c] # "set_queued"
        BY <1>1, Zenon DEF Migrating
      <3> QED  BY <1>2, <3>1, PhaseFrame, Zenon DEF IInv
    <2>2. ASSUME NEW d \in Cpus, NEW u \in Tasks, Holds(d, u)'  PROVE Holds(d, u)
      <3>1. CASE current'[d] = u
        <4>1. CASE d = c
          <5>1. Holds(c, u)
            BY <1>6, <3>1, <4>1, Zenon
          <5> QED  BY <4>1, <5>1, Zenon
        <4>2. CASE d # c
          BY <1>6, <3>1, <4>2, Zenon DEF Holds
        <4> QED  BY <4>1, <4>2, Zenon
      <3>2. CASE Contains(rq'[d], u)
        BY <1>2, <3>2, Zenon DEF Holds
      <3>3. CASE pc'[d] \in InHands /\ nxt'[d] = u
        <4>1. d # c
          BY <1>5, <3>3, Zenon DEF InHands
        <4> QED  BY <1>5, <3>3, <4>1, Zenon DEF Holds
      <3> QED  BY <2>2, <3>1, <3>2, <3>3, Zenon DEF Holds
    <2>3. \A u \in known : task'[u].cpu = task[u].cpu
      BY <1>6, Zenon DEF IInv, STypes
    <2> QED  BY <1>2, <2>1, <2>2, <2>3, Zenon DEF BooksKept
  <1>8. ASSUME NEW u \in Tasks, kcur[c] = u
        PROVE  kstate[u] = "running" /\ kstate'[u] = "runnable"
    BY <1>4, <1>8, RunningTask, Zenon
  <1>9. \A u \in Tasks : u # kcur[c] => kstate'[u] = kstate[u] /\ on_cpu'[u] = on_cpu[u]
    <2>1. \A u \in Tasks : on_cpu[u] \in BOOLEAN
      BY Zenon DEF IInv, KTypes
    <2> QED  BY <1>4, <2>1, Zenon
  <1>10. \A u \in Tasks : /\ kstate'[u] = "out" <=> kstate[u] = "out"
                          /\ kstate'[u] = "gone" <=> kstate[u] = "gone"
    BY <1>8, <1>9, Zenon
  <1>11. /\ Mail' /\ \A u \in Tasks : Booked(u)'
         /\ channel' \in [Cpus -> Seq(Mess)] /\ barrier' \in [Tasks -> Int]
         /\ stale' \in [Cpus -> BOOLEAN]
         /\ \A q \in Cpus : /\ Elems(channel[q]) \subseteq Elems(channel'[q])
                            /\ pc[q] \in Migrating => /\ channel'[q] # << >>
                                                     /\ Peek(q)' = Peek(q)
                            /\ channel'[q] = channel[q] \/ stale'[q]
                            /\ stale[q] => stale'[q]
    <2>1. CASE announce \/ chain[c]
      <3>1. PICK t \in Tasks : t = kcur[c]
        <4>1. kcur[c] # NoTask
          BY <1>4, <2>1, Zenon DEF IInv, Running
        <4> QED  BY <4>1, Zenon DEF IInv, KTypes
      <3>2. PICK m : m = Msg("PREEMPT", t, FALSE, chain[c], c)
        BY Zenon
      <3>3. m \in Mess /\ m.task = t /\ m.seqnum = barrier[t] + 1 /\ m.type = "PREEMPT"
        <4>1. barrier[t] \in Int /\ chain[c] \in BOOLEAN
          BY DEF IInv, KTypes
        <4>2. "PREEMPT" \in MsgTypes
          BY Zenon DEF MsgTypes
        <4> QED  BY ONLY <3>2, <4>1, <4>2, t \in Tasks, c \in Cpus DEF Msg, Mess
      <3>4. Send(m) /\ Notify(m)
        BY <1>3, <2>1, <3>1, <3>2, Zenon DEF KAgentOnCpu, Produce
      <3>5. \A d \in Cpus : stale'[d] = (stale[d] \/ d = assoc[t])
        BY <3>3, <3>4, Zenon DEF Notify
      <3>6. stale' \in [Cpus -> BOOLEAN]
        <4>1. \A d \in Cpus : (stale[d] \/ d = assoc[t]) \in BOOLEAN
          BY Zenon DEF IInv, KTypes
        <4> QED  BY <3>3, <3>4, <4>1, Zenon DEF Notify
      <3>7. kstate[t] = "running" /\ kstate'[t] = "runnable"
        BY <1>8, <3>1, Zenon
      <3>8. SameTasks({t}) /\ assoc'[t] = assoc[t]
        BY <1>4, <1>10, Zenon DEF SameTasks
      <3>9. /\ kstate[t] # "gone" /\ kstate'[t] # "out" /\ (m.type = "NEW" <=> kstate[t] = "out")
            /\ (m.type \in {"DEPARTED", "DEAD"} <=> kstate'[t] = "gone")
            /\ m.type \notin {"NEW", "WAKEUP", "SWITCHTO", "DEAD"}
        BY <3>3, <3>7, Zenon
      <3>10. /\ Mail' /\ \A u \in Tasks : Booked(u)'
             /\ channel' \in [Cpus -> Seq(Mess)] /\ barrier' \in [Tasks -> Int]
             /\ \A q \in Cpus : /\ Elems(channel[q]) \subseteq Elems(channel'[q])
                                /\ pc[q] \in Migrating => /\ channel'[q] # << >>
                                                         /\ Peek(q)' = Peek(q)
             /\ m \in Elems(channel'[assoc[t]])
             /\ \A q \in Cpus : q # assoc[t] => channel'[q] = channel[q]
        BY <1>7, <3>3, <3>4, <3>8, <3>9, PostMail, Zenon
      <3> QED  BY <3>5, <3>6, <3>10, Zenon
    <2>2. CASE ~(announce \/ chain[c])
      <3>1. UNCHANGED <<barrier, channel, stale>>
        BY <1>3, <2>2, Zenon DEF KAgentOnCpu
      <3>2. SameTasks({})
        BY <1>4, <1>10, Zenon DEF SameTasks
      <3>3. Mail' /\ \A u \in Tasks : Booked(u)'
        BY <1>7, <3>1, <3>2, QuietMail, Zenon
      <3>4. \A q \in Cpus : pc[q] \in Migrating => channel'[q] # << >> /\ Peek(q)' = Peek(q)
        BY <3>1, Zenon DEF IInv, Migration, Migrates, Peek
      <3>5. /\ channel' \in [Cpus -> Seq(Mess)] /\ barrier' \in [Tasks -> Int]
            /\ stale' \in [Cpus -> BOOLEAN]
        BY <3>1, Zenon DEF IInv, KTypes
      <3> QED  BY <3>1, <3>3, <3>4, <3>5, Zenon
    <2> QED  BY <2>1, <2>2, Zenon
  <1>12. KTypes'
    <2>1. kstate' \in [Tasks -> {"out", "blocked", "runnable", "running", "dying", "gone"}]
      BY <1>4, Zenon DEF IInv, KTypes
    <2>2. /\ kcur' \in [Cpus -> Tasks \cup {NoTask}] /\ chain' \in [Cpus -> BOOLEAN]
          /\ agentRuns' \in [Cpus -> BOOLEAN] /\ assoc' \in [Tasks -> Cpus]
          /\ cfs' \in [Cpus -> BOOLEAN]
      BY <1>4, Zenon DEF IInv, KTypes
    <2>3. on_cpu' \in [Tasks -> BOOLEAN]
      BY <1>4, Zenon DEF IInv, KTypes
    <2> QED  BY <1>11, <2>1, <2>2, <2>3, Zenon DEF KTypes
  <1>13. STypes'
    <2>1. pc' \in [Cpus -> PCs] /\ nxt' \in [Cpus -> Tasks \cup {NoTask}]
      BY <1>2, Zenon DEF IInv, STypes, PCs
    <2> QED  BY <1>2, <1>6, <2>1, Zenon DEF IInv, STypes, FifoTasks
  <1>14. Migration'
    <2>1. ASSUME NEW q \in Cpus, pc'[q] \in Migrating  PROVE \E u \in Tasks : Migrates(q, u)'
      <3>1. q # c
        BY <1>5, <2>1, Zenon DEF Migrating
      <3>2. Migration /\ pc[q] \in Migrating /\ pc'[q] = pc[q]
        BY <1>5, <2>1, <3>1, Zenon DEF IInv
      <3>3. channel'[q] # << >> /\ Peek(q)' = Peek(q)
        BY <1>11, <3>2, Zenon
      <3>4. dest'[q] = dest[q] /\ \A u \in Tasks :
              /\ u \in known' => u \in known /\ task'[u].cpu = task[u].cpu
              /\ Unassigned(u) => Unassigned(u)'
        BY <1>2, <1>6, Zenon DEF Unassigned
      <3> QED  BY <2>1, <3>2, <3>3, <3>4, MigrationFrame, Zenon
    <2> QED  BY <2>1, Zenon DEF Migration
  <1>15. ASSUME NEW d \in Cpus  PROVE Running(d)'
    <2>1. Running(d)
      BY Zenon DEF IInv
    <2>2. CASE d = c
      <3>1. pc'[c] = "loop" /\ agentRuns'[c] /\ ~chain'[c] /\ kcur'[c] = NoTask
        BY <1>5, Zenon
      <3>2. \A u \in Tasks : kcur'[c] # u
        BY <3>1, Constants, Zenon
      <3>3. pc'[c] \notin InHands
        BY <3>1, Zenon DEF InHands
      <3> QED  BY <2>2, <3>1, <3>2, <3>3, Zenon DEF Running
    <2>3. CASE d # c
      <3>1. /\ pc'[d] = pc[d] /\ nxt'[d] = nxt[d] /\ kcur'[d] = kcur[d] /\ chain'[d] = chain[d]
            /\ agentRuns'[d] = agentRuns[d]
        BY <1>5, <2>3, Zenon
      <3>2. ASSUME NEW u \in Tasks, kcur'[d] = u  PROVE Runs(d, u)'
        <4>1. kcur[d] = u /\ Runs(d, u)
          BY <2>1, <3>1, <3>2, Zenon DEF Running
        <4>2. u # kcur[c]
          BY <2>3, <4>1, Zenon DEF Runs
        <4>3. kstate'[u] = kstate[u] /\ on_cpu'[u] = on_cpu[u]
          BY <1>9, <4>2, Zenon
        <4>4. ASSUME NEW e \in Cpus, kcur'[e] = u  PROVE e = d
          <5>1. kcur[e] = u
            BY <1>5, <4>4, Constants, Zenon
          <5> QED  BY <4>1, <5>1, Zenon DEF Runs
        <4>5. ~chain'[d] => u \in known' /\ task'[u].cpu = d
          BY <1>2, <1>6, <3>1, <4>1, Zenon DEF Runs
        <4> QED  BY <3>1, <4>1, <4>3, <4>4, <4>5, Zenon DEF Runs
      <3> QED  BY <2>1, <3>1, <3>2, Zenon DEF Running
    <2> QED  BY <2>2, <2>3, Zenon
  <1>16. ASSUME NEW d \in Cpus  PROVE Awake(d)'
    <2>1. CASE d = c
      <3>1. pc'[d] = "loop"
        BY <1>5, <2>1, Zenon
      <3> QED  BY <3>1, Zenon DEF Awake
    <2>2. CASE d # c
      <3>1. /\ Awake(d) /\ pc'[d] = pc[d] /\ kcur'[d] = kcur[d] /\ rq'[d] = rq[d]
            /\ current'[d] = current[d] /\ on_idle'[d] = on_idle[d]
        BY <1>2, <1>5, <1>6, <2>2, Zenon DEF IInv
      <3>2. PingComing(d) => PingComing(d)'
        <4>1. \A e \in Cpus : pc[e] = "ping" /\ dest[e] = d => pc'[e] = "ping" /\ dest'[e] = d
          BY <1>1, <1>2, <1>5, Zenon
        <4>2. \A e \in Cpus : \A n \in Elems(channel[e]) :
                n.fsw /\ n.cpu = d => n \in Elems(channel'[e])
          BY <1>11, Zenon
        <4> QED  BY <4>1, <4>2, StillComing, Zenon
      <3>3. (channel'[d] = channel[d] \/ stale'[d]) /\ (stale[d] => stale'[d])
        BY <1>11, Zenon
      <3> QED  BY <3>1, <3>2, <3>3, StillAwake, Zenon
    <2> QED  BY <2>1, <2>2, Zenon
  <1> QED  BY <1>11, <1>12, <1>13, <1>14, <1>15, <1>16, ZenonT(60) DEF IInv

-----------------------------------------------------------------------------
(* Steps that look for the first of several. *)

\* The order of the naturals is total.
LEMMA NotLess == \A x, y \in Nat : ~(y < x) => x <= y
  OBVIOUS

LOCAL INSTANCE WellFoundedInduction

\* Min finds the first of a set.
LEMMA MinExists ==
    ASSUME NEW S \in SUBSET Nat, S # {}
    PROVE  Min(S) \in S
  <1> DEFINE R == OpToRel(<, Nat)
  <1>1. \E x \in S : \A y \in S : <<y, x>> \notin R
    BY NatLessThanWellFounded, WFMin, Zenon
  <1>2. \A x, y \in Nat : <<y, x>> \in R <=> y < x
    BY DEF OpToRel
  <1> HIDE DEF R
  <1>3. PICK x \in S : \A y \in S : <<y, x>> \notin R
    BY <1>1
  <1>4. \A y \in S : x \in Nat /\ y \in Nat /\ ~(y < x)
    BY <1>2, <1>3, Zenon
  <1>5. \A y \in S : x <= y
    BY <1>4, NotLess, Zenon
  <1> QED  BY <1>5, Zenon DEF Min

\* AssignCpu goes from one cpu to another.
LEMMA NextCpuIsCpu ==
    ASSUME NEW c \in Cpus
    PROVE  NextCpu(c) \in Cpus
  <1>1. {d \in Cpus : d > c} \in SUBSET Nat
    BY Constants, Zenon
  <1>2. CASE {d \in Cpus : d > c} = {}
    BY <1>2, Constants, Zenon DEF NextCpu
  <1>3. CASE {d \in Cpus : d > c} # {}
    <2>1. Min({d \in Cpus : d > c}) \in {d \in Cpus : d > c}
      BY <1>1, <1>3, MinExists, Zenon
    <2> QED  BY <1>3, <2>1, Zenon DEF NextCpu
  <1> QED  BY <1>2, <1>3, Zenon

\* Erase takes out a task that is there.
LEMMA EraseFound ==
    ASSUME NEW q \in Seq(Tasks), NEW t, Contains(q, t)
    PROVE  /\ Erase(q, t) \in Seq(Tasks)
           /\ \A u : Contains(Erase(q, t), u) => Contains(q, u)
  <1>1. DOMAIN q \subseteq Nat
    OBVIOUS
  <1>2. {i \in DOMAIN q : q[i] = t} \in SUBSET Nat /\ {i \in DOMAIN q : q[i] = t} # {}
    BY <1>1, Zenon DEF Contains
  <1>3. Min({i \in DOMAIN q : q[i] = t}) \in {i \in DOMAIN q : q[i] = t}
    BY <1>2, MinExists, Zenon
  <1> QED  BY <1>3, EraseQueue, Zenon

\* A task that departs is taken off its cpu or its queue, or was blocked.
LEMMA TaskDepartedStep ==
    ASSUME IInv, NEW c \in Cpus, TaskDeparted(c), ~fault'
    PROVE  IInv'
  <1>1. PICK t \in known : t = Peek(c).task
    BY Zenon DEF TaskDeparted, Dispatching
  <1>2. /\ pc[c] = "drain" /\ channel[c] # << >> /\ Peek(c).type = "DEPARTED" /\ Consume(c)
        /\ Free(t) /\ PingChainCpu(Peek(c))
        /\ UNCHANGED <<kquiet, pc, nxt, dest, rr, on_idle>>
    BY <1>1, Zenon DEF TaskDeparted, Dispatching, At
  <1>3. /\ fault' = FALSE /\ (current' = current \/ current' = OffCpu(t))
        /\ \/ rq' = rq
           \/ /\ task[t].run_state = "kQueued" /\ Contains(rq[task[t].cpu], t)
              /\ rq' = [rq EXCEPT ![task[t].cpu] = Erase(@, t)]
        /\ \/ task[t].cpu # NoCpu
           \/ task[t].run_state \in {"kQueued", "kBlocked"}
    BY <1>1, Zenon DEF TaskDeparted, OffCpuOK
  <1>4. ~Unassigned(t)
    BY <1>3, Zenon DEF Unassigned
  <1>5. t \in Tasks /\ c = Home(t) /\ task[t].cpu \in Cpus \cup {NoCpu}
    <2>1. Placed(Peek(c), c) /\ Peek(c).task \in Tasks
      BY <1>2, HeadFacts, Zenon DEF Migrating
    <2>2. t \in Tasks
      BY <1>1, <2>1, Zenon
    <2>3. task[t].cpu \in Cpus \cup {NoCpu}
      BY <2>2 DEF IInv, STypes
    <2> QED  BY <1>1, <2>1, <2>2, <2>3, Zenon DEF Placed
  <1>6. task[t].cpu \in Cpus => task[t].cpu = c
    BY <1>5, Constants, Zenon DEF Home
  <1>7. /\ rq' \in [Cpus -> Seq(Tasks)]
        /\ \A d \in Cpus : /\ d # c => rq'[d] = rq[d]
                           /\ \A u \in Tasks : Contains(rq'[d], u) => Contains(rq[d], u)
    <2>0. rq \in [Cpus -> Seq(Tasks)] /\ rq[c] \in Seq(Tasks)
      BY Zenon DEF IInv, STypes
    <2>1. CASE rq' = rq
      BY <2>0, <2>1, Zenon
    <2>2. CASE /\ Contains(rq[task[t].cpu], t)
               /\ rq' = [rq EXCEPT ![task[t].cpu] = Erase(@, t)]
      <3>1. CASE task[t].cpu \in Cpus
        <4>1. Contains(rq[c], t) /\ rq' = [rq EXCEPT ![c] = Erase(@, t)]
          BY <1>6, <2>2, <3>1, Zenon
        <4>2. /\ Erase(rq[c], t) \in Seq(Tasks)
              /\ \A u : Contains(Erase(rq[c], t), u) => Contains(rq[c], u)
          BY <2>0, <4>1, EraseFound, Zenon
        <4> QED  BY <2>0, <4>1, <4>2, Zenon
      <3>2. CASE task[t].cpu \notin Cpus
        <4>1. \A d \in Cpus : rq'[d] = rq[d]
          BY <2>0, <2>2, <3>2, Zenon
        <4>2. rq' \in [Cpus -> Seq(Tasks)]
          BY <2>0, <2>2, <3>2, Zenon
        <4> QED  BY <4>1, <4>2, Zenon
      <3> QED  BY <3>1, <3>2, Zenon
    <2> QED  BY <1>3, <2>1, <2>2, Zenon
  <1>8. /\ current' \in [Cpus -> Tasks \cup {NoTask}]
        /\ \A d \in Cpus : current'[d] \in {current[d], NoTask}
    <2>1. CASE current' = current
      BY <2>1, Zenon DEF IInv, STypes
    <2>2. CASE current' = OffCpu(t)
      BY <2>2, OffCpuCurrent, Zenon
    <2> QED  BY <1>3, <2>1, <2>2, ZenonT(60)
  <1> QED  BY <1>1, <1>2, <1>3, <1>4, <1>7, <1>8, FreeStep, ZenonT(60)

\* A task with an unread message cannot be associated with another channel.
LEMMA MigrateAssociateStep ==
    ASSUME IInv, NEW c \in Cpus, MigrateAssociate(c), ~fault'
    PROVE  IInv'
  <1>1. pc[c] = "associate" /\ pc[c] \in Migrating
    BY Zenon DEF MigrateAssociate, At, Migrating
  <1>2. /\ c = DefaultChan /\ channel[c] # << >> /\ Peek(c).type \in {"NEW", "WAKEUP"}
        /\ Peek(c).task \in Tasks /\ HandoverKept(c) /\ Peek(c).seqnum \in Int
        /\ \A n \in Later(channel[c]) : Precedes(Peek(c), n)
        /\ Unread(c) = Later(channel[c])
        /\ Elems(channel[c]) = Later(channel[c]) \cup {Peek(c)}
        /\ channel[c] \in Seq(Mess)
    BY <1>1, MigratingFacts, Zenon
  <1>3. PICK t \in Tasks : t = Peek(c).task
    BY <1>2, Zenon
  <1>4. /\ fault' = FALSE /\ t \in known /\ Unassigned(t) /\ task[t].cpu = NoCpu
        /\ barrier[t] = Peek(c).seqnum
        /\ rr' = NextCpu(rr) /\ dest' = [dest EXCEPT ![c] = rr]
        /\ assoc' = [assoc EXCEPT ![t] = rr] /\ pc' = [pc EXCEPT ![c] = "set_queued"]
        /\ UNCHANGED <<kstate, kcur, chain, on_cpu, barrier, channel, stale, agentRuns,
                       cfs, known, task, rq, current, nxt, on_idle>>
    BY <1>3, Zenon DEF MigrateAssociate, CanAssociate, Freed, Unassigned
  <1>5. /\ rr \in Cpus /\ rr' \in Cpus /\ dest' \in [Cpus -> Cpus \cup {NoCpu}] /\ dest'[c] = rr
        /\ \A d \in Cpus : d # c => dest'[d] = dest[d]
        /\ \A d \in Cpus : pc'[d] = IF d = c THEN "set_queued" ELSE pc[d]
        /\ pc' \in [Cpus -> PCs]
    <2>1. rr \in Cpus
      BY Zenon DEF IInv, STypes
    <2>2. rr' \in Cpus
      BY <1>4, <2>1, NextCpuIsCpu, Zenon
    <2>3. dest' \in [Cpus -> Cpus \cup {NoCpu}] /\ dest'[c] = rr
      BY <1>4, <2>1, ZenonT(60) DEF IInv, STypes
    <2>4. /\ \A d \in Cpus : d # c => dest'[d] = dest[d]
          /\ \A d \in Cpus : pc'[d] = IF d = c THEN "set_queued" ELSE pc[d]
      BY <1>4, Zenon DEF IInv, STypes
    <2>5. pc' \in [Cpus -> PCs]
      BY <1>4, Zenon DEF IInv, STypes, PCs
    <2> QED  BY <2>1, <2>2, <2>3, <2>4, <2>5, ZenonT(60)
  <1>6. /\ assoc' \in [Tasks -> Cpus] /\ assoc'[t] = rr
        /\ \A u \in Tasks \ {t} : assoc'[u] = assoc[u]
    BY <1>4, <1>5, ZenonT(60) DEF IInv, KTypes
  <1>7. ASSUME NEW q \in Cpus, NEW n \in Unread(q), n.task = t  PROVE FALSE
    <2>1. q = Home(t)
      BY <1>7, Zenon DEF IInv, Mail, Placed
    <2>2. ~Handover(t)
      BY <1>1, <1>2, Zenon DEF Handover
    <2>3. q = c
      BY <1>2, <1>4, <2>1, <2>2, ZenonT(60) DEF Home
    <2>4. n \in Later(channel[c]) /\ n \in Elems(channel[c])
      BY <1>2, <1>7, <2>3, ZenonT(60)
    <2>5. Precedes(Peek(c), n) /\ Dated(n) /\ n \in Mess
      BY <1>2, <2>4, ElemsIn, ZenonT(60) DEF IInv, Mail
    <2>6. Peek(c).seqnum < n.seqnum /\ n.seqnum <= barrier[t]
      BY <1>3, <1>7, <2>5, Zenon DEF Precedes, Dated
    <2>7. n.seqnum \in Int
      BY ONLY <2>5 DEF Mess
    <2>8. Peek(c).seqnum < n.seqnum /\ n.seqnum <= Peek(c).seqnum /\ Peek(c).seqnum \in Int
      BY <1>2, <1>4, <2>6, Zenon
    <2> QED  BY ONLY <2>7, <2>8
  <1>8. Mail' /\ \A u \in Tasks : Booked(u)'
    <2>1. Home(t)' = rr
      <3>1. Handover(t)'
        BY <1>2, <1>3, <1>4, <1>5, Zenon DEF Handover, Peek
      <3> QED  BY <1>2, <1>4, <1>5, <3>1, Zenon DEF Home
    <2>2. kstate[t] # "gone" => assoc'[t] = Home(t)'
      BY <1>6, <2>1, Zenon
    <2>3. "set_queued" \in Migrating
      BY Zenon DEF Migrating
    <2>4. \A u \in Tasks \ {t} : task'[u] = task[u] /\ assoc'[u] = assoc[u]
      BY <1>4, <1>6, Zenon
    <2>5. \A q \in Cpus : \A n \in Unread(q) : n.task = t => Home(t)' = Home(t)
      BY <1>7, Zenon
    <2> QED  BY <1>1, <1>3, <1>4, <2>2, <2>3, <2>4, <2>5, HandoverMail, ZenonT(60)
  <1>9. OthersKept(c) /\ RunningKept
    BY <1>4, <1>5, ZenonT(60) DEF OthersKept, RunningKept
  <1>10. STypes'
    BY <1>4, <1>5, Zenon DEF IInv, STypes
  <1>11. Migrates(c, t)'
    <2>1. Peek(c)' = Peek(c) /\ pc'[c] = "set_queued" /\ Unassigned(t)'
      BY <1>4, <1>5, Zenon DEF Peek, Unassigned
    <2> QED  BY <1>2, <1>3, <1>4, <1>5, <2>1, ZenonT(60) DEF Migrates
  <1>12. Awake(c)'
    <2>1. pc'[c] = "set_queued"
      BY <1>5, Zenon
    <2> QED  BY ONLY <2>1, Zenon DEF Awake
  <1>13. stale' \in [Cpus -> BOOLEAN] /\ agentRuns' \in [Cpus -> BOOLEAN] /\ agentRuns'[c]
    BY <1>1, <1>4, Zenon DEF IInv, KTypes, Running
  <1>14. "set_queued" \notin InHands /\ pc[c] # "ping" /\ pc[c] # "in_run"
    BY <1>1, Zenon DEF InHands
  <1> QED  BY <1>2, <1>4, <1>6, <1>8, <1>9, <1>10, <1>11, <1>12, <1>13, <1>14,
              MoveStep, ZenonT(60)

-----------------------------------------------------------------------------
(* The theorem. *)

\* An enclave without tasks, its agents about to read their barriers.
LEMMA InitInv == ASSUME Init  PROVE IInv
  <1>1. /\ kstate = [t \in Tasks |-> "out"] /\ kcur = [c \in Cpus |-> NoTask]
        /\ chain = [c \in Cpus |-> FALSE] /\ on_cpu = [t \in Tasks |-> FALSE]
        /\ barrier = [t \in Tasks |-> 0] /\ assoc = [t \in Tasks |-> DefaultChan]
        /\ channel = [q \in Cpus |-> << >>] /\ stale = [c \in Cpus |-> FALSE]
        /\ agentRuns = [c \in Cpus |-> TRUE] /\ cfs = [c \in Cpus |-> FALSE]
    BY Constants, Zenon DEF Init, KInit
  <1>2. /\ known = {} /\ task = [t \in Tasks |-> NewTask] /\ rq = [c \in Cpus |-> << >>]
        /\ current = [c \in Cpus |-> NoTask] /\ pc = [c \in Cpus |-> "loop"]
        /\ nxt = [c \in Cpus |-> NoTask] /\ dest = [c \in Cpus |-> NoCpu]
        /\ rr = DefaultChan /\ on_idle = [c \in Cpus |-> FALSE] /\ fault = FALSE
    BY Zenon DEF Init
  <1>3. << >> \in Seq(Mess) /\ << >> \in Seq(Tasks) /\ 0 \in Int /\ DOMAIN << >> = {}
    OBVIOUS
  <1>4. KTypes
    BY <1>1, <1>3, Constants, Zenon DEF KTypes
  <1>5. STypes
    <2>1. NewTask \in FifoTasks
      BY DEF NewTask, FifoTasks, RunStates
    <2>2. "loop" \in PCs
      BY Zenon DEF PCs
    <2>3. task \in [Tasks -> FifoTasks]
      BY <1>2, <2>1, Zenon
    <2> QED  BY <1>2, <1>3, <2>2, <2>3, Constants, ZenonT(60) DEF STypes, FifoTasks
  <1>6. "loop" \notin Migrating /\ "loop" \notin InHands
    BY Zenon DEF Migrating, InHands
  <1>7. \A c \in Cpus : pc[c] = "loop" /\ channel[c] = << >> /\ rq[c] = << >>
    BY <1>1, <1>2, Zenon
  <1>8. Elems(<< >>) = {} /\ Order(<< >>) /\ \A t : ~Contains(<< >>, t)
    BY <1>3, Zenon DEF Elems, Order, Contains
  <1>9. Mail
    <2>1. \A q \in Cpus : Unread(q) = {}
      BY <1>6, <1>7, <1>8, Zenon DEF Unread
    <2> QED  BY <1>7, <1>8, <2>1, Zenon DEF Mail
  <1>10. ASSUME NEW t \in Tasks  PROVE Booked(t)
    <2>1. kstate[t] = "out" /\ assoc[t] = DefaultChan /\ t \notin known
      BY <1>1, <1>2, Zenon
    <2>2. Home(t) = DefaultChan
      BY <2>1, Zenon DEF Home
    <2>3. ASSUME NEW c \in Cpus  PROVE ~Holds(c, t)
      <3>1. current[c] # t
        BY <1>2, Constants, Zenon
      <3> QED  BY <1>6, <1>7, <1>8, <3>1, Zenon DEF Holds
    <2> QED  BY <2>1, <2>2, <2>3, Zenon DEF Booked
  <1>11. ASSUME NEW c \in Cpus  PROVE Running(c) /\ Awake(c)
    <2>1. agentRuns[c] /\ ~chain[c] /\ kcur[c] = NoTask /\ pc[c] = "loop" /\ pc[c] \notin InHands
      BY <1>1, <1>6, <1>7, Zenon
    <2>2. \A t \in Tasks : kcur[c] # t
      BY <2>1, Constants, Zenon
    <2>3. Running(c)
      BY <2>1, <2>2, Zenon DEF Running
    <2>4. Awake(c)
      BY <2>1, Zenon DEF Awake
    <2> QED  BY <2>3, <2>4, Zenon
  <1>12. Migration
    BY <1>6, <1>7, Zenon DEF Migration
  <1> QED  BY <1>4, <1>5, <1>9, <1>10, <1>11, <1>12, ZenonT(60) DEF IInv

\* Every step of an agent that fails no CHECK keeps the invariant.
LEMMA AgentStep ==
    ASSUME IInv, ~fault, NEW c \in Cpus, Agent(c), ~fault'
    PROVE  IInv'
  <1>1. CASE ReadBarrier(c) \/ ChannelEmpty(c) \/ DropMessage(c) \/ TaskNew(c)
    BY <1>1, ReadBarrierStep, ChannelEmptyStep, DropMessageStep, TaskNewStep, Zenon
  <1>2. CASE TaskRunnable(c)
    <2>1. CASE task[Peek(c).task].cpu = NoCpu
      BY <1>2, <2>1, WakeupNewStep, Zenon
    <2>2. CASE task[Peek(c).task].cpu # NoCpu
      BY <1>2, <2>2, WakeupStep, Zenon
    <2> QED  BY <2>1, <2>2, Zenon
  <1>3. CASE TaskYield(c) \/ TaskPreempted(c)
    <2>1. /\ pc[c] = "drain" /\ channel[c] # << >> /\ Peek(c).type # "NEW" /\ Peek(c).task \in known
          /\ \E boost \in BOOLEAN : OffCpuRequeue(c, boost)
      BY <1>3, Zenon DEF TaskYield, TaskPreempted, Dispatching, At
    <2> QED  BY <2>1, OffCpuRequeueStep, Zenon
  <1>4. CASE TaskBlocked(c) \/ TaskSwitchto(c)
    <2>1. /\ pc[c] = "drain" /\ channel[c] # << >> /\ Peek(c).type # "NEW" /\ Peek(c).task \in known
          /\ \E fsw : OffCpuBlock(c, fsw)
      BY <1>4, Zenon DEF TaskBlocked, TaskSwitchto, Dispatching, At
    <2> QED  BY <2>1, OffCpuBlockStep, Zenon
  <1>5. CASE TaskDeparted(c) \/ TaskDead(c)
    BY <1>5, TaskDepartedStep, TaskDeadStep, Zenon
  <1>6. CASE \/ MigrateAssociate(c) \/ MigrateSetQueued(c) \/ MigratePush(c)
             \/ MigratePing(c) \/ MigrateReturn(c)
    BY <1>6, MigrateAssociateStep, MigrateSetQueuedStep, MigratePushStep, MigratePingStep,
       MigrateReturnStep, ZenonT(60)
  <1>7. CASE \/ PickNext(c) \/ LocalYield(c) \/ WaitOffCpu(c)
             \/ CommitSucceeds(c) \/ CommitFails(c) \/ AgentWakes(c)
    BY <1>7, PickNextStep, LocalYieldStep, WaitOffCpuStep, CommitSucceedsStep, CommitFailsStep,
       AgentWakesStep, ZenonT(60)
  <1> QED  BY <1>1, <1>2, <1>3, <1>4, <1>5, <1>6, <1>7, ZenonT(60) DEF Agent

\* What NoSleepOnWork says of an agent that sleeps is what it relied on.
LEMMA InvNoSleep == ASSUME IInv  PROVE NoSleepOnWork
  <1> SUFFICES ASSUME NEW c \in Cpus, ~agentRuns[c], ~stale[c], ~PingComing(c)
               PROVE  IF pc[c] = "asleep"
                        THEN /\ channel[c] = << >>
                             /\ (rq[c] = << >> /\ current[c] = NoTask) \/ on_idle[c]
                        ELSE kcur[c] # NoTask
    BY Zenon DEF NoSleepOnWork
  <1>1. Running(c) /\ Awake(c)
    BY Zenon DEF IInv
  <1>2. CASE pc[c] = "asleep"
    <2>1. channel[c] = << >>
      BY <1>1, <1>2, Zenon DEF Awake
    <2>2. (rq[c] = << >> /\ current[c] = NoTask) \/ on_idle[c]
      BY <1>1, <1>2, Zenon DEF Awake
    <2> QED  BY <1>2, <2>1, <2>2, Zenon
  <1>3. CASE pc[c] # "asleep"
    <2>1. pc[c] = "in_run"
      BY <1>1, <1>3, Zenon DEF Running
    <2> QED  BY <1>1, <1>3, <2>1, Zenon DEF Awake
  <1> QED  BY <1>2, <1>3, Zenon

\* A process in which no CHECK failed has had none fail before.
LEMMA AliveStep ==
    ASSUME Alive, [Next]_vars, Returns = FALSE
    PROVE  Alive'
  <1> SUFFICES ASSUME ~fault'  PROVE IInv'
    BY Zenon DEF Alive
  <1>1. CASE Kernel
    <2>1. UNCHANGED svars
      BY <1>1, Zenon DEF Kernel
    <2>2. ~fault
      BY <2>1, Zenon DEF svars
    <2> QED  BY <1>1, <2>2, KernelStep, Zenon DEF Alive
  <1>2. ASSUME NEW c \in Cpus, Agent(c)  PROVE IInv'
    <2>1. ~fault
      BY <1>2, Zenon DEF Agent, At, Dispatching, ReadBarrier, ChannelEmpty, DropMessage, TaskNew,
         TaskRunnable, TaskYield, TaskPreempted, TaskBlocked, TaskSwitchto, TaskDeparted, TaskDead,
         MigrateAssociate, MigrateSetQueued, MigratePush, MigratePing, MigrateReturn, PickNext,
         LocalYield, WaitOffCpu, CommitSucceeds, CommitFails, AgentWakes
    <2> QED  BY <1>2, <2>1, AgentStep, Zenon DEF Alive
  <1>3. CASE UNCHANGED vars
    <2>1. UNCHANGED kvars /\ UNCHANGED svars
      BY <1>3, Zenon DEF vars
    <2>2. UNCHANGED <<kstate, kcur, chain, on_cpu, barrier, assoc, channel, stale, agentRuns, cfs>>
      BY <2>1, Zenon DEF kvars
    <2>3. ~fault
      BY <2>1, Zenon DEF svars
    <2>4. IInv /\ cfs' \in [Cpus -> BOOLEAN] /\ on_cpu' \in [Tasks -> BOOLEAN]
      BY <2>2, <2>3, Zenon DEF Alive, IInv, KTypes
    <2> QED  BY <2>1, <2>2, <2>4, QuietKernel, Zenon
  <1>4. CASE Done
    BY <1>3, <1>4, Zenon DEF Done
  <1> QED  BY <1>1, <1>2, <1>3, <1>4, Zenon DEF Next

\* Inductive: until a CHECK fails, IInv holds.
THEOREM Inductive ==
    ASSUME Returns = FALSE
    PROVE  Spec => []Alive
  <1>1. Init => Alive
    BY InitInv, Zenon DEF Alive
  <1>2. Alive /\ [Next]_vars => Alive'
    BY AliveStep, Zenon
  <1> QED  BY <1>1, <1>2, PTL DEF Spec

\* NoSleepOnWork, as long as no CHECK has failed: no agent sleeps in LocalYield on an
\* unread message or a task it could run, and none that gave its cpu to a task sleeps
\* on an idle cpu, whatever departs, switches to another task, is preempted or taken back.
THEOREM NoSleepOnWorkHolds ==
    ASSUME Returns = FALSE
    PROVE  Spec => [](NoFault => NoSleepOnWork)
  <1>1. Alive => (NoFault => NoSleepOnWork)
    BY InvNoSleep, Zenon DEF Alive, NoFault
  <1> QED  BY <1>1, Inductive, PTL
=============================================================================
