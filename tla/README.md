# A TLA+ verification of the ghOSt userspace schedulers

ghOSt delegates the scheduling decisions of the Linux kernel to userspace *agents*.
This directory models the agents' side, the code under `src/userspace`: what the
schedulers keep and how they react to the kernel's messages, the library below them
(transactions, channels, agent processes), the shared-memory protocols between
applications and agents, and the data structures of the BPF schedulers. TLC checks
the models on small instances; TLAPS proves the safety of four of them, and one
refinement, for all instances. `PROJECT.json` maps each definition to the lines it translates, lists the
runs, the hazards they are there for and the theorems.

## 1. The system

| part | state | operations | interacts with |
|---|---|---|---|
| kernel interface (`lib/ghost.h`; the kernel itself is not in the repository) | task states, barriers, channels, cpus, transactions | task events, `AssociateQueue`, `Commit`, `Run`, `Ping` | everything |
| channels (`lib/channel.*`) | ring of messages, head, tail | `Peek`, `Consume`, `AssociateTask` | kernel, dispatch |
| dispatch and discovery (`lib/scheduler.h`) | task allocator, seqnum per task | `DispatchMessage`, `Task::Advance`, `DiscoverTasks` | channels, schedulers |
| enclave and run requests (`lib/enclave.*`) | transaction per cpu, owner of a sync group, `agent_online` | `Open`, `Submit`, `Commit`, `Complete`, `Abort`, `LocalYield`, `Ping`, `Ready`, hand-over | kernel, schedulers |
| agents and agent processes (`lib/agent.*`, `lib/base.*`) | notifications on futexes, RPC buffer | start, `AgentThread`, `TerminateBegin`/`Complete`, `Rpc`, `RpcHandler` | enclave |
| per-cpu schedulers: FIFO, CFS | task state machines, run queue and current task per cpu | message handlers, migration, load balancing, `FifoSchedule`, `CfsSchedule` | dispatch, run requests |
| global schedulers: centralized FIFO, EDF, Shinjuku, SOL | task state machines, queues or a heap, current and next task per cpu, the global cpu | message handlers, `GlobalSchedule`, `PickNextGlobalCPU`, `SchedParamsCallback` | dispatch, run requests, table |
| priority table (`shared/prio_table.*`, `experiments/shared/prio_table_helper.*`) | items with seqcounts, update stream, overflow counter | `SetSchedItem`, `MarkRunnability`, `MarkUpdatedIndex`, `NextUpdatedIndex` | orchestrators |
| orchestrators (`schedulers/{edf,shinjuku}/*orchestrator*`) | cached items | `RefreshSchedParams`, `SeqCopyParams`, `MakeEngineRunnable` | table, EDF, Shinjuku |
| BPF structures (`lib/queue.bpf.h`, `lib/avl.bpf.h`) | index-linked lists and trees | insert, remove, pop, concat, foreach, first, last | BPF schedulers |
| BPF schedulers (`third_party/bpf`), CFS variants, shared memory, fd server, experiments, tools | | | not modelled, section 6 |

What is hard in it: messages of one task may sit in two channels; an agent decides
on what it read some time ago and is only stopped by a barrier; a task is handed
from one agent to another with no lock over the whole hand-over; commits are
carried out asynchronously, and fail one by one; a higher scheduling class takes
cpus from agents and tasks alike; the global role moves between agents with
nothing but one atomic word; applications and agents share memory through
seqcounts and a lossy stream; one agent process takes over from another that may die
at any instruction. `PROJECT.json` lists these as hazards, at their lines.

## 2. The modules

### GhostKernel (external)

The kernel as the agents rely on it. Each task event appends one message to the
channel the task is associated with and bumps the task's barrier; the message
carries that barrier as its seqnum. An agent's barrier is only compared with the
value last read, so one bit, `stale[c]`, stands for it. The module was read off the
uses in `src/`:

* a commit checks, in this order, that the task exists, that its barrier is the one
  of the transaction, that it is off cpu and that it is runnable (the outcomes that
  `CompleteRunRequest` distinguishes);
* `on_cpu` of the status word clears some time after the message about a task leaving
  its cpu (the spin in `FifoSchedule` and the skip in `GlobalSchedule` are there for
  this);
* an agent that takes its cpu back displaces the task running there. The global
  schedulers' comments expect a `MSG_TASK_PREEMPT` then; `FifoSchedule` runs its
  `current` again as if there were none. `AgentPreempts` lets an instance have either
  or both: the per-cpu instances have both, the global ones the first;
* only the first switch of a SwitchTo chain is announced, and the message ending the
  chain carries `from_switchto` and the cpu;
* a third party may take a task out of ghOSt at any time (`DEPARTED`), and it may come
  back with the same gtid (`lib/scheduler.h` says gtids are kept across incarnations).

`MaxBarrier` bounds the optional events of a task: once its barrier is there it can
only exit. Exits are never bounded, so every behaviour can come to an end.

### PerCpuFifo

`schedulers/fifo/per_cpu`. `known`/`task` are the allocator and its `FifoTask`s, `rq`
and `current` a `CpuState`, `pc`/`nxt`/`dest` an agent thread's place and locals, `rr`
the static iterator of `AssignCpu`. A handler is one action, since only its own agent
touches what it touches; `Migrate`, which hands a task to another agent, is five
(associate, mark queued, push under the mutex, ping, return to `DispatchMessage`).
`FifoSchedule` is `PickNext`, then `LocalYield`, or `WaitOffCpu` and a commit; a commit
that succeeds blocks the agent, and `TaskOnCpu` only happens in `AgentWakes`, when it
runs again. Every `CHECK` on the way, each `GHOST_ERROR` of `CompleteRunRequest` that the
kernel model can produce and the use of a freed task set `fault`.

### Cfs

`schedulers/cfs`. A run queue's mutex protects the queue and the tasks associated with
it; each critical section is one step, except that draining an agent's own channel
takes one step per message while the mutex is held (`pc[c] = "drain"`). The fields of
the scheduler object are one record `sched`, and its methods operators from record to
record; `sched.ok` is false once a `CHECK` or `AssertValidTransition` failed. `vruntime` is
ordered data: what a run adds to it is any value up to `MaxVruntime`, and whether a tick
finds the task over its granularity is a choice, so weights, granularities and
`TaskPriorityChanged` are covered by what they can decide. `SelectTaskRq` may return
any eligible cpu, because it reads the queues' sizes one lock at a time. A read of a
freed task is a nondeterministic value. The kernel's own affinity check on commit is
not modelled.

### CentralizedFifo

`schedulers/fifo/centralized`. One channel that wakes nobody; the global agent polls
it. `GlobalSchedule` is `FindAvailable`, `SkipTask`/`AssignTask` per task, `AssignEnds`,
`TxnSucceeded`/`TxnFailed` per transaction in the order of the cpus, `Requeue` per
yielding task, `EndSchedule`; in between, `CommitTxn` carries an open transaction out,
at any time after it was opened (`CompleteRunRequest` allows for asynchronous commits).
`FindAvailable` looks at all cpus in one step: what it learns may be stale by the
time a transaction commits anyway, so scanning one by one would only reach the
same failures later. A commit to a cpu whose own agent is running ends in
`CPU_UNAVAIL`. `PickNextGlobalCPU` takes any candidate: siblings, L3 and NUMA node
only prefer one. `SwitchTo` is left out, the scheduler has no `TaskSwitchto`.

### GlobalAgent, Orchestrator, Edf, Shinjuku, Sol

`GlobalAgent` is what the three other global schedulers have in common: the loop, the
dispatch of messages, remote commits and the move of the role. That at most one agent
is in the loop at a time is shown in `CentralizedFifo`, for the same protocol; here the
loop is one thread, which moves to the new global cpu when its agent is awake.
`Orchestrator` adds the agent's cache of the priority table: an item's seqcount is
reduced to what `SeqCopyParams` tells apart, is a writer there and did the item change
since it was copied, and the store of the last field and the announcement are one step
of the writer. The memory operations themselves are in `PrioTable`.

* `Edf`: the run queue is the vector of a binary heap, sifted as `UpdateRunqueuePosition`
  does; `sched_deadline`, an estimate, is any value of `Deadlines` whenever
  `CalculateSchedDeadline` runs. Commits are carried out one by one.
* `Shinjuku`: a FIFO per QoS class, both iterations of `GlobalSchedule`, the
  `unschedule_level` that defers taking a task off its cpu, and paused repeatables.
* `Sol`: transactions stay open across rounds; `SyncCpuState` reaps them, from a later
  round, from a message about the task, or, with `Abort`, from `PickNextGlobalCPU`. With no
  `commit_flags` the kernel may commit from `Open` on, before the round submits. The
  topology's preferences are a free choice, and so is the gate on `iterations`.

### RunRequest

Transactions of `lib/enclave`, from `Open` to completion. Sibling agents open the
transactions of all their cpus as one sync group under a lock that they drop before
`CommitSyncRequests`; `sync_group_owner` keeps the next agent out until the commit is
over. One more agent, as the global ones do, opens the transaction of a remote cpu and
completes or aborts it while the kernel claims and commits it when it likes. Its transaction is in
no sync group, so the release of a group's ownership at the end of `Abort` does not happen.

### Notification, AgentProcess

`Notification` is the futex word of `lib/base` with the steps of `WaitForNotification`,
`Notify` (compare-exchange, then `Wake` if a waiter was seen), `Reset` and spurious
wakeups. `AgentProcess` composes eight kinds of them into the life of an agent process:
the parent's constructor, RPC and destructor; the child's main thread, which starts one
agent per cpu, waits for them, makes the enclave ready and, at the end, terminates
them one by one; the RPC thread; the agents' loop with barrier, `Finished()` and
`LocalYield`; `agent_online` and `WaitForOldAgent`. A process may be killed between any two
steps (`Crashes`), and the next one then takes over. `BarrierFirst` chooses between the two
orders in which agent loops in the repository read their barrier and test `Finished()`:
TRUE is the order of one test agent (`TestAgent` of `api_test.cc`, which says "Order is
important"), FALSE that of the schedulers and of the other tests' agents. `MCRuntime`'s
instances have the first; that every wait ends holds of it alone, while the safety theorems of
section 5 cover both. The enclave is empty of tasks. The answer `-ENODEV` to an RPC that meets
a process which is no longer online is in the model and never given: a caller's `Rpc` is
over before the destructor of its `AgentProcess` begins, as C++ lifetimes demand.

### ChannelRing and Fifo, ArrList and Tailq, Avl and SortedSeq

Three data structures, each with the abstract specification it implements and the
refinement mapping: the message ring with indices that wrap (`Wrap` stands for 2^32) and
messages of several slots, padded at the ring's end (the history variable `sent`, which no
guard reads, holds the messages produced and not yet peeked at; it is the abstract queue);
the lists of `lib/queue.bpf.h` and BSD's TAILQ; the AVL trees
of `lib/avl.bpf.h` with cached minimum and maximum and orphans, and a sorted sequence.
Callers hold a lock over a list or tree operation, so each is one step; code and its
mirror image in `avl.bpf.h` are one operator with the side as a parameter.

### PrioTable

Application threads and the agent over the shared table, one shared-memory access
per step. An item keeps its runnable flag and one other field, `deadline`, which is
enough for a copy to be torn. `Cap` cells of the stream, `Retries` probes beyond the
first, the overflow counter `scrape_all`, and the agent's two-step clearing of a cell
are as in the code. The weak compare-exchange may fail spuriously. The EDF and the
Shinjuku orchestrator run the same code here. Memory is sequentially consistent: the
acquire and release orders are not modelled; plain fields read between `read_begin` and
`read_end` may be torn against each other but not within a field. Seqcounts are
unbounded: their 32 bits would have to wrap around within one copy to matter.

### MC modules

`MCPerCpu`, `MCSchedulers`, `MCRuntime` and `MCLiveness` put several instances side by side:
the variable `part` chooses one in the initial state, and the variables of the others
never change, so one run asks the same question of several components. The operators
whose comment begins with "Slip" in the modules are plausible mistakes, used to see that the
properties notice them; no specification uses them.

## 3. The runs

| run | question | instances | states |
|---|---|---|---|
| `PerCpu` | Per-cpu FIFO and CFS: can an order of events make a CHECK fail, put a task in two places or none, leave the books and the kernel apart, or leave an agent asleep on work? | 2 tasks on 2 cpus: FIFO with SwitchTo; FIFO with a higher class on a cpu; CFS with departures, with SwitchTo, with ticks and a higher class; CFS with one task whose affinity changes | 1,106,599 |
| `Liveness` | Per-cpu FIFO, centralized FIFO, CFS: does a runnable task get a cpu? | 1 task, 2 cpus, a higher class on both, departures | 274,450 |
| `CentralizedFifo` | As `PerCpu` for the centralized FIFO; is a message ever dropped, is there one global agent and is it awake, does a queued task overtake another? | 2 tasks, 2 cpus, time slices; departures and returns with a higher class on one cpu, or the role roaming with a higher class on both | 1,028,650 |
| `PrioTable` | Can collisions, overflows and the non-atomic clearing lose an update? Torn copies, elided copies, catching up | 2 threads, 2 items, 1 cell, 1 retry, or 2 field values | 115,756 |
| `MCRuntime` | The library: lost wakeups, wrong answers, two processes scheduling at once, clobbered or aborted transactions, the ring, lists and trees against what they promise | 2 processes on one cpu that may be killed; 1 process with 2 RPC callers; 1 process on 2 cpus; 2 siblings and a global agent; a ring of 4 slots and indices modulo 8; 4 elements in 2 lists; 8 nodes up to height 4, and 5 nodes up to height 2 | 129,205 |
| `MCSchedulers` | EDF, Shinjuku, SOL: as `PerCpu`; is the heap a heap, are deferred unschedules settled, open transactions reaped? | 2 tasks on 2 or 3 cpus with a table that changes, also the deadlines of queued tasks, the role on the move, repeatables and orphans, time slices, SwitchTo and departures; the heap alone with 4 tasks | 1,143,905 |
| `PerCpuFifoDepart` (violated) | Is it safe to migrate after a wakeup, as the comment says? | 1 task, departures at any time | |
| `ArrListConcat` (violated) | Lists, with an empty right list in a concat | 2 elements, 2 lists | |
| `AgentTermination` (violated) | Does TerminateBegin guarantee that the agent wakes to observe it? | 1 process, 2 cpus, the schedulers' order | |
| `EdfHeap` (violated) | The heap, when an item changes its work class while it is copied | 2 tasks, 2 classes, 2 writes | |
| `CfsFreed` (violated) | Does PickNextTask "take care" of a task that died as current? | 2 tasks, 2 cpus, departures | |
| `CfsTime` (violated) | Does min_vruntime_ go back? | 2 tasks, 1 cpu | |

Bounds. Two tasks are what a queue order, a displaced task and a chain need; two
cpus make a migration, a remote commit and a hand-over, three make two commits in a
round; barriers up to `MaxBarrier` give a task its entry and one or more further events
before it exits, so a task can be run, lose the cpu and be run again. One cell with
two items makes every announcement of the other item collide, and `MaxWrites` allows
two updates. Four elements in two lists make every neighbourhood an operation can
meet (none, first, middle, last, only one); eight nodes of height four make every
rotation and both outcomes of a deletion's repair, five nodes of height two several
orphans. Tasks are interchangeable, and the runs that check only safety use that
symmetry. For `PrioTable`, `CentralizedFifo`, `RunRequest` and `AgentProcess` the bounds
do not limit the safety properties, for `PerCpuFifo` not the ones that section 5 names,
and for `ChannelRing` not the refinement, which section 5 proves for all constants. For
the others larger instances were checked once, with no violation: SOL with `MaxBarrier` 3
and CFS on a cpu in both its parts (2.2 million states), CFS with ticks on two cpus (9.37
million), three tasks (305 thousand) and masks of two tasks (1.37 million), the per-cpu
FIFO with SwitchTo, departures and boosts together (1.05 million), the centralized FIFO
with both cpus boosted and `MaxBarrier` 2 (7.9 million), AVL trees of seven nodes with
free keys.

Deadlock is checked in `PerCpu`, `Liveness`, `CentralizedFifo` and `PrioTable`, whose
agents never stop (of the per-cpu FIFO all agents may sleep when no task is runnable and
none has anything to do; its step `Done` stands for that). In the others the system may end:
processes exit, all tasks have left.

Fairness. Agents that are not blocked keep running (an agent has the highest
priority, and each is on its own cpu); the kernel finishes its context switches and
takes the cpu from a task when a higher class is there; open transactions get
committed (`CommitRunRequests` waits for it); client threads and the higher class let go
of a cpu some time. The last is an assumption about the workload: with FIFO and no
time slice nothing else would take a cpu from a task. For the same reason
`RunnableTaskRuns` assumes that the higher class stops coming back. In `PrioTable` the
agent keeps polling and a thread that began an update finishes it. In `MCRuntime` the
threads of a process that was not killed keep running, and interrupts (spurious futex
returns) stop some time; siblings of a sync group keep running and the kernel
commits what it has claimed.

## 4. What the runs found

* **Migration and departure** (`PerCpuFifoDepart`). `Migrate` CHECKs an association that
  fails if the task departed after the message being dispatched. The comment rules such
  messages out. The `PerCpu` and `Liveness` runs therefore let only tasks depart that are not
  waiting for or in a migration, and with that restriction nothing else goes wrong.
* **`arr_list_concat` with an empty right list** (`ArrListConcat`) clears `last` of the left one.
* **Termination** (`AgentTermination`). With the schedulers' loop, which tests `Finished()`
  before it reads its barrier, a `TerminateBegin` in between leaves the agent asleep.
  `MCRuntime` shows that the order of `TestAgent`, barrier first, works.
* **EDF's heap** (`EdfHeap`). A copy that fails stores the new QoS all the same.
* **A freed task is read** (`CfsFreed`) by `UpdateMinVruntime` after `PickNextTask` freed it.
* **min_vruntime_ goes back** (`CfsTime`): it is computed from the previous task.

Met while modelling, without a comment or a test that says otherwise: a task that
departs from its migrated channel and returns announces itself in the default channel
of the per-cpu FIFO; read first, that `MSG_TASK_NEW` is dropped, and the task is freed and
never scheduled. `iterations_` of the centralized FIFO is never incremented, so its role
may move with no scheduling in between. Shinjuku's `TaskNew` dereferences the
orchestrator of a task that has none; its `paused_repeatables_` keep a task that
departs or dies, a paused repeatable that blocks is enqueued, `kCouldUnschedule` is reset
in iteration 0, and a queued task whose QoS changes stays in the queue of its old class. A
repeatable of EDF or Shinjuku that goes idle before its item was read stays paused.
SOL's `TaskDeparted` CHECKs `blocked()`, and its `TaskSwitchto` assumes there are no time
slices; the instances keep to that. In CFS a commit that fails because the affinity
changed keeps the task current and commits it again, to an ineligible cpu; and
a task that returns before its deferred free has its `MSG_TASK_NEW` dropped (left out).


## 5. What is proved

TLAPS proves the safety of four modules, that the agents of a fifth lose no wakeup, and
that a sixth implements its abstract specification, for every value of their constants.
The assumptions are those named in the modules (`PrioTableAssumption`, `KernelAssumption`,
`CentralizedAssumption`, `FifoAssumption`, `ProcessAssumption`, `RingAssumption`: bounds are naturals, the null values are no members of
the sets they stand outside of, a process's cpus are listed once each, the size of the ring
divides the range of its counters and is less; `RunRequest` has none). Each proof is of one
inductive invariant `IInv`, with `Init => IInv`, `IInv /\ [Next]_vars => IInv'` by one lemma per
action, and `IInv =>` the property. But for the ring's, which quantifies over unbounded
counters, every `IInv` was checked with TLC on the runs' instances before it was proved.

### PrioTable_proofs

`Invariance` (`Spec => []IInv`), and from it `TypeCorrect`, `UpdatesAreNotLost`, `ElisionCorrect`,
`WritersExclude`, `QuietAgreement` (invariants) and `CopiesAreWhole` (an action property), for any
number of writers, items, cells, retries and any field values.

`NoLostUpdate` is not inductive: when the agent leaves an item because its seqcount is
the cached one, or because the copy failed, something must say that what it leaves is
still announced. `IInv` adds

* `ReaderOK`: the agent's locals fit its place (a loop counter is below the bound, the
  cell about to be cleared holds an index, `sid <= last`);
* `LockOK`: a seqcount is odd exactly while some thread is storing into its item;
* `SeqOK`: the cached seqcount and the one at `read_begin` never exceed the table's, so a
  seqcount that moved cannot come back to a value the agent has seen;
* `StaleIsAnnounced`: a copy that `read_end` will refuse is of an item that is, or will
  be, announced again, which is what `RefreshSchedParam`'s comment relies on;
* `LocalOK`: a copy that `read_end` would accept agrees with the item so far.

The agent's own unlocked store (`MakeEngineRunnable`) does no harm to `LocalOK` and
`ElisionIsSafe`: it happens only between two refreshes, and writes the same bit to table
and cache.

### CentralizedFifo_steps, CentralizedFifo_proofs

`Inductive`, and from it `TypeCorrect`, `NoFaultHolds`, `QueuesMatchStatesHolds`, `BooksAgreeHolds`,
`NothingDroppedHolds`, `OneGlobalAgentHolds`, `GlobalAgentAwakeHolds` and, as an action property,
`FifoOrderHolds`, for any tasks, cpus, higher-class cpus and barrier bound, with and without
time slices, departures and returns: all that the run `CentralizedFifo` checks.

That no CHECK fails depends on what may still be in the channel, which no property of
the run speaks of. `IInv` has five parts:

* `Roles`: only the agent of `global_cpu` is between dispatching and the end of a round; it
  is awake, or its barrier moved, or the agent that made it global has yet to ping it.
* `Rounds`: cpus are available and transactions under way only in the middle of a round,
  and the global cpu has no current task then.
* `Places`: the run queue lists the `kQueued` tasks once each, `yielding` the `kYielding` ones;
  a current task is `kOnCpu`, or `kRunnable` while its transaction is under way.
* `Switches`: a task that a cpu is switched to has no unread message, and is that cpu's
  current task or one that the scheduler displaced; a current task is on its cpu, or there is
  an unread message about it, or its transaction has not put it there.
* `Mail`: the unread messages of a task lead, by one legal event each, from what the
  scheduler knows of it (unknown, blocked, runnable) to what it is in the kernel; seqnums
  increase and the last is the task's barrier; a message that takes a task off its cpu is
  the first unread one of its task. A task without unread messages is in the kernel what the
  scheduler takes it for. This is why the CHECKs of the handlers and of `Task::Advance` hold.

`_steps` defines it, with lemmas on what appending to, taking from and erasing in a queue or
channel does to it, and has the kernel's steps, the commits and the agents' loop; `_proofs` has
the handlers, `GlobalSchedule` and the theorems. A kernel event is one lemma (`KernelEvent`)
with the legality of the event as its hypothesis; a handler is one lemma (`HandlerStep`) with
what it does to the task's state.

### PerCpuFifo_proofs

`Inductive` and `NoSleepOnWorkHolds`: for any tasks, cpus and bounds, for tasks that depart at
any time and switch to one another, and for both answers to `AgentPreempts`, no agent sleeps on
work as long as no CHECK has failed. Two things are assumed. A task that departed does
not come back (`Returns = FALSE`, as in the runs: section 4 tells what its `MSG_TASK_NEW` meets).
And a failed CHECK ends the process, so `Alive`, which is what is inductive, says that `IInv`
holds until then; with departures at any time CHECKs do fail (`PerCpuFifoDepart`).

`NoSleepOnWork` is about agents that do not run, yet whether it holds is settled by others:
whoever sends a message, migrates a task or ends a SwitchTo chain must ping the right agent
after it has changed what that agent saw. `IInv` is there to say which agent is the right one:

* `Mail`: the unread messages of a task are all in one channel, `Home(t)`: the default channel
  until `Migrate` has associated the task, its cpu's from then on. A new task's message comes
  first and a departed or dead one's last, so nothing is sent to an agent that cannot know
  the task, and the message that ends a SwitchTo chain is not dropped with its ping;
* `Booked`: the kernel's association is `Home(t)`, also between `AssociateTask` and the store to
  `task->cpu`, and only the agent of `task->cpu` has the task queued, current or in hand;
* `Migration`: only the agent of the default channel is in `Migrate`, with a `MSG_TASK_NEW` or
  `MSG_TASK_WAKEUP` at `Peek`, and the cpu that it chose;
* `Running`: an agent blocked in a commit has one task on its cpu, its own unless there is
  a SwitchTo chain, and that task runs nowhere else;
* `Awake`: an agent past its message loop has an empty channel or a barrier that moved, and one
  that yields has no task, or `RTLA_ON_IDLE`, or a ping on its way.

The proof has frame lemmas for the books (`Kept`, `BooksKept`), for the messages after a
message is sent (`PostMail`), consumed (`TakeMail`) or handed over (`HandoverMail`) and for the
other agents' sleep (`AgentAwake`), then one lemma per action, several by way of
`KernelEvent`, `HandlerStep` and `MoveStep`. TLC checked `Alive` beforehand, with one and
with two tasks on two cpus, departures at any time and SwitchTo.

### RunRequest_proofs

`Inductive`, `TypeCorrect`, `FieldsAreNotClobberedHolds`, `NoCheckFailsHolds` and
`AbortedNeverRunsHolds`, for any number of siblings; the run `MCRuntime` checks them on two
siblings, the CHECKs as the second half of `NoCheckFailsAnywhere`.
`IInv` says, per agent and transaction, what an agent at a given place with a given
rest of its loop may rely on (`Claims`), that a transaction has at most one owner and one
without was committed (`Owners`), that the lock is held exactly while a group is opened
(`Locking`), that a loop that goes on has something left (`Loops`), and the state of the
remote transaction at each place of the global agent (`Remote`). `NotMine` is the lemma that
does most of the work: an agent's claims on a transaction it does not own are empty, so
a step on it by its owner, by the kernel or by whoever takes it over is of no concern.

### AgentProcess_steps, AgentProcess_proofs

`Inductive`, `TypeCorrect`, `NoLostWakeupHolds`, `NoCheckFailsHolds`, `RpcAnswersItsCallerHolds`
and `OneProcessSchedulesHolds`, for any number of successive processes, cpus and RPC
callers, with and without crashes and in both orders of the agents' loop. They are
`NobodyOversleeps`, the first half of `NoCheckFailsAnywhere`, `RpcAnswers` and `OneSchedules` of the run
`MCRuntime`. The parts of `IInv`:

* `Shapes`, `Phased`, `Waits`: a thread inside a notification's operation is at the label of
  that notification and, in Wait, saw to it that the word is not `kNoWaiter`; with
  `NoLostWakeup` these are preserved by every operation of `Notification`, whoever calls it.
* `Parents`, `Manned`: the place of the parent and of each agent relative to the main
  thread's; an attached agent is on its cpu until it is gone, and every agent is attached
  once the main thread has waited for them.
* `Readies`, `Signals`: whether each notification of each agent was posted is a function of
  the main thread's place and loop index. `Notify`'s CHECK that nobody notified before
  follows.
* `Mutual`, `Calls`: `rpc_mutex_` is held by the client inside `Rpc`, and `rpc_pending_` and
  `rpc_done_` are in one of four situations (quiet, asked, handled, answered), each with the
  places at which the RPC thread can be; in the last the answer is to the present request.
* `Succession`, `OneProcessSchedules`: one process starts at a time, and once one of its agents is
  past `WaitForOldAgent` nobody is online until it is.

The proof first shows what each operation of `Notification` keeps (`Kept`: which threads and
words a step leaves alone), then, per kind of thread, a frame lemma (`RpcFrame`,
`ClientFrame`, `ParentFrame`, `MainFrame`, `AgentFrame`) that reduces the invariant after a
step to the parts that thread takes part in, then one lemma per action.

### ChannelRing_proofs

`RingInductive` and `RingImplementsFifo`: with `sent` as the queue, every step of the ring is a step
of `Fifo` or a stutter, for any width of the counters, any ring size that divides it and any
message lengths. `Produce` is the kernel's side, as `Peek` and `Consume` suppose it. The counters
wrap, so `IInv` says that there are counters `T` and `H` that do not, at most a ring apart, of
which head and tail are the remainders, and a counter `pos[i]` for each message not yet seen:

* `Counters`: head and tail are `T % Wrap` and `H % Wrap`, and a peeked message is the slot at `T`;
* `Placed`: message `i` lies in the slot of `pos[i]`, after the one before it and before `H`;
* `Linked`: from what was seen, AgentThread comes to each message in turn and then to the head,
  past at most one padding in between (a `MSG_NOP`, which `DispatchMessage` ignores).

The division lemmas at its start (`Unique`, `MaskWrapped`, `ModDiffers`) say that masking a wrapped
counter is masking the unwrapped one, and that counters less than a ring apart have
different slots, so `Produce` does not overwrite what was not consumed.

### What stays with TLC

* Liveness (`RunnableTaskRuns`, `EventuallyFresh`, `WaitsEnd`, `OpensComplete`): TLAPS 1.4.5 has no
  support for fairness and `ENABLED`.
* `StructuresRefine` and `StructuresAreSound`: what a walk along the links of a list, or a
  recursive function of a tree, computes for every structure needs induction over data, which
  the installed provers cannot instantiate.
* That no CHECK of the per-cpu FIFO fails when only settled tasks depart, and that its queues
  and books agree: `PerCpuFifo_proofs` says where messages are, not yet what they say.
* The other schedulers. Their invariants would have the shape of these two: `Places`,
  `Switches` and `Mail` once more, with a channel per cpu for CFS (where a task's messages may be
  in two channels) and with the table and open transactions for EDF, Shinjuku and SOL. `Edf`'s
  heap is written with recursive operators.

## 6. Not modelled

* The CFS variants (`cfs_mem`, `cfs_ipc`): copies of CFS with other inputs to load balancing.
* The BPF schedulers (flux, biff, CFS): they run inside the kernel's pick path, whose
  locking is not in the repository. Their data structures are modelled.
* Task discovery at a hand-over: `AgentProcess` models the hand-over of an enclave
  without tasks.
* Debug RPCs of the schedulers, topology parsing, status-word allocation, creation and
  configuration of enclaves through ghostfs, shared-memory files, the fd server, logging,
  command-line and tracing tools, the experiments' load generators and measurements.
  They hold no state that the properties tell apart, or are pure I/O.

`PROJECT.json` has the list with reasons. The mapped lines are a small share of all lines
below `src/`, most of which are generated kernel headers (`vmlinux` alone has more than a
hundred thousand lines).
