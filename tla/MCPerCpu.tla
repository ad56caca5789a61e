------------------------------ MODULE MCPerCpu ------------------------------
(***************************************************************************)
(* Small instances of the schedulers with one agent and one run queue per  *)
(* cpu, PerCpuFifo and Cfs, for TLC.  The instances share the kernel and   *)
(* the agents' threads; the initial state chooses one of them, and the     *)
(* variables of the others never change.                                   *)
(***************************************************************************)
EXTENDS GhostKernel, TLC

CONSTANTS t1, t2,       \* the tasks of most instances
          v1,           \* of the one with a single task
          NoCpu,
          CfsCpus,      \* the cpus a higher class competes for
          Parts         \* the instances to look at

VARIABLES part,
          pc, nxt, dest, on_idle,                 \* the agents' threads
          known, task, rq, current, rr, fault,    \* PerCpuFifo
          sched, work, kaffinity                  \* Cfs

Symmetric == Permutations({t1, t2})

\* TLC evaluates a constant definition of a module that is only extended once,
\* with this module's constants; this keeps it from doing so below.
SharedKernel == INSTANCE GhostKernel

\* FIFO: SwitchTo.
F == INSTANCE PerCpuFifo WITH Departures <- "settled", Returns <- FALSE, SwitchTo <- "assigned",
                              CfsCpus <- {}, AgentPreempts <- BOOLEAN
\* FIFO: a higher class that competes for a cpu.
FBoosts == INSTANCE PerCpuFifo WITH Departures <- "settled", Returns <- FALSE,
                                    SwitchTo <- "none", MaxBarrier <- 2,
                                    AgentPreempts <- BOOLEAN

\* CFS: tasks that leave the enclave.
C == INSTANCE Cfs WITH MaxBarrier <- 2, Departs <- TRUE, SwitchTo <- FALSE, CfsCpus <- {},
                       AgentPreempts <- {FALSE}, Ticks <- FALSE, Masks <- {Cpus},
                       MaxVruntime <- 0
\* CFS: SwitchTo.
CSwitch == INSTANCE Cfs WITH MaxBarrier <- 2, Departs <- FALSE, SwitchTo <- TRUE, CfsCpus <- {},
                             AgentPreempts <- {FALSE}, Ticks <- FALSE, Masks <- {Cpus},
                             MaxVruntime <- 0
\* CFS: a task whose affinity changes.
CMasks == INSTANCE Cfs WITH Tasks <- {v1}, MaxBarrier <- 3, Departs <- TRUE, SwitchTo <- FALSE,
                            CfsCpus <- {}, AgentPreempts <- {FALSE}, Ticks <- FALSE,
                            Masks <- {Cpus, {1}}, MaxVruntime <- 0
\* CFS: ticks, and a higher class that competes for a cpu.
CTicks == INSTANCE Cfs WITH MaxBarrier <- 1, Departs <- FALSE, SwitchTo <- FALSE,
                            AgentPreempts <- BOOLEAN, Ticks <- TRUE, Masks <- {Cpus},
                            MaxVruntime <- 0
\* CFS: one cpu, and tasks that are charged for their runs.
COneCpu == INSTANCE Cfs WITH Cpus <- {0}, Channels <- {0}, MaxBarrier <- 3, Departs <- FALSE,
                             SwitchTo <- FALSE, CfsCpus <- {}, AgentPreempts <- {FALSE},
                             Ticks <- FALSE, Masks <- {{0}}, MaxVruntime <- 2

fvars == <<known, task, rq, current, rr, fault>>
cvars == <<sched, work, kaffinity>>

NoFifo == /\ known = {} /\ task = << >> /\ rq = << >> /\ current = << >>
          /\ rr = DefaultChan /\ fault = FALSE
NoCfs == sched = << >> /\ work = << >> /\ kaffinity = << >>

Init ==
    /\ part \in Parts
    /\ CASE part = "fifo"     -> F!Init /\ NoCfs
         [] part = "boosts"   -> FBoosts!Init /\ NoCfs
         [] part = "cfs"      -> C!Init /\ NoFifo
         [] part = "switchto" -> CSwitch!Init /\ NoFifo
         [] part = "masks"    -> CMasks!Init /\ NoFifo
         [] part = "ticks"    -> CTicks!Init /\ NoFifo
         [] part = "onecpu"   -> COneCpu!Init /\ NoFifo

Fifo == /\ \/ part = "fifo" /\ F!Next
           \/ part = "boosts" /\ FBoosts!Next
        /\ UNCHANGED <<part, cvars>>

Cfs == /\ \/ part = "cfs" /\ C!Next
          \/ part = "switchto" /\ CSwitch!Next
          \/ part = "masks" /\ CMasks!Next
          \/ part = "ticks" /\ CTicks!Next
          \/ part = "onecpu" /\ COneCpu!Next
       /\ UNCHANGED <<part, fvars>>

Next == Fifo \/ Cfs

vars == <<kvars, part, pc, nxt, dest, on_idle, fvars, cvars>>

Spec == Init /\ [][Next]_vars

-----------------------------------------------------------------------------
(* Properties. *)

\* Every variable of the scheduler looked at has its type.
TypesOK ==
    /\ part = "fifo"     => F!TypeOK
    /\ part = "boosts"   => FBoosts!TypeOK
    /\ part = "cfs"      => C!TypeOK
    /\ part = "switchto" => CSwitch!TypeOK
    /\ part = "masks"    => CMasks!TypeOK
    /\ part = "ticks"    => CTicks!TypeOK

\* No CHECK of the schedulers fails, no freed task is used by a handler, no state
\* transition is one that CFS's AssertValidTransition refuses, and no commit ends in
\* a state that CompleteRunRequest calls unexpected, whatever the order in which
\* events reach the agents and agents reach each other's queues.
NoFault == IF part \in {"fifo", "boosts"} THEN ~fault ELSE sched.ok

\* A task is on at most one run queue or migration queue, that of its cpu, exactly
\* when its state says so, and is some cpu's current one exactly when its state says
\* so: two agents never hold it, however it was handed over, stolen or freed.
QueuesMatchStates ==
    /\ part = "fifo"     => F!QueuesMatchStates
    /\ part = "boosts"   => FBoosts!QueuesMatchStates
    /\ part = "cfs"      => C!QueuesMatchStates
    /\ part = "switchto" => CSwitch!QueuesMatchStates
    /\ part = "masks"    => CMasks!QueuesMatchStates
    /\ part = "ticks"    => CTicks!QueuesMatchStates

\* When every message about a task has been consumed, the agents' books agree with
\* the kernel: a runnable task waits at the cpu it is associated with, a running one
\* is the one that cpu's agent committed, a task that left was freed or, in CFS, is
\* about to be.
BooksAgree ==
    /\ part = "fifo"     => F!BooksAgree
    /\ part = "boosts"   => FBoosts!BooksAgree
    /\ part = "cfs"      => C!BooksAgree
    /\ part = "switchto" => CSwitch!BooksAgree
    /\ part = "masks"    => CMasks!BooksAgree
    /\ part = "ticks"    => CTicks!BooksAgree

\* No agent sleeps on work: with nothing to wake it, it has no unread message, no
\* task to run and none to migrate, or the kernel returns to it on idle; blocked in
\* a commit that succeeded, the cpu it gave away is not idle.
NoSleepOnWork ==
    /\ part = "fifo"     => F!NoSleepOnWork
    /\ part = "boosts"   => FBoosts!NoSleepOnWork
    /\ part = "cfs"      => C!NoSleepOnWork
    /\ part = "switchto" => CSwitch!NoSleepOnWork
    /\ part = "masks"    => CMasks!NoSleepOnWork
    /\ part = "ticks"    => CTicks!NoSleepOnWork

-----------------------------------------------------------------------------
(* What the comments of cfs_scheduler.cc say, and the code does not do. *)

\* UpdateMinVruntime reads cs->current, of which HandleTaskDone says: "if cs->current
\* == task, then we will take care of it in PickNextTask".
NoFreedTaskIsRead == ~sched.freed

\* UpdateMinVruntime: "if curr is immediately placed back into the rq, we don't go
\* back in time wrt vruntime".
TimeGoesOn ==
    [][\A c \in DOMAIN pc : sched'.min_vruntime[c] >= sched.min_vruntime[c]]_vars
=============================================================================
