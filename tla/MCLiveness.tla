----------------------------- MODULE MCLiveness -----------------------------
(***************************************************************************)
(* Liveness of the schedulers PerCpuFifo, CentralizedFifo and Cfs, on      *)
(* small instances for TLC.  The instances share the kernel; the initial   *)
(* state chooses one of them, and the variables of the others never        *)
(* change.                                                                 *)
(***************************************************************************)
EXTENDS PerCpuFifo, TLC

CONSTANTS t1, Global,
          Parts         \* the schedulers to look at

VARIABLES part,
          run_queue, yielding, global_cpu, target, available, txn,  \* CentralizedFifo
          sched, work, kaffinity                                    \* Cfs

\* TLC evaluates a constant definition of a module that is only extended once,
\* with this module's constants; these keep it from doing so below.
SharedFifo == INSTANCE PerCpuFifo
SharedKernel == INSTANCE GhostKernel

G == INSTANCE CentralizedFifo WITH Channels <- {Global}, DefaultChan <- Global, MaxBarrier <- 2,
                                   FirstGlobal <- 0, TimeSlice <- TRUE, Departs <- FALSE
C == INSTANCE Cfs WITH MaxBarrier <- 2, Departs <- TRUE, SwitchTo <- FALSE, Ticks <- FALSE,
                       Masks <- {Cpus, {1}}, MaxVruntime <- 0

gvars == <<run_queue, yielding, global_cpu, target, available, txn>>
cvars == <<sched, work, kaffinity>>

NoGlobal == /\ run_queue = << >> /\ yielding = << >> /\ global_cpu = 0 /\ target = << >>
            /\ available = {} /\ txn = << >>
NoCfs == sched = << >> /\ work = << >> /\ kaffinity = << >>
NoThreads == nxt = << >> /\ dest = << >> /\ on_idle = << >>

MCInit ==
    /\ part \in Parts
    /\ CASE part = "fifo" -> Init /\ NoGlobal /\ NoCfs
         [] part = "global" -> /\ G!Init /\ NoThreads /\ rq = << >> /\ rr = 0 /\ NoCfs
         [] part = "cfs" -> /\ C!Init /\ NoGlobal /\ known = {} /\ task = << >> /\ rq = << >>
                            /\ current = << >> /\ rr = 0 /\ fault = FALSE

\* What the other schedulers own.
NotFifo == UNCHANGED <<part, gvars, cvars>>
NotGlobal == UNCHANGED <<part, nxt, dest, on_idle, rq, rr, cvars>>
NotCfs == UNCHANGED <<part, known, task, rq, current, rr, fault, gvars>>

MCNext ==
    \/ part = "fifo" /\ Next /\ NotFifo
    \/ part = "global" /\ G!Next /\ NotGlobal
    \/ part = "cfs" /\ C!Next /\ NotCfs

mcvars == <<vars, part, gvars, cvars>>

\* A step of the chosen scheduler's agent of c, and of its transaction.
AgentStep(c) ==
    \/ part = "fifo" /\ Agent(c) /\ NotFifo
    \/ part = "global" /\ G!Agent(c) /\ NotGlobal
    \/ part = "cfs" /\ C!Agent(c) /\ NotCfs
CommitStep(c) == part = "global" /\ G!CommitTxn(c) /\ NotGlobal

\* A kernel event leaves every scheduler alone.
Quiet == UNCHANGED <<svars, part, gvars, cvars>>

\* The kernel runs every agent that is not blocked, commits open transactions,
\* finishes its context switches, and takes the cpu from a task when a higher class
\* is there; that class and the client threads let go of a cpu some time.
FairSpec ==
    /\ MCInit /\ [][MCNext]_mcvars
    /\ \A c \in Cpus : /\ WF_mcvars(AgentStep(c))
                       /\ WF_mcvars(CommitStep(c))
                       /\ WF_mcvars(KPreempt(c) /\ Quiet)
                       /\ WF_mcvars(KCfsLeaves(c) /\ Quiet)
                       /\ WF_mcvars(KExit(c) /\ Quiet)
    /\ \A t \in Tasks : WF_mcvars(KOffCpu(t) /\ Quiet)

\* A runnable task gets a cpu, or leaves: no message order, failed commit, missed
\* ping, migration or move of the global role makes the agents forget it, as long as
\* the higher class does not keep coming back and, in the per-cpu FIFO, no CHECK
\* fails and no task returns before its departure was read.
RunnableTaskRuns ==
    /\ \A c \in Cpus : <>[](~cfs[c])
    /\ [](part = "fifo" => NewTaskIsUnknown /\ NoFault)
    => \A t \in Tasks : kstate[t] = "runnable" ~> kstate[t] # "runnable"
=============================================================================
