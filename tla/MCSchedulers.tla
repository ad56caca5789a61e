---------------------------- MODULE MCSchedulers ----------------------------
(***************************************************************************)
(* Small instances of the EDF, Shinjuku and SOL schedulers for TLC.  The   *)
(* instances share their variables; the initial state chooses one of them, *)
(* and the variables of the others never change.                           *)
(***************************************************************************)
EXTENDS Orchestrator, TLC

CONSTANTS t1, t2,       \* threads that no instance treats specially
          r1, o1,       \* a repeatable, and a thread without a table
          h1, h2, h3, h4,
          Parts         \* the instances to look at

VARIABLES part, in_sync, iter, txn, available

Heap == {h1, h2, h3, h4}

\* TLC evaluates a constant definition of a module that is only extended once,
\* with this module's constants; these keep it from doing so below.
Shared == INSTANCE Orchestrator
SharedAgent == INSTANCE GlobalAgent
SharedKernel == INSTANCE GhostKernel

\* EDF: a table that changes.
E == INSTANCE Edf WITH Deadlines <- {0, 1}, QoS <- {0}, CfsCpus <- {}, MaxWrites <- 1,
                       MaxBarrier <- 1
\* EDF: the global agent's role on the move.
EMoves == INSTANCE Edf WITH Deadlines <- {0}
\* EDF: two commits in a round.
EPairs == INSTANCE Edf WITH Cpus <- {0, 1, 2}, Deadlines <- {0}, QoS <- {0}, MaxBarrier <- 1,
                            CfsCpus <- {1}
\* EDF: a repeatable, and an orphan that may leave the enclave.
ERepeats == INSTANCE Edf WITH Tasks <- {r1, o1}, Repeating <- {r1}, Steady <- {r1},
                              Orphans <- {o1}, Deadlines <- {0, 1}, CfsCpus <- {},
                              Departs <- TRUE, MaxWrites <- 1
\* EDF: the heap alone, with four tasks.
EHeap == INSTANCE Edf WITH Tasks <- Heap, Deadlines <- {0, 1, 2}

\* Shinjuku: a table that changes, and commits that fail.
J == INSTANCE Shinjuku WITH TimeSlice <- FALSE, MaxBarrier <- 1, QoS <- {0},
                            CfsCpus <- {1}, MaxWrites <- 1
\* Shinjuku: time slices, and the global agent's role on the move.
JMoves == INSTANCE Shinjuku WITH TimeSlice <- TRUE
\* Shinjuku: a repeatable, and a thread that may leave the enclave.
JRepeats == INSTANCE Shinjuku WITH TimeSlice <- FALSE, Tasks <- {r1, o1}, Repeating <- {r1},
                                   Steady <- {r1}, CfsCpus <- {}, QoS <- {0},
                                   Departs <- TRUE, MaxWrites <- 1

\* SOL: SwitchTo, threads that leave the enclave, and the role on the move.
L == INSTANCE Sol WITH TimeSlice <- FALSE, SwitchTo <- TRUE, Departs <- TRUE,
                       Siblings <- [c \in Cpus |-> {c}]
\* SOL: time slices.
LSlices == INSTANCE Sol WITH TimeSlice <- TRUE, SwitchTo <- FALSE, CfsCpus <- {}, MaxBarrier <- 3,
                             Siblings <- [c \in Cpus |-> {c}]

NoTable == TableInit /\ item = [t \in Tasks |-> EmptyItem]

Untouched == /\ in_sync = TRUE /\ iter = 0
             /\ txn = [c \in Cpus |-> L!Committed("COMPLETE")] /\ available = {}

\* The table before the agent attaches: every thread has work in the instances
\* where no item changes later, in different classes or in the higher one; none has
\* in the heap's.
Table ==
    /\ part \in {"edfmoves", "edfpairs", "shinmoves", "shinrepeats"}
         => \A t \in DOMAIN item : item[t].runnable
    /\ part = "edfmoves" => \A q \in QoS : \E t \in Tasks : item[t].qos = q
    /\ part = "shinmoves" => \E t \in Tasks : item[t].qos = Max(QoS)
    /\ part = "heap" => announced = {}

Init ==
    /\ part \in Parts
    /\ Untouched
    /\ CASE part = "edf"         -> E!Init
         [] part = "edfmoves"    -> EMoves!Init
         [] part = "edfpairs"    -> EPairs!Init
         [] part = "edfrepeats"  -> ERepeats!Init
         [] part = "heap"        -> EHeap!Init
         [] part = "shinjuku"    -> J!Init
         [] part = "shinmoves"   -> JMoves!Init
         [] part = "shinrepeats" -> JRepeats!Init
         [] part = "sol"         -> NoTable /\ L!Init
         [] part = "solslices"   -> NoTable /\ LSlices!Init
    /\ Table

\* A task is queued, leaves the heap, or is given another deadline in place.
HeapOps(s, t, d) ==
    LET with == [s EXCEPT !.task[t].sched_deadline = d, !.task[t].has_work = TRUE]
    IN  IF EHeap!IsQueued(s, t)
          THEN {EHeap!RemoveFromRunqueue(s, t), EHeap!UpdateRunqueue(with, t)}
          ELSE {EHeap!Enqueue(with, t)}

HeapNext ==
    /\ \E t \in Heap, d \in {0, 1, 2} : sched' \in HeapOps(sched, t, d)
    /\ UNCHANGED <<kvars, global_cpu, pc, todo, tvars, in_sync>>

Edf == /\ \/ part = "edf" /\ E!Next
          \/ part = "edfmoves" /\ EMoves!Next
          \/ part = "edfpairs" /\ EPairs!Next
          \/ part = "edfrepeats" /\ ERepeats!Next
          \/ part = "heap" /\ HeapNext
       /\ UNCHANGED <<part, iter, txn, available>>

Shinjuku == /\ \/ part = "shinjuku" /\ J!Next
               \/ part = "shinmoves" /\ JMoves!Next
               \/ part = "shinrepeats" /\ JRepeats!Next
            /\ UNCHANGED <<part, in_sync, txn, available>>

Sol == /\ \/ part = "sol" /\ L!Next
          \/ part = "solslices" /\ LSlices!Next
       /\ UNCHANGED <<part, tvars, in_sync, iter>>

Next == Edf \/ Shinjuku \/ Sol

Spec == Init /\ [][Next]_<<kvars, gvars, tvars, part, in_sync, iter, txn, available>>

Symmetric == Permutations({t1, t2})

-----------------------------------------------------------------------------
(* Properties. *)

\* Every variable of the scheduler looked at has its type.
TypesOK ==
    /\ part = "edf"         => E!TypeOK
    /\ part = "edfmoves"    => EMoves!TypeOK
    /\ part = "edfpairs"    => EPairs!TypeOK
    /\ part = "edfrepeats"  => ERepeats!TypeOK
    /\ part = "heap"        => EHeap!TypeOK
    /\ part = "shinjuku"    => J!TypeOK
    /\ part = "shinmoves"   => JMoves!TypeOK
    /\ part = "shinrepeats" => JRepeats!TypeOK
    /\ part = "sol"         => L!TypeOK
    /\ part = "solslices"   => LSlices!TypeOK

\* No CHECK of the schedulers fails, whatever the order of messages, commits,
\* table updates and moves of the global agent, and no commit ends in a state
\* that CompleteRunRequest calls unexpected.
NoFault == sched.ok

\* EDF's run queue is a heap with respect to the fields that the comparator
\* reads now, although handlers, the table and the clock change them in place
\* (edf_scheduler.cc, CheckRunQueue).
HeapOrdered ==
    /\ part = "edf"         => E!HeapOrdered
    /\ part = "edfmoves"    => EMoves!HeapOrdered
    /\ part = "edfpairs"    => EPairs!HeapOrdered
    /\ part = "edfrepeats"  => ERepeats!HeapOrdered
    /\ part = "heap"        => EHeap!HeapOrdered

\* A task the scheduler knows is in exactly one of its queues, its cpus' current
\* and next tasks, the one its run_state names: none is lost or queued twice.
QueuesMatchStates ==
    /\ part = "edf"         => E!QueuesMatchStates
    /\ part = "edfmoves"    => EMoves!QueuesMatchStates
    /\ part = "edfpairs"    => EPairs!QueuesMatchStates
    /\ part = "edfrepeats"  => ERepeats!QueuesMatchStates
    /\ part = "shinjuku"    => J!QueuesMatchStates
    /\ part = "shinmoves"   => JMoves!QueuesMatchStates
    /\ part = "shinrepeats" => JRepeats!QueuesMatchStates
    /\ part = "sol"         => L!QueuesMatchStates
    /\ part = "solslices"   => LSlices!QueuesMatchStates

\* A scheduler that has read every message about a thread has it where the kernel
\* has it, whatever displaced, unscheduled or failed to schedule the thread.
BooksAgree ==
    /\ part = "edf"         => E!BooksAgree
    /\ part = "edfmoves"    => EMoves!BooksAgree
    /\ part = "edfpairs"    => EPairs!BooksAgree
    /\ part = "edfrepeats"  => ERepeats!BooksAgree
    /\ part = "shinjuku"    => J!BooksAgree
    /\ part = "shinmoves"   => JMoves!BooksAgree
    /\ part = "shinrepeats" => JRepeats!BooksAgree
    /\ part = "sol"         => L!BooksAgree
    /\ part = "solslices"   => LSlices!BooksAgree

\* Shinjuku: an unschedule that a changed item asked for is pending only for a task
\* on its cpu and only until the round ends, and a task without work is taken off.
DeferralsAreSettled ==
    /\ part = "shinjuku"    => J!DeferralsAreSettled
    /\ part = "shinmoves"   => JMoves!DeferralsAreSettled
    /\ part = "shinrepeats" => JRepeats!DeferralsAreSettled

\* SOL: a transaction left open across rounds is the one of its cpu's next task,
\* and never one on the cpu of the global agent.
TransactionsAreReaped ==
    /\ part = "sol"         => L!TransactionsAreReaped
    /\ part = "solslices"   => LSlices!TransactionsAreReaped
=============================================================================
