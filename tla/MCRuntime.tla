----------------------------- MODULE MCRuntime ------------------------------
(***************************************************************************)
(* The parts of the library that every agent rests on, checked side by     *)
(* side: in one behaviour only the part named by `part' takes steps.       *)
(*   takeover   two agent processes, one after the other, on one cpu       *)
(*   rpc        one agent process that two threads call                    *)
(*   pair       one agent process on two cpus                              *)
(*   request    run requests of two siblings and of a global agent         *)
(*   ring       the message ring                                           *)
(*   list       the linked lists of the BPF schedulers                     *)
(*   tree       AVL trees of up to four levels                             *)
(*   lowtree    AVL trees of two levels, and several orphans               *)
(***************************************************************************)
EXTENDS AgentProcess, RunRequest, ChannelRing

CONSTANTS c1, c2, k1, k2

OneCpu == <<c1>>
NoRpcs == [p \in Procs |-> 0]

VARIABLES part,
          lfirst, llast, lnext, lprev, lowner,
          tree, nodes, members

\* These two use the variables of AgentProcess.
R == INSTANCE AgentProcess WITH
        NumProcs <- 1, Clients <- {k1, k2}, MaxRpcs <- <<2>>, Crashes <- FALSE
P == INSTANCE AgentProcess WITH
        NumProcs <- 1, CpuList <- <<c1, c2>>, MaxRpcs <- <<0>>

A == INSTANCE ArrList WITH
        Heads <- {c1, c2}, NumElems <- 4, NoHead <- None, EmptyRight <- FALSE,
        first <- lfirst, last <- llast, next <- lnext, prev <- lprev, owner <- lowner

T == INSTANCE Avl WITH
        NumNodes <- 8, MaxHeight <- 4, t <- tree, n <- nodes,
        KeysOf <- [e \in 1 .. 8 |-> IF e = 1 THEN {1, 3} ELSE {(e + 1) \div 2}]
TLow == INSTANCE Avl WITH
        NumNodes <- 5, MaxHeight <- 2, t <- tree, n <- nodes,
        KeysOf <- [e \in 1 .. 5 |-> IF e = 1 THEN {1, 3} ELSE {(e + 1) \div 2}]

lists == <<lfirst, llast, lnext, lprev, lowner>>
trees == <<tree, nodes, members>>
all == <<part, vars, rqvars, rvars, lists, trees>>

MCInit ==
    /\ \/ part \in {"takeover", "request", "ring", "list", "tree", "lowtree"} /\ Init
       \/ part = "rpc" /\ R!Init
       \/ part = "pair" /\ P!Init
    /\ RequestInit /\ RingInit /\ A!Init
    /\ IF part = "lowtree" THEN TLow!Init ELSE T!Init

Process ==
    /\ \/ part = "takeover" /\ Next
       \/ part = "rpc" /\ R!Next
       \/ part = "pair" /\ P!Next
    /\ UNCHANGED <<part, rqvars, rvars, lists, trees>>

Request == part = "request" /\ RequestNext /\ UNCHANGED <<part, vars, rvars, lists, trees>>
Ring == part = "ring" /\ RingNext /\ UNCHANGED <<part, vars, rqvars, lists, trees>>
List == part = "list" /\ A!Next /\ UNCHANGED <<part, vars, rqvars, rvars, trees>>
Tree == /\ \/ part = "tree" /\ T!Next
           \/ part = "lowtree" /\ TLow!Next
        /\ UNCHANGED <<part, vars, rqvars, rvars, lists>>

MCNext == Process \/ Request \/ Ring \/ List \/ Tree

\* The components' own fairness, for the part that takes steps.
MCFairness ==
    /\ \A p \in Procs : WF_vars(part = "takeover" /\ Program(p))
    /\ WF_vars(part = "rpc" /\ R!Program(1))
    /\ WF_vars(part = "pair" /\ P!Program(1))
    /\ <>[][~(\/ part = "takeover" /\ Interrupt
              \/ part = "rpc" /\ R!Interrupt
              \/ part = "pair" /\ P!Interrupt)]_vars
    /\ \A a \in {c1, c2} :
         /\ WF_rqvars(part = "request" /\ SiblingNext(a))
         /\ \A c \in {c1, c2} : WF_rqvars(part = "request" /\ KSyncCommits(a, c))

MCSpec == MCInit /\ [][MCNext]_all /\ MCFairness

-----------------------------------------------------------------------------
(* The properties of the parts. *)

\* Every variable has its type.
TypesOK == /\ part = "takeover" => TypeOK
           /\ part = "rpc" => R!TypeOK
           /\ part = "pair" => P!TypeOK
           /\ RequestTypeOK

\* No CHECK of Notification, Enclave::AdvertiseOnline, RunRequest::Open,
\* CommitSyncRequests or ReleaseSyncRequests fails.
NoCheckFailsAnywhere == NoCheckFails /\ NoRequestCheckFails

\* No thread sleeps in Futex::Wait with nobody left to wake it.
NobodyOversleeps == /\ part = "takeover" => NoLostWakeup
                    /\ part = "rpc" => R!NoLostWakeup
                    /\ part = "pair" => P!NoLostWakeup

\* Only the process that is online has agents on the enclave's cpus.
OneSchedules == /\ part = "takeover" => OneProcessSchedules
                /\ part = "pair" => P!OneProcessSchedules

\* Each of the two callers gets the answer to its own RPC.
RpcAnswers == part = "rpc" => R!RpcAnswersItsCaller

\* Processes take over and shut down; calls return.
WaitsEnd == []<>(/\ part = "takeover" => \A p \in Procs : NobodyWaits(p)
                 /\ part = "rpc" => R!NobodyWaits(1)
                 /\ part = "pair" => P!NobodyWaits(1))

\* Lists and trees hold what the callers put in and did not take out: a list can be
\* walked both ways, a tree is balanced and its cached ends are its ends.
StructuresAreSound == /\ part = "list" => A!WellLinked
                      /\ part = "tree" => T!WellFormed
                      /\ part = "lowtree" => TLow!WellFormed

\* The lists are BSD's TAILQs and the trees sorted sequences: A!ImplementsTailq and
\* T!ImplementsSortedSeq, looked at only where lists and trees change.
StructuresRefine ==
    /\ A!Tailqs!Init
    /\ [][part = "list" => [A!Tailqs!Next]_[h \in {c1, c2} |-> A!Forward(h)]]_lists
    /\ part = "tree" => T!S!Init
    /\ [][part = "tree" => T!S!Next]_trees
    /\ [][part = "lowtree" => TLow!S!Next]_trees
=============================================================================
