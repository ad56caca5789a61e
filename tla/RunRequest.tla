----------------------------- MODULE RunRequest -----------------------------
(***************************************************************************)
(* Transactions of lib/enclave.  Sibling agents open the transactions of   *)
(* all their cpus as one sync group, each starting with its own cpu, under *)
(* a lock they drop before CommitSyncRequests; the group's owner field     *)
(* keeps the next agent out until the commit is over.  One more agent, the *)
(* global one, opens the transaction of a remote cpu for the kernel to     *)
(* commit when it likes, and completes or aborts it.                       *)
(***************************************************************************)
CONSTANT Siblings   \* agents that share a sync group, named by their cpus

VARIABLES
    state,     \* txn_->state of the siblings' cpus
    owner,     \* sync_group_owner: {} is kSyncGroupNotOwned, else one agent
    fields,    \* the agent whose options the transaction holds, if any
    mu,        \* the holder of the siblings' lock, if any
    spc, todo, \* an agent's place in its program; the cpus its loop has yet to do
    verdict,   \* what SyncCommit returns to the agent
    gpc,       \* the global agent's place
    remote,    \* txn_->state of the remote cpu
    ran,       \* the remote cpu has switched to the task of its transaction
    check_failed  \* a CHECK failed

svars == <<state, owner, fields, mu, spc, todo, verdict>>
gvars == <<gpc, remote, ran>>
rqvars == <<svars, gvars, check_failed>>

Failures == {"FAILED", "POISONED", "ABORTED"}
Committed == {"COMPLETE"} \cup Failures
TxnStates == {"READY", "CLAIMED"} \cup Committed

committed(s) == s \in Committed

RequestTypeOK ==
    /\ state \in [Siblings -> TxnStates]
    /\ owner \in [Siblings -> SUBSET Siblings]
    /\ fields \in [Siblings -> SUBSET Siblings]
    /\ mu \in SUBSET Siblings
    /\ spc \in [Siblings -> {"idle", "take", "open", "submit", "kernel", "complete", "release"}]
    /\ todo \in [Siblings -> SUBSET Siblings]
    /\ verdict \in [Siblings -> BOOLEAN]
    /\ gpc \in {"idle", "opened", "commit", "complete", "cas", "aborted", "late"}
    /\ remote \in TxnStates /\ ran \in BOOLEAN /\ check_failed \in BOOLEAN

RequestInit ==
    /\ state = [c \in Siblings |-> "COMPLETE"]
    /\ owner = [c \in Siblings |-> {}]
    /\ fields = [c \in Siblings |-> {}]
    /\ mu = {}
    /\ spc = [a \in Siblings |-> "idle"] /\ todo = [a \in Siblings |-> {}]
    /\ verdict = [a \in Siblings |-> FALSE]
    /\ gpc = "idle" /\ remote = "COMPLETE" /\ ran = FALSE /\ check_failed = FALSE

\* this_req first, then the others.
IsNext(a, c) == c \in todo[a] /\ (a \in todo[a] => c = a)

-----------------------------------------------------------------------------
(* A sync group. *)

\* A slip: the siblings do not serialize their Opens.
TakeNoLock(a) == /\ spc[a] = "idle"
                 /\ spc' = [spc EXCEPT ![a] = "take"]
                 /\ todo' = [todo EXCEPT ![a] = Siblings]
                 /\ UNCHANGED <<state, owner, fields, mu, verdict, gvars, check_failed>>

Lock(a) ==
    /\ spc[a] = "idle" /\ mu = {}
    /\ mu' = {a}
    /\ spc' = [spc EXCEPT ![a] = "take"]
    /\ todo' = [todo EXCEPT ![a] = Siblings]
    /\ UNCHANGED <<state, owner, fields, verdict, gvars, check_failed>>

\* A slip: the owner of a transaction is not waited for.
NoOwnerWaits(a, c) == FALSE

\* Open: wait until the current owner has relinquished the transaction.
OwnerWaits(a, c) == owner[c] \notin {{}, {a}}

OpenTakesOwnership(a) ==
    /\ spc[a] = "take"
    /\ \E c \in Siblings : /\ IsNext(a, c) /\ ~OwnerWaits(a, c)
                           /\ owner' = [owner EXCEPT ![c] = {a}]
    /\ spc' = [spc EXCEPT ![a] = "open"]
    /\ UNCHANGED <<state, fields, mu, todo, verdict, gvars, check_failed>>

\* Open: CHECK(committed()), the fields, GHOST_TXN_READY.  The lock is dropped after
\* the last one.
OpenWritesFields(a) ==
    /\ spc[a] = "open"
    /\ \E c \in Siblings :
         /\ IsNext(a, c) /\ owner[c] = {a}
         /\ check_failed' = (check_failed \/ ~committed(state[c]))
         /\ fields' = [fields EXCEPT ![c] = {a}]
         /\ state' = [state EXCEPT ![c] = "READY"]
         /\ todo' = [todo EXCEPT ![a] = @ \ {c}]
         /\ IF todo[a] = {c}
              THEN spc' = [spc EXCEPT ![a] = "submit"] /\ mu' = {}
              ELSE spc' = [spc EXCEPT ![a] = "take"] /\ UNCHANGED mu
    /\ UNCHANGED <<owner, verdict, gvars>>

\* SyncCommit (external): the kernel claims the group, and finds whether it can run.
SubmitSyncRequests(a) ==
    /\ spc[a] = "submit"
    /\ \E v \in BOOLEAN : verdict' = [verdict EXCEPT ![a] = v]
    /\ state' = [c \in Siblings |-> "CLAIMED"]
    /\ todo' = [todo EXCEPT ![a] = Siblings]
    /\ spc' = [spc EXCEPT ![a] = "kernel"]
    /\ UNCHANGED <<owner, fields, mu, gvars, check_failed>>

\* A cpu of the group commits: the kernel gives up the transaction of a group that
\* runs; in one that does not, a transaction fails and the others are poisoned.
KSyncCommits(a, c) ==
    /\ spc[a] \in {"kernel", "complete"} /\ owner[c] = {a} /\ state[c] = "CLAIMED"
    /\ IF verdict[a]
         THEN /\ state' = [state EXCEPT ![c] = "COMPLETE"]
              /\ owner' = [owner EXCEPT ![c] = {}]
         ELSE /\ \E s \in {"FAILED", "POISONED"} : state' = [state EXCEPT ![c] = s]
              /\ UNCHANGED owner
    /\ UNCHANGED <<fields, mu, spc, todo, verdict, gvars, check_failed>>

\* SubmitSyncRequests returns: at once if the group failed, else when all is released.
CommitSyncRequests(a) ==
    /\ spc[a] = "kernel"
    /\ verdict[a] => \A c \in Siblings : owner[c] # {a}
    /\ spc' = [spc EXCEPT ![a] = IF verdict[a] THEN "idle" ELSE "complete"]
    /\ todo' = [todo EXCEPT ![a] = IF verdict[a] THEN {} ELSE Siblings]
    /\ UNCHANGED <<state, owner, fields, mu, verdict, gvars, check_failed>>

\* CompleteRunRequest of every cpu: wait for committed(); CHECK(failure_detected).
CompleteRunRequests(a) ==
    /\ spc[a] = "complete" /\ \A c \in Siblings : committed(state[c])
    /\ check_failed' = (check_failed \/ \A c \in Siblings : state[c] = "COMPLETE")
    /\ spc' = [spc EXCEPT ![a] = "release"]
    /\ UNCHANGED <<state, owner, fields, mu, todo, verdict, gvars>>

ReleaseSyncRequests(a) ==
    /\ spc[a] = "release"
    /\ \E c \in todo[a] :
         /\ check_failed' = (check_failed \/ ~committed(state[c]) \/ owner[c] = {})
         /\ owner' = [owner EXCEPT ![c] = {}]
         /\ todo' = [todo EXCEPT ![a] = @ \ {c}]
         /\ spc' = [spc EXCEPT ![a] = IF todo[a] = {c} THEN "idle" ELSE "release"]
    /\ UNCHANGED <<state, fields, mu, verdict, gvars>>

-----------------------------------------------------------------------------
(* The global agent and a transaction that the kernel commits when it likes. *)

\* Open without a sync group: CHECK(committed()).
Open ==
    /\ gpc \in {"idle", "aborted"}
    /\ check_failed' = (check_failed \/ ~committed(remote))
    /\ remote' = "READY"
    /\ ran' = FALSE /\ gpc' = "opened"
    /\ UNCHANGED svars

\* SubmitRunRequest: tell the kernel if the request is still open.
SubmitRunRequest ==
    /\ gpc = "opened"
    /\ gpc' = IF remote = "READY" THEN "commit" ELSE "complete"
    /\ UNCHANGED <<svars, remote, ran, check_failed>>

\* The kernel's Commit returns once the transaction is claimed.
CommitReturns ==
    /\ gpc = "commit" /\ remote # "READY"
    /\ gpc' = "complete"
    /\ UNCHANGED <<svars, remote, ran, check_failed>>

CompleteRunRequest ==
    /\ gpc = "complete" /\ committed(remote)
    /\ gpc' = "idle"
    /\ UNCHANGED <<svars, remote, ran, check_failed>>

\* Abort: load the state, then compare_exchange.
Abort ==
    /\ gpc = "opened"
    /\ gpc' = IF remote = "READY" THEN "cas" ELSE "late"
    /\ UNCHANGED <<svars, remote, ran, check_failed>>

\* A slip: the state is stored, not compared and exchanged.
AbortStores ==
    /\ gpc = "cas"
    /\ remote' = "ABORTED" /\ gpc' = "aborted"
    /\ UNCHANGED <<svars, ran, check_failed>>

\* The request of a global agent is in no sync group: there is no owner to release.
AbortExchanges ==
    /\ gpc = "cas"
    /\ IF remote = "READY"
         THEN remote' = "ABORTED" /\ gpc' = "aborted"
         ELSE UNCHANGED remote /\ gpc' = "late"
    /\ UNCHANGED <<svars, ran, check_failed>>

\* An Abort that came too late: the request is on its way to being committed.
AwaitCommitted ==
    /\ gpc = "late" /\ committed(remote)
    /\ gpc' = "idle"
    /\ UNCHANGED <<svars, remote, ran, check_failed>>

\* The remote cpu claims the request, at a tick or when told to, and commits it.
KClaim ==
    /\ remote = "READY"
    /\ remote' = "CLAIMED"
    /\ UNCHANGED <<svars, gpc, ran, check_failed>>

KCommit ==
    /\ remote = "CLAIMED"
    /\ \E s \in {"COMPLETE", "FAILED"} :
         remote' = s /\ ran' = (s = "COMPLETE")
    /\ UNCHANGED <<svars, gpc, check_failed>>

SiblingNext(a) ==
    \/ OpenTakesOwnership(a) \/ OpenWritesFields(a) \/ SubmitSyncRequests(a)
    \/ CommitSyncRequests(a) \/ CompleteRunRequests(a) \/ ReleaseSyncRequests(a)

GlobalNext ==
    \/ Open \/ SubmitRunRequest \/ CommitReturns \/ CompleteRunRequest
    \/ Abort \/ AbortExchanges \/ AwaitCommitted

KernelNext == KClaim \/ KCommit \/ \E a, c \in Siblings : KSyncCommits(a, c)

RequestNext == (\E a \in Siblings : Lock(a) \/ SiblingNext(a)) \/ GlobalNext \/ KernelNext

RequestSpec == RequestInit /\ [][RequestNext]_rqvars

\* Every agent goes on, and the kernel commits what it has claimed.
RequestFairness == \A a \in Siblings : /\ WF_rqvars(SiblingNext(a))
                                       /\ \A c \in Siblings : WF_rqvars(KSyncCommits(a, c))

RequestFairSpec == RequestSpec /\ RequestFairness

-----------------------------------------------------------------------------
(* Properties. *)

\* Open's comment: the owner is "a pseudo-lock to avoid transaction fields getting
\* clobbered".  A group is submitted with the options of its own agent in every
\* transaction, and what the kernel has claimed is not written until it is committed.
FieldsAreNotClobbered ==
    /\ \A a \in Siblings : spc[a] = "submit" =>
         \A c \in Siblings : owner[c] = {a} /\ fields[c] = {a} /\ state[c] = "READY"
    /\ \A c \in Siblings : state[c] = "CLAIMED" => fields[c] = owner[c]

\* No CHECK of Open, CommitSyncRequests or ReleaseSyncRequests fails.
NoRequestCheckFails == ~check_failed

\* After Abort has returned true, the task of the transaction is not and will not be
\* switched to: Abort races with the kernel that claims the transaction.
AbortedNeverRuns == gpc = "aborted" => ~ran /\ remote = "ABORTED"

\* Two siblings whose groups overlap do not wait for each other: again and again,
\* nobody is in the middle of opening a group.
OpensComplete == []<>(\A a \in Siblings : spc[a] \notin {"take", "open"})
=============================================================================
