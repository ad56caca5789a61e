-------------------------- MODULE RunRequest_proofs --------------------------
(***************************************************************************)
(* Proofs about RunRequest, for any set of siblings: transactions of a     *)
(* sync group are not clobbered, no CHECK fails, and an aborted            *)
(* transaction does not run.                                               *)
(***************************************************************************)
EXTENDS RunRequest, TLAPS

\* What an agent a at place p, with td left to do and the kernel's verdict v, knows of
\* a transaction with owner own, fields f and state s.  A transaction somebody else
\* owns is not constrained beyond that.
Claim(a, c, p, td, v, own, f, s) ==
    /\ p = "idle" => own # {a}
    /\ p \in {"take", "open"} /\ c \notin td => own = {a} /\ f = {a} /\ s = "READY"
    /\ p = "take" /\ c \in td => own # {a}
    /\ p = "open" /\ c \in td /\ own = {a} => s \in Committed
    /\ p = "submit" => own = {a} /\ f = {a} /\ s = "READY"
    /\ p = "kernel" /\ own = {a} =>
         f = {a} /\ (s = "CLAIMED" \/ (~v /\ s \in {"FAILED", "POISONED"}))
    /\ p = "kernel" /\ ~v => own = {a}
    /\ p = "complete" => /\ ~v /\ own = {a} /\ f = {a}
                         /\ s \in {"CLAIMED", "FAILED", "POISONED"}
    /\ p = "release" => /\ ~v /\ (c \in td <=> own = {a})
                        /\ c \in td => s \in {"FAILED", "POISONED"}

Claims == \A a, c \in Siblings :
            Claim(a, c, spc[a], todo[a], verdict[a], owner[c], fields[c], state[c])

\* A transaction has at most one owner; one without has been committed.
Owners == \A c \in Siblings : \/ owner[c] = {} /\ state[c] \in Committed
                              \/ \E a \in Siblings : owner[c] = {a}

\* The lock is held while a group is opened.
Locking == \A a \in Siblings : spc[a] \in {"take", "open"} <=> mu = {a}

\* A loop that goes on has something left, one that starts has all; Open has taken one transaction only.
Loops == \A a \in Siblings :
    /\ spc[a] \in {"take", "open", "release"} => todo[a] # {}
    /\ spc[a] = "complete" => todo[a] = Siblings
    /\ spc[a] = "open" => \A c, d \in todo[a] : owner[c] = {a} /\ owner[d] = {a} => c = d

\* The transaction of the remote cpu.
Remote ==
    /\ gpc = "idle" => remote \in Committed
    /\ gpc = "aborted" => remote = "ABORTED" /\ ~ran
    /\ remote \in {"READY", "CLAIMED"} => ~ran

IInv == RequestTypeOK /\ ~check_failed /\ Claims /\ Owners /\ Locking /\ Loops /\ Remote

\* Whoever does not own a transaction is not concerned by what its owner, or an agent
\* that takes or gives it up, does to it.
LEMMA NotMine ==
    ASSUME NEW a, NEW c, NEW p, NEW td, NEW v, NEW own, NEW f, NEW s,
           NEW own2, NEW f2, NEW s2,
           own # {a}, own2 # {a}, Claim(a, c, p, td, v, own, f, s)
    PROVE  Claim(a, c, p, td, v, own2, f2, s2)
  BY DEF Claim

\* The invariant holds when every transaction is free.
LEMMA InitIInv == RequestInit => IInv
  BY ZenonT(60) DEF RequestInit, IInv, RequestTypeOK, Claims, Claim, Owners, Locking, Loops, Remote, Committed,
         Failures, TxnStates

\* An agent takes the lock that serializes the Opens of its sync group.
LEMMA LockStep ==
    ASSUME IInv, NEW a \in Siblings, Lock(a)  PROVE IInv'
  <1> USE DEF IInv, Lock, svars, gvars
  <1>1. RequestTypeOK' /\ ~check_failed' /\ Owners' /\ Remote'
    BY DEF RequestTypeOK, Owners, Remote, Committed, TxnStates, Failures
  <1>2. Claims'
    <2> SUFFICES ASSUME NEW b \in Siblings, NEW c \in Siblings
                 PROVE  Claim(b, c, spc'[b], todo'[b], verdict[b], owner[c], fields[c],
                              state[c])
      BY DEF Claims
    <2>1. Claim(b, c, spc[b], todo[b], verdict[b], owner[c], fields[c], state[c])
      BY DEF Claims
    <2>2. CASE b = a  BY <2>1, <2>2 DEF Claim, RequestTypeOK
    <2>3. CASE b # a  BY <2>1, <2>3 DEF RequestTypeOK
    <2> QED  BY <2>2, <2>3
  <1>3. Locking' /\ Loops'
    BY DEF Locking, Loops, RequestTypeOK
  <1> QED  BY <1>1, <1>2, <1>3

\* OpenTakesOwnership: a takes a transaction nobody owns, which was committed.
LEMMA TakeStep ==
    ASSUME IInv, NEW a \in Siblings, OpenTakesOwnership(a)  PROVE IInv'
  <1> USE DEF IInv, OpenTakesOwnership, gvars
  <1>0. PICK e \in Siblings : /\ IsNext(a, e) /\ ~OwnerWaits(a, e)
                              /\ owner' = [owner EXCEPT ![e] = {a}]
    BY ZenonT(60)
  <1>1. owner[e] = {} /\ state[e] \in Committed /\ e \in todo[a]
    <2>1. Claim(a, e, spc[a], todo[a], verdict[a], owner[e], fields[e], state[e])
      BY DEF Claims
    <2> QED  BY <1>0, <2>1 DEF Claim, IsNext, OwnerWaits, Owners
  <1>2. RequestTypeOK' /\ ~check_failed' /\ Remote' /\ Locking'
    BY <1>0 DEF RequestTypeOK, Remote, Locking
  <1>3. Owners'
    BY <1>0 DEF Owners, RequestTypeOK
  <1>4. Claims'
    <2> SUFFICES ASSUME NEW b \in Siblings, NEW c \in Siblings
                 PROVE  Claim(b, c, spc'[b], todo[b], verdict[b], owner'[c], fields[c],
                              state[c])
      BY DEF Claims
    <2>1. Claim(b, c, spc[b], todo[b], verdict[b], owner[c], fields[c], state[c])
      BY DEF Claims
    <2>2. CASE b = a /\ c = e  BY <1>0, <1>1, <2>1, <2>2 DEF Claim, RequestTypeOK
    <2>3. CASE b = a /\ c # e  BY <1>0, <2>1, <2>3 DEF Claim, RequestTypeOK
    <2>4. CASE b # a /\ c # e  BY <1>0, <2>1, <2>4 DEF RequestTypeOK
    <2>5. CASE b # a /\ c = e
      <3>1. owner[c] # {b} /\ owner'[c] # {b} /\ spc'[b] = spc[b]
        BY <1>0, <1>1, <2>5 DEF RequestTypeOK
      <3> QED  BY <2>1, <3>1, NotMine
    <2> QED  BY <2>2, <2>3, <2>4, <2>5
  <1>5. Loops'
    <2> SUFFICES ASSUME NEW b \in Siblings
                 PROVE  /\ spc'[b] \in {"take", "open", "release"} => todo[b] # {}
                        /\ spc'[b] = "complete" => todo[b] = Siblings
                        /\ spc'[b] = "open" => \A c, d \in todo[b] :
                             owner'[c] = {b} /\ owner'[d] = {b} => c = d
      BY DEF Loops
    <2>1. CASE b = a
      <3>1. \A c \in todo[a] : owner[c] # {a}
        BY DEF Claims, Claim, RequestTypeOK
      <3> QED  BY <1>0, <1>1, <2>1, <3>1 DEF RequestTypeOK
    <2>2. CASE b # a
      <3>1. spc'[b] = spc[b] /\ \A c \in Siblings : owner'[c] = {b} => owner[c] = {b}
        BY <1>0, <2>2 DEF RequestTypeOK
      <3> QED  BY <3>1 DEF Loops, RequestTypeOK
    <2> QED  BY <2>1, <2>2
  <1> QED  BY <1>2, <1>3, <1>4, <1>5

\* OpenWritesFields: CHECK(committed()) holds, and only a's transaction is written.
LEMMA WriteStep ==
    ASSUME IInv, NEW a \in Siblings, OpenWritesFields(a)  PROVE IInv'
  <1> USE DEF IInv, OpenWritesFields, gvars
  <1>0. PICK e \in Siblings :
           /\ IsNext(a, e) /\ owner[e] = {a}
           /\ check_failed' = (check_failed \/ ~committed(state[e]))
           /\ fields' = [fields EXCEPT ![e] = {a}]
           /\ state' = [state EXCEPT ![e] = "READY"]
           /\ todo' = [todo EXCEPT ![a] = @ \ {e}]
           /\ IF todo[a] = {e}
                THEN spc' = [spc EXCEPT ![a] = "submit"] /\ mu' = {}
                ELSE spc' = [spc EXCEPT ![a] = "take"] /\ UNCHANGED mu
    BY ZenonT(60)
  <1>1. e \in todo[a] /\ state[e] \in Committed
    <2>1. Claim(a, e, spc[a], todo[a], verdict[a], owner[e], fields[e], state[e])
      BY DEF Claims
    <2> QED  BY <1>0, <2>1 DEF Claim, IsNext
  <1>2. RequestTypeOK' /\ ~check_failed' /\ Remote'
    BY <1>0, <1>1 DEF RequestTypeOK, Remote, committed, TxnStates
  <1>3. Owners'
    BY <1>0 DEF Owners, RequestTypeOK
  <1>4. Locking'
    BY <1>0 DEF Locking, RequestTypeOK
  <1>5. Claims'
    <2> SUFFICES ASSUME NEW b \in Siblings, NEW c \in Siblings
                 PROVE  Claim(b, c, spc'[b], todo'[b], verdict[b], owner[c], fields'[c],
                              state'[c])
      BY ZenonT(60) DEF Claims
    <2>1. Claim(b, c, spc[b], todo[b], verdict[b], owner[c], fields[c], state[c])
      BY DEF Claims
    <2>2. CASE b = a /\ c = e
      <3>1. /\ todo'[b] = todo[a] \ {e} /\ spc'[b] \in {"take", "submit"}
            /\ fields'[c] = {a} /\ state'[c] = "READY"
        BY <1>0, <2>2 DEF RequestTypeOK
      <3> QED  BY <1>0, <2>2, <3>1 DEF Claim
    <2>3. CASE b = a /\ c # e
      <3>1. /\ todo'[b] = todo[a] \ {e} /\ fields'[c] = fields[c] /\ state'[c] = state[c]
            /\ spc'[b] = IF todo[a] = {e} THEN "submit" ELSE "take"
        BY <1>0, <2>3 DEF RequestTypeOK
      <3>2. c \in todo[a] => owner[c] # {a}
        BY <1>0, <1>1, <2>3 DEF Loops
      <3> QED  BY <2>1, <2>3, <3>1, <3>2 DEF Claim
    <2>4. CASE b # a /\ c # e
      <3>1. /\ spc'[b] = spc[b] /\ todo'[b] = todo[b] /\ fields'[c] = fields[c]
            /\ state'[c] = state[c]
        BY <1>0, <2>4 DEF RequestTypeOK
      <3> QED  BY <2>1, <3>1
    <2>5. CASE b # a /\ c = e
      <3>1. owner[c] # {b} /\ spc'[b] = spc[b] /\ todo'[b] = todo[b]
        BY <1>0, <2>5 DEF RequestTypeOK
      <3> QED  BY <2>1, <3>1, NotMine
    <2> QED  BY <2>2, <2>3, <2>4, <2>5
  <1>6. Loops'
    BY <1>0 DEF Loops, RequestTypeOK
  <1> QED  BY <1>2, <1>3, <1>4, <1>5, <1>6

\* SubmitSyncRequests: the kernel claims transactions that are all a's.
LEMMA SubmitStep ==
    ASSUME IInv, NEW a \in Siblings, SubmitSyncRequests(a)  PROVE IInv'
  <1> USE DEF IInv, SubmitSyncRequests, gvars
  <1>1. \A c \in Siblings : owner[c] = {a} /\ fields[c] = {a}
    BY DEF Claims, Claim
  <1>2. RequestTypeOK' /\ ~check_failed' /\ Remote' /\ Locking' /\ Loops'
    BY DEF RequestTypeOK, Remote, TxnStates, Locking, Loops
  <1>3. Owners'
    BY <1>1 DEF Owners
  <1>4. Claims'
    <2> SUFFICES ASSUME NEW b \in Siblings, NEW c \in Siblings
                 PROVE  Claim(b, c, spc'[b], todo'[b], verdict'[b], owner[c], fields[c],
                              state'[c])
      BY DEF Claims
    <2>1. CASE b = a
      <3>1. spc'[b] = "kernel" /\ state'[c] = "CLAIMED"
        BY <2>1 DEF RequestTypeOK
      <3>2. owner[c] = {b} /\ fields[c] = {b}
        BY <1>1, <2>1
      <3>3. verdict'[b] \in BOOLEAN
        BY <1>2 DEF RequestTypeOK
      <3> QED  BY ONLY <3>1, <3>2, <3>3 DEF Claim
    <2>2. CASE b # a
      <3>1. /\ Claim(b, c, spc[b], todo[b], verdict[b], owner[c], fields[c], state[c])
            /\ owner[c] # {b} /\ spc'[b] = spc[b] /\ todo'[b] = todo[b]
            /\ verdict'[b] = verdict[b]
        BY <1>1, <2>2, ZenonT(60) DEF Claims, RequestTypeOK
      <3> QED  BY <3>1, NotMine
    <2> QED  BY <2>1, <2>2
  <1> QED  BY <1>2, <1>3, <1>4

\* KSyncCommits: the kernel gives up a transaction of a group that runs, and leaves
\* the others to the agent.
LEMMA KernelStep ==
    ASSUME IInv, NEW a \in Siblings, NEW e \in Siblings, KSyncCommits(a, e)  PROVE IInv'
  <1> USE DEF IInv, KSyncCommits, gvars
  <1>1. RequestTypeOK' /\ ~check_failed' /\ Remote' /\ Locking'
    BY DEF RequestTypeOK, Remote, TxnStates, Committed, Failures, Locking
  <1>2. PICK s \in {"COMPLETE", "FAILED", "POISONED"} :
           /\ state' = [state EXCEPT ![e] = s]
           /\ IF verdict[a] THEN s = "COMPLETE" /\ owner' = [owner EXCEPT ![e] = {}]
                            ELSE s # "COMPLETE" /\ owner' = owner
    OBVIOUS
  <1>3. Owners'
    BY <1>2 DEF Owners, RequestTypeOK, Committed, Failures
  <1>4. Claims'
    <2> SUFFICES ASSUME NEW b \in Siblings, NEW c \in Siblings
                 PROVE  Claim(b, c, spc[b], todo[b], verdict[b], owner'[c], fields[c],
                              state'[c])
      BY DEF Claims
    <2>1. Claim(b, c, spc[b], todo[b], verdict[b], owner[c], fields[c], state[c])
      BY DEF Claims
    <2>2. CASE c # e
      <3>1. owner'[c] = owner[c] /\ state'[c] = state[c]
        BY <1>2, <2>2 DEF RequestTypeOK
      <3> QED  BY <2>1, <3>1
    <2>3. CASE b = a /\ c = e
      <3>1. /\ state'[c] = s /\ owner[c] = {a}
            /\ owner'[c] = IF verdict[a] THEN {} ELSE {a}
        BY <1>2, <2>3, ZenonT(60) DEF RequestTypeOK
      <3>2. spc[b] = "kernel" \/ spc[b] = "complete"
        BY <2>3
      <3>3. verdict[a] => s = "COMPLETE" /\ spc[b] = "kernel"
        BY <1>2, <2>1, <2>3, <3>2 DEF Claim
      <3>4. ~verdict[a] => s \in {"FAILED", "POISONED"}
        BY <1>2
      <3> QED  BY <2>1, <2>3, <3>1, <3>2, <3>3, <3>4 DEF Claim
    <2>4. CASE b # a /\ c = e
      <3>1. owner[c] # {b} /\ owner'[c] # {b}
        BY <1>2, <2>4 DEF RequestTypeOK
      <3> QED  BY <2>1, <3>1, NotMine
    <2> QED  BY <2>2, <2>3, <2>4
  <1>5. Loops'
    <2>1. \A b, c \in Siblings : owner'[c] = {b} => owner[c] = {b}
      BY <1>2, ZenonT(60) DEF RequestTypeOK
    <2> QED  BY <2>1 DEF Loops, RequestTypeOK
  <1> QED  BY <1>1, <1>3, <1>4, <1>5

\* CommitSyncRequests: a group that runs has been released by the kernel.
LEMMA ReturnStep ==
    ASSUME IInv, NEW a \in Siblings, CommitSyncRequests(a)  PROVE IInv'
  <1> USE DEF IInv, CommitSyncRequests, gvars
  <1>1. RequestTypeOK' /\ ~check_failed' /\ Remote' /\ Owners'
    BY DEF RequestTypeOK, Remote, Owners
  <1>2. Locking' /\ Loops'
    BY DEF Locking, Loops, RequestTypeOK
  <1>3. Claims'
    <2> SUFFICES ASSUME NEW b \in Siblings, NEW c \in Siblings
                 PROVE  Claim(b, c, spc'[b], todo'[b], verdict[b], owner[c], fields[c],
                              state[c])
      BY DEF Claims
    <2>1. Claim(b, c, spc[b], todo[b], verdict[b], owner[c], fields[c], state[c])
      BY DEF Claims
    <2>2. CASE b = a
      <3>1. spc'[b] = IF verdict[a] THEN "idle" ELSE "complete"
        BY <2>2 DEF RequestTypeOK
      <3>2. verdict[a] => owner[c] # {a}
        BY ZenonT(60)
      <3> QED  BY <2>1, <2>2, <3>1, <3>2 DEF Claim
    <2>3. CASE b # a
      <3>1. spc'[b] = spc[b] /\ todo'[b] = todo[b]
        BY <2>3 DEF RequestTypeOK
      <3> QED  BY <2>1, <3>1
    <2> QED  BY <2>2, <2>3
  <1> QED  BY <1>1, <1>2, <1>3

\* CompleteRunRequest: CHECK(failure_detected) holds, as no transaction of a group
\* that does not run is GHOST_TXN_COMPLETE.
LEMMA CompleteStep ==
    ASSUME IInv, NEW a \in Siblings, CompleteRunRequests(a)  PROVE IInv'
  <1> USE DEF IInv, CompleteRunRequests, gvars
  <1>1. \A c \in Siblings : /\ owner[c] = {a} /\ state[c] \in {"FAILED", "POISONED"}
                            /\ ~verdict[a]
    BY DEF Claims, Claim, committed, Committed, Failures
  <1>2. ~check_failed'
    BY <1>1, ZenonT(60)
  <1>3. RequestTypeOK' /\ Remote' /\ Owners'
    BY <1>2 DEF RequestTypeOK, Remote, Owners
  <1>4. Locking'
    BY DEF Locking, RequestTypeOK
  <1>5. Claims' /\ Loops'
    <2>1. ASSUME NEW b \in Siblings, NEW c \in Siblings
          PROVE  Claim(b, c, spc'[b], todo[b], verdict[b], owner[c], fields[c], state[c])
      <3>1. Claim(b, c, spc[b], todo[b], verdict[b], owner[c], fields[c], state[c])
        BY DEF Claims
      <3>2. CASE b = a
        <4>1. spc'[b] = "release" /\ c \in todo[a]
          BY <3>2 DEF RequestTypeOK, Loops
        <4> QED  BY <1>1, <3>2, <4>1 DEF Claim
      <3>3. CASE b # a
        <4>1. spc'[b] = spc[b]
          BY <3>3 DEF RequestTypeOK
        <4> QED  BY <3>1, <4>1
      <3> QED  BY <3>2, <3>3
    <2>2. Claims'
      BY <2>1 DEF Claims
    <2>3. Loops'
      BY DEF Loops, RequestTypeOK
    <2> QED  BY <2>2, <2>3
  <1> QED  BY <1>2, <1>3, <1>4, <1>5

\* ReleaseSyncRequests: its CHECKs hold of every transaction left to release.
LEMMA ReleaseStep ==
    ASSUME IInv, NEW a \in Siblings, ReleaseSyncRequests(a)  PROVE IInv'
  <1> USE DEF IInv, ReleaseSyncRequests, gvars
  <1>0. PICK e \in todo[a] :
           /\ check_failed' = (check_failed \/ ~committed(state[e]) \/ owner[e] = {})
           /\ owner' = [owner EXCEPT ![e] = {}]
           /\ todo' = [todo EXCEPT ![a] = @ \ {e}]
           /\ spc' = [spc EXCEPT ![a] = IF todo[a] = {e} THEN "idle" ELSE "release"]
    BY ZenonT(60)
  <1>1. e \in Siblings /\ owner[e] = {a} /\ state[e] \in {"FAILED", "POISONED"}
    <2>1. e \in Siblings
      BY DEF RequestTypeOK
    <2>2. Claim(a, e, spc[a], todo[a], verdict[a], owner[e], fields[e], state[e])
      BY <2>1 DEF Claims
    <2> QED  BY <2>1, <2>2 DEF Claim
  <1>2. ~check_failed'
    BY <1>0, <1>1, ZenonT(60) DEF committed, Committed, Failures
  <1>3. RequestTypeOK' /\ Remote'
    BY <1>0, <1>1, <1>2 DEF RequestTypeOK, Remote
  <1>4. Owners'
    BY <1>0, <1>1 DEF Owners, RequestTypeOK, Committed, Failures
  <1>5. Locking'
    BY <1>0 DEF Locking, RequestTypeOK
  <1>6. Claims'
    <2> SUFFICES ASSUME NEW b \in Siblings, NEW c \in Siblings
                 PROVE  Claim(b, c, spc'[b], todo'[b], verdict[b], owner'[c], fields[c],
                              state[c])
      BY ZenonT(60) DEF Claims
    <2>1. Claim(b, c, spc[b], todo[b], verdict[b], owner[c], fields[c], state[c])
      BY DEF Claims
    <2>2. CASE b = a
      <3>1. /\ spc'[b] = IF todo[a] = {e} THEN "idle" ELSE "release"
            /\ todo'[b] = todo[a] \ {e}
            /\ owner'[c] = IF c = e THEN {} ELSE owner[c]
        BY <1>0, <1>1, <2>2 DEF RequestTypeOK
      <3> QED  BY <1>1, <2>1, <2>2, <3>1 DEF Claim
    <2>3. CASE b # a
      <3>1. /\ spc'[b] = spc[b] /\ todo'[b] = todo[b]
            /\ owner'[c] = IF c = e THEN {} ELSE owner[c]
        BY <1>0, <1>1, <2>3 DEF RequestTypeOK
      <3>2. CASE c # e  BY <2>1, <3>1, <3>2
      <3>3. CASE c = e
        <4>1. owner[c] # {b} /\ owner'[c] # {b}
          BY <1>1, <2>3, <3>1, <3>3
        <4> QED  BY <2>1, <3>1, <4>1, NotMine
      <3> QED  BY <3>2, <3>3
    <2> QED  BY <2>2, <2>3
  <1>7. Loops'
    <2>1. \A b, c \in Siblings : owner'[c] = {b} => owner[c] = {b}
      BY <1>0, <1>1 DEF RequestTypeOK
    <2>2. todo[a] # {e} => todo[a] \ {e} # {}
      BY <1>0
    <2>3. \A b \in Siblings : b # a => spc'[b] = spc[b] /\ todo'[b] = todo[b]
      BY <1>0 DEF RequestTypeOK
    <2>4. /\ spc'[a] = IF todo[a] = {e} THEN "idle" ELSE "release"
          /\ todo'[a] = todo[a] \ {e}
      BY <1>0 DEF RequestTypeOK
    <2> SUFFICES ASSUME NEW b \in Siblings
                 PROVE  /\ spc'[b] \in {"take", "open", "release"} => todo'[b] # {}
                        /\ spc'[b] = "complete" => todo'[b] = Siblings
                        /\ spc'[b] = "open" => \A c, d \in todo'[b] :
                             owner'[c] = {b} /\ owner'[d] = {b} => c = d
      BY DEF Loops
    <2>5. CASE b = a  BY <2>2, <2>4, <2>5
    <2>6. CASE b # a
      <3>1. spc'[b] = spc[b] /\ todo'[b] = todo[b] /\ todo[b] \subseteq Siblings
        BY <2>3, <2>6 DEF RequestTypeOK
      <3> QED  BY <2>1, <3>1 DEF Loops
    <2> QED  BY <2>5, <2>6
  <1> QED  BY <1>2, <1>3, <1>4, <1>5, <1>6, <1>7

\* The steps of the global agent and of the kernel on its transaction.
LEMMA GlobalStep ==
    ASSUME IInv, GlobalNext \/ KClaim \/ KCommit  PROVE IInv'
  <1> USE DEF IInv
  <1>1. ~check_failed' /\ UNCHANGED svars /\ Remote' /\ RequestTypeOK'
    <2> USE DEF Remote, RequestTypeOK, Committed, Failures, TxnStates, committed, svars
    <2>1. CASE Open  BY <2>1, ZenonT(60) DEF Open
    <2>2. CASE SubmitRunRequest  BY <2>2 DEF SubmitRunRequest
    <2>3. CASE CommitReturns  BY <2>3 DEF CommitReturns
    <2>4. CASE CompleteRunRequest  BY <2>4 DEF CompleteRunRequest
    <2>5. CASE Abort  BY <2>5 DEF Abort
    <2>6. CASE AbortExchanges  BY <2>6 DEF AbortExchanges
    <2>7. CASE AwaitCommitted  BY <2>7 DEF AwaitCommitted
    <2>8. CASE KClaim  BY <2>8 DEF KClaim
    <2>9. CASE KCommit  BY <2>9 DEF KCommit
    <2> QED  BY <2>1, <2>2, <2>3, <2>4, <2>5, <2>6, <2>7, <2>8, <2>9 DEF GlobalNext
  <1>2. Claims' /\ Owners' /\ Locking' /\ Loops'
    BY <1>1 DEF svars, Claims, Owners, Locking, Loops
  <1> QED  BY <1>1, <1>2

\* Every step of an agent, of the kernel or of another cpu preserves the invariant.
LEMMA StepIInv == IInv /\ [RequestNext]_rqvars => IInv'
  <1> SUFFICES ASSUME IInv, [RequestNext]_rqvars  PROVE IInv'
    BY ZenonT(60)
  <1>1. CASE UNCHANGED rqvars
    BY <1>1 DEF rqvars, svars, gvars, IInv, RequestTypeOK, Claims, Owners, Locking, Loops, Remote
  <1>2. ASSUME NEW a \in Siblings, Lock(a) \/ SiblingNext(a)  PROVE IInv'
    BY <1>2, LockStep, TakeStep, WriteStep, SubmitStep, ReturnStep, CompleteStep, ReleaseStep
       DEF SiblingNext
  <1>3. CASE GlobalNext \/ KernelNext
    BY <1>3, GlobalStep, KernelStep DEF KernelNext
  <1> QED  BY <1>1, <1>2, <1>3 DEF RequestNext

\* IInv is an inductive invariant of the transactions of lib/enclave.
THEOREM Inductive == RequestSpec => []IInv
  BY InitIInv, StepIInv, PTL DEF RequestSpec

\* Types.
THEOREM TypeCorrect == RequestSpec => []RequestTypeOK
  <1>1. IInv => RequestTypeOK
    BY DEF IInv
  <1> QED  BY <1>1, Inductive, PTL

\* sync_group_owner does what Open's comment asks of it: a group is submitted with its
\* own agent's options, and no claimed transaction is written.
THEOREM FieldsAreNotClobberedHolds == RequestSpec => []FieldsAreNotClobbered
  <1>1. IInv => FieldsAreNotClobbered
    <2> SUFFICES ASSUME IInv  PROVE FieldsAreNotClobbered
      BY ZenonT(60)
    <2>1. \A a, c \in Siblings :
             spc[a] = "submit" => owner[c] = {a} /\ fields[c] = {a} /\ state[c] = "READY"
      BY DEF IInv, Claims, Claim
    <2>2. ASSUME NEW c \in Siblings, state[c] = "CLAIMED"  PROVE fields[c] = owner[c]
      <3>1. PICK a \in Siblings : owner[c] = {a}
        BY <2>2 DEF IInv, Owners, Committed, Failures
      <3>2. Claim(a, c, spc[a], todo[a], verdict[a], owner[c], fields[c], state[c])
        BY DEF IInv, Claims
      <3>3. spc[a] \in {"idle", "take", "open", "submit", "kernel", "complete", "release"}
        BY DEF IInv, RequestTypeOK
      <3> QED  BY <2>2, <3>1, <3>2, <3>3 DEF Claim, Committed, Failures
    <2> QED  BY <2>1, <2>2 DEF FieldsAreNotClobbered
  <1> QED  BY <1>1, Inductive, PTL

\* No CHECK of Open, CommitSyncRequests or ReleaseSyncRequests fails, whatever the
\* interleaving of siblings, global agent and kernel.
THEOREM NoCheckFailsHolds == RequestSpec => []NoRequestCheckFails
  <1>1. IInv => NoRequestCheckFails
    BY DEF IInv, NoRequestCheckFails
  <1> QED  BY <1>1, Inductive, PTL

\* Once Abort has returned true the transaction's task does not run.
THEOREM AbortedNeverRunsHolds == RequestSpec => []AbortedNeverRuns
  <1>1. IInv => AbortedNeverRuns
    BY DEF IInv, Remote, AbortedNeverRuns
  <1> QED  BY <1>1, Inductive, PTL
=============================================================================
