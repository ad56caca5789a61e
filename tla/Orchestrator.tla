---------------------------- MODULE Orchestrator ----------------------------
(***************************************************************************)
(* The Orchestrator of the EDF and Shinjuku schedulers: the agent's cached *)
(* copy of the application's PrioTable.  PrioTable models the table's      *)
(* memory operations and its stream; here the stream is the set of items   *)
(* announced, and an item's seqcount is what SeqCopyParams tells apart: is *)
(* a writer there, and did the item change since it was copied.            *)
(*                                                                         *)
(* Item t is the one of thread t.  The class of an item is read before     *)
(* SeqCopyParams begins, in RefreshSchedParam.                             *)
(***************************************************************************)
EXTENDS GlobalAgent

CONSTANTS Repeating,   \* threads whose work class is WORK_CLASS_REPEATING
          Orphans,     \* threads whose leader is gone: there is no table
          QoS,         \* QoS classes, in Nat
          Reclassed,   \* may an update move an item to another work class?
          MaxWrites    \* bound: updates of the table

ASSUME TableAssumption ==
    /\ Repeating \subseteq Tasks /\ Orphans \subseteq Tasks
    /\ QoS \subseteq Nat /\ 0 \in QoS /\ MaxWrites \in Nat

VARIABLES item,       \* the sched_items
          draft,      \* what a writer that holds the seqcount is storing
          writes,     \* updates so far
          announced,  \* the stream
          fresh,      \* seqcount_ is the item's
          wc          \* RefreshSchedParam's sid, and qos of the class it found

tvars == <<item, draft, writes, announced, fresh, wc>>

\* gpid is set, SCHED_ITEM_RUNNABLE, and the qos of the work class.
Item == [gpid : BOOLEAN, runnable : BOOLEAN, qos : QoS]
EmptyItem == [gpid |-> FALSE, runnable |-> FALSE, qos |-> 0]

NoRefresh == [sid |-> NoTask, qos |-> 0]

TableTypeOK ==
    /\ item \in [Tasks -> Item]
    /\ draft \in [Tasks -> Item \cup {NoTask}]
    /\ writes \in 0 .. MaxWrites
    /\ announced \subseteq Tasks
    /\ fresh \in [Tasks -> BOOLEAN]
    /\ wc \in [sid : Tasks \cup {NoTask}, qos : QoS]

\* The application may have filled in items before the agent attaches.
TableInit ==
    /\ item \in [Tasks -> {EmptyItem} \cup {i \in Item : i.gpid}]
    /\ \A t \in Tasks : /\ t \in Orphans => item[t] = EmptyItem
                        /\ t \in Repeating /\ item[t].gpid => item[t].runnable
    /\ draft = [t \in Tasks |-> NoTask]
    /\ writes = 0
    /\ announced = {t \in Tasks : item[t].gpid}
    /\ fresh = [t \in Tasks |-> t \notin announced]
    /\ wc = NoRefresh

-----------------------------------------------------------------------------
(* The application. *)

OnSomeCpu(t) == \E c \in Cpus : kcur[c] = t /\ Executes(c)

\* An item of a repeating class is set up runnable; then only its own thread
\* writes it, to say that it is done polling.  Any thread writes the others.
MayWrite(t, new) ==
    /\ new.gpid
    /\ item[t].gpid /\ ~Reclassed => new.qos = item[t].qos
    /\ t \in Repeating =>
         IF item[t].gpid THEN OnSomeCpu(t) /\ item[t].runnable /\ ~new.runnable
                         ELSE new.runnable

\* SetSchedItem and MarkRunnability of the application's library.
WriteBegin(t) ==
    /\ writes < MaxWrites /\ t \notin Orphans /\ draft[t] = NoTask
    /\ \E new \in Item : MayWrite(t, new) /\ draft' = [draft EXCEPT ![t] = new]
    /\ writes' = writes + 1
    /\ UNCHANGED <<kvars, gvars, item, announced, fresh, wc>>

WriteEnd(t) ==
    /\ draft[t] # NoTask
    /\ t \in Repeating /\ item[t].gpid => OnSomeCpu(t)
    /\ item' = [item EXCEPT ![t] = draft[t]]
    /\ draft' = [draft EXCEPT ![t] = NoTask]
    /\ fresh' = [fresh EXCEPT ![t] = FALSE]
    /\ announced' = announced \cup {t}
    /\ UNCHANGED <<kvars, gvars, writes, wc>>

Application == \E t \in Tasks : WriteBegin(t) \/ WriteEnd(t)

-----------------------------------------------------------------------------
(* The agent. *)

\* RefreshSchedParams takes an index off the stream; RefreshSchedParam reads
\* the item's wcid, before or after a writer stored it.
RefreshSchedParam ==
    /\ At("params")
    /\ \E t \in announced :
         /\ announced' = announced \ {t}
         /\ \E src \in {item[t], draft[t]} \ {NoTask} : wc' = [sid |-> t, qos |-> src.qos]
    /\ pc' = "copy"
    /\ UNCHANGED <<kvars, sched, global_cpu, todo, item, draft, writes, fresh>>

RefreshEnds(to) ==
    /\ At("params") /\ announced = {}
    /\ pc' = to
    /\ UNCHANGED <<kvars, sched, global_cpu, todo, tvars>>

Locked(t) == draft[t] # NoTask

\* begin == seqcount_.
Elided(t) == fresh[t] /\ ~Locked(t)

\* SeqCopyParams: the cached copy afterwards.  qos_ is stored in either case; a
\* failed copy lets the thread be runnable until the writer announces it again.
SeqCopyParams(cached, t) ==
    IF Elided(t) THEN cached
    ELSE IF ~Locked(t) THEN [cached EXCEPT ![t] = [item[t] EXCEPT !.qos = wc.qos]]
    ELSE [cached EXCEPT ![t].qos = wc.qos, ![t].runnable = TRUE]

\* ... and its result.
Changed(cached, t) == ~Elided(t) /\ (~Locked(t) \/ ~cached[t].runnable)

\* The copy is made and the callback run, with this outcome for the scheduler;
\* engines are the items MakeEngineRunnable stored into.
Copied(after, engines) ==
    /\ At("copy")
    /\ sched' = after
    /\ item' = [t \in Tasks |-> [item[t] EXCEPT !.runnable = @ \/ t \in engines]]
    /\ fresh' = [fresh EXCEPT ![wc.sid] = @ \/ ~Locked(wc.sid)]
    /\ wc' = NoRefresh
    /\ pc' = "params"
    /\ UNCHANGED <<global_cpu, todo, draft, writes, announced>>

\* The CHECKs of MakeEngineRunnable, and the store into the cached copy.
MakeEngineRunnable(s, t) ==
    Check([s EXCEPT !.cached[t].runnable = TRUE],
          item[t].gpid /\ t \in Repeating /\ ~s.cached[t].runnable)

\* sp->GetQoS(), also of the dummy_sp of an orphan.
GetQoS(s, t) == IF t \in Orphans THEN 0 ELSE s.cached[t].qos
=============================================================================
