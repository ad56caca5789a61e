----------------------------- MODULE PrioTable -----------------------------
(***************************************************************************)
(* The priority table an application shares with the agents, shared/       *)
(* prio_table, and the agent's cached copy of it, the Orchestrator of      *)
(* schedulers/edf and schedulers/shinjuku.                                 *)
(*                                                                         *)
(* Application threads (Writers) change a sched item under its seqcount    *)
(* and then announce its index in a lossy stream: a hash table of          *)
(* st_cap cells with an overflow counter, scrape_all.  The agent (the only *)
(* reader) takes announcements and copies the items it hears of.  Every    *)
(* access to shared memory is a step of its own.                           *)
(***************************************************************************)
EXTENDS Integers, Functions

CONSTANTS Writers,      \* application threads
          NumItems,     \* hdr()->si_num
          Cap,          \* hdr()->st_cap
          Retries,      \* num_retries of MarkUpdatedIndex
          Deadlines,    \* values of the other fields of a sched item
          MaxWrites,    \* bound: the writes that begin
          Free          \* kStreamFreeEntry

ASSUME PrioTableAssumption ==
    /\ NumItems \in Nat \ {0} /\ Cap \in Nat \ {0} /\ Retries \in Nat
    /\ MaxWrites \in Nat /\ Free \notin 0 .. NumItems - 1 /\ 0 \in Deadlines

Sids == 0 .. NumItems - 1
Cells == 0 .. Cap - 1

\* The fields of a sched item: SCHED_ITEM_RUNNABLE of flags, and the rest.
Items == [runnable : BOOLEAN, deadline : Deadlines]
Zero == [runnable |-> FALSE, deadline |-> 0]

VARIABLES
    seq,        \* sched_item::seqcount
    item,       \* sched_item, the other fields
    entries,    \* stream::entries
    scrape_all, \* stream::scrape_all
    wpc,        \* writer: where it is
    wsid,       \* writer: the index being updated
    wtry,       \* writer: i of MarkUpdatedIndex's loop
    rpc,        \* agent: where it is
    rn,         \* agent: i of RefreshSchedParams's loop
    full_scan, ri,           \* agent: locals of NextUpdatedIndex
    sid, last,  \* agent: the item being refreshed, the last one to refresh
    begin, local,            \* agent: locals of SeqCopyParams
    cseq, cached             \* agent: cachedsids_[]

wvars == <<wpc, wsid, wtry>>
shared == <<seq, item, entries, scrape_all>>
rvars == <<rpc, rn, full_scan, ri, sid, last, begin, local, cseq, cached>>
vars == <<shared, wvars, rvars>>

kLocked == 1
Locked(n) == n % 2 = kLocked

WriterPCs == {"idle", "flags", "deadline", "end", "mark", "probe", "overflow"}
ReaderPCs == {"idle", "next", "xchg", "scan", "clear", "refresh", "flags",
              "deadline", "end"}

TypeOK ==
    /\ seq \in [Sids -> Nat] /\ item \in [Sids -> Items]
    /\ entries \in [Cells -> Sids \cup {Free}] /\ scrape_all \in Nat
    /\ wpc \in [Writers -> WriterPCs] /\ wsid \in [Writers -> Sids]
    /\ wtry \in [Writers -> 0 .. Retries]
    /\ rpc \in ReaderPCs /\ rn \in 0 .. Cap /\ full_scan \in BOOLEAN
    /\ ri \in 0 .. Cap /\ sid \in Sids /\ last \in Sids
    /\ begin \in Nat /\ local \in Items
    /\ cseq \in [Sids -> Nat] /\ cached \in [Sids -> Items]

\* Zeroed shared memory, with every cell of the stream free; value-initialised
\* SchedParams.
Init ==
    /\ seq = [s \in Sids |-> 0] /\ item = [s \in Sids |-> Zero]
    /\ entries = [i \in Cells |-> Free] /\ scrape_all = 0
    /\ wpc = [w \in Writers |-> "idle"] /\ wsid = [w \in Writers |-> 0]
    /\ wtry = [w \in Writers |-> 0]
    /\ rpc = "idle" /\ rn = 0 /\ full_scan = FALSE /\ ri = 0
    /\ sid = 0 /\ last = 0 /\ begin = 0 /\ local = Zero
    /\ cseq = [s \in Sids |-> 0] /\ cached = [s \in Sids |-> Zero]

-----------------------------------------------------------------------------
(* The application: SetSchedItem, MarkRunnability. *)

MayWrite == FoldFunction(LAMBDA n, k : (n + 1) \div 2 + k, 0, seq) < MaxWrites

\* A slip: write_begin does not wait for the other writer.
SetSchedItemNoSpin(w, s) ==
    /\ wpc[w] = "idle" /\ MayWrite
    /\ wsid' = [wsid EXCEPT ![w] = s]
    /\ seq' = [seq EXCEPT ![s] = @ + kLocked]
    /\ wpc' = [wpc EXCEPT ![w] = "flags"]
    /\ UNCHANGED <<item, entries, scrape_all, wtry, rvars>>

\* seqcount::write_begin gets past its spin and its compare_exchange.
SetSchedItem(w, s) ==
    /\ wpc[w] = "idle" /\ ~Locked(seq[s]) /\ MayWrite
    /\ wsid' = [wsid EXCEPT ![w] = s]
    /\ seq' = [seq EXCEPT ![s] = @ + kLocked]
    /\ wpc' = [wpc EXCEPT ![w] = "flags"]
    /\ UNCHANGED <<item, entries, scrape_all, wtry, rvars>>

\* MarkRunnability only stores the flags.
CopyFlags(w) ==
    /\ wpc[w] = "flags"
    /\ \E b \in BOOLEAN : item' = [item EXCEPT ![wsid[w]].runnable = b]
    /\ \E after \in {"deadline", "end"} : wpc' = [wpc EXCEPT ![w] = after]
    /\ UNCHANGED <<seq, entries, scrape_all, wsid, wtry, rvars>>

CopyDeadline(w) ==
    /\ wpc[w] = "deadline"
    /\ \E d \in Deadlines : item' = [item EXCEPT ![wsid[w]].deadline = d]
    /\ wpc' = [wpc EXCEPT ![w] = "end"]
    /\ UNCHANGED <<seq, entries, scrape_all, wsid, wtry, rvars>>

\* A slip: the update is not announced.
WriteEndNoMark(w) ==
    /\ wpc[w] = "end"
    /\ seq' = [seq EXCEPT ![wsid[w]] = @ + kLocked]
    /\ wpc' = [wpc EXCEPT ![w] = "idle"]
    /\ UNCHANGED <<item, entries, scrape_all, wsid, wtry, rvars>>

WriteEnd(w) ==
    /\ wpc[w] = "end"
    /\ seq' = [seq EXCEPT ![wsid[w]] = @ + kLocked]
    /\ wpc' = [wpc EXCEPT ![w] = "mark"]
    /\ UNCHANGED <<item, entries, scrape_all, wsid, wtry, rvars>>

\* MarkUpdatedIndex: already in overflow, or probe the stream.
MarkUpdatedIndex(w) ==
    /\ wpc[w] = "mark"
    /\ wpc' = [wpc EXCEPT ![w] = IF scrape_all > 0 THEN "overflow" ELSE "probe"]
    /\ UNCHANGED <<shared, wsid, wtry, rvars>>

\* The writer returns; its locals are gone.
WriterReturns(w) ==
    /\ wpc' = [wpc EXCEPT ![w] = "idle"]
    /\ wsid' = [wsid EXCEPT ![w] = 0] /\ wtry' = [wtry EXCEPT ![w] = 0]

\* The cell is free and the compare_exchange_weak stores the index there.
ProbeStores(w) ==
    LET i == (wsid[w] + wtry[w]) % Cap
    IN  /\ wpc[w] = "probe"
        /\ entries[i] = Free
        /\ entries' = [entries EXCEPT ![i] = wsid[w]]
        /\ WriterReturns(w)
        /\ UNCHANGED <<seq, item, scrape_all, rvars>>

\* A slip: one probe too many.
ProbeFailsLate(w) ==
    /\ wpc[w] = "probe"
    /\ IF wtry[w] <= Retries
         THEN wtry' = [wtry EXCEPT ![w] = @ + 1] /\ UNCHANGED wpc
         ELSE wpc' = [wpc EXCEPT ![w] = "overflow"] /\ UNCHANGED wtry
    /\ UNCHANGED <<shared, wsid, rvars>>

\* A slip: give up without setting scrape_all.
ProbeFailsSilently(w) ==
    /\ wpc[w] = "probe"
    /\ IF wtry[w] < Retries
         THEN wtry' = [wtry EXCEPT ![w] = @ + 1] /\ UNCHANGED <<wpc, wsid>>
         ELSE WriterReturns(w)
    /\ UNCHANGED <<shared, rvars>>

\* The cell is taken, or was when it was loaded, or the weak compare_exchange
\* fails for no reason: try the next one, and give up after num_retries.
ProbeFails(w) ==
    /\ wpc[w] = "probe"
    /\ IF wtry[w] < Retries
         THEN wtry' = [wtry EXCEPT ![w] = @ + 1] /\ UNCHANGED wpc
         ELSE wpc' = [wpc EXCEPT ![w] = "overflow"] /\ UNCHANGED wtry
    /\ UNCHANGED <<shared, wsid, rvars>>

Overflow(w) ==
    /\ wpc[w] = "overflow"
    /\ scrape_all' = scrape_all + 1
    /\ WriterReturns(w)
    /\ UNCHANGED <<seq, item, entries, rvars>>

Writer(w) ==
    \/ CopyFlags(w) \/ CopyDeadline(w) \/ WriteEnd(w)
    \/ MarkUpdatedIndex(w) \/ ProbeStores(w) \/ ProbeFails(w) \/ Overflow(w)

-----------------------------------------------------------------------------
(* The agent: RefreshSchedParams, called over and over by GlobalSchedule. *)

RefreshSchedParams ==
    /\ rpc = "idle"
    /\ rpc' = "next"
    /\ UNCHANGED <<shared, wvars, rn, full_scan, ri, sid, last, begin, local, cseq, cached>>

\* The loop's bound, then NextUpdatedIndex loads scrape_all.
NextUpdatedIndex ==
    /\ rpc = "next"
    /\ rpc' = IF rn = Cap THEN "idle" ELSE IF scrape_all > 0 THEN "xchg" ELSE "scan"
    /\ rn' = IF rn = Cap THEN 0 ELSE rn
    /\ UNCHANGED <<shared, wvars, full_scan, ri, sid, last, begin, local, cseq, cached>>

ExchangeScrapeAll ==
    /\ rpc = "xchg"
    /\ scrape_all' = 0
    /\ full_scan' = TRUE
    /\ rpc' = "scan"
    /\ UNCHANGED <<seq, item, entries, wvars, rn, ri, sid, last, begin, local, cseq,
                   cached>>

\* Load entries[i]; it stays as it is until the store that clears it.
ScanCell ==
    /\ rpc = "scan" /\ ri < Cap
    /\ IF entries[ri] = Free
         THEN ri' = ri + 1 /\ UNCHANGED rpc
         ELSE rpc' = "clear" /\ UNCHANGED ri
    /\ UNCHANGED <<shared, wvars, rn, full_scan, sid, last, begin, local, cseq, cached>>

\* A slip: return the first index found although it is a full scan.
ClearCellReturns ==
    /\ rpc = "clear"
    /\ entries' = [entries EXCEPT ![ri] = Free]
    /\ rpc' = "refresh" /\ ri' = 0 /\ sid' = entries[ri] /\ last' = entries[ri]
    /\ UNCHANGED <<seq, item, scrape_all, wvars, rn, full_scan, begin, local, cseq,
                   cached>>

\* entries[i].store(kStreamFreeEntry), and the return of idx unless full_scan.
ClearCell ==
    /\ rpc = "clear"
    /\ entries' = [entries EXCEPT ![ri] = Free]
    /\ IF full_scan
         THEN rpc' = "scan" /\ ri' = ri + 1 /\ UNCHANGED <<sid, last>>
         ELSE rpc' = "refresh" /\ ri' = 0 /\ sid' = entries[ri] /\ last' = entries[ri]
    /\ UNCHANGED <<seq, item, scrape_all, wvars, rn, full_scan, begin, local, cseq,
                   cached>>

\* kStreamOverflow: RefreshAllSchedParams; kStreamNoEntries: break.
ScanEnds ==
    /\ rpc = "scan" /\ ri = Cap
    /\ IF full_scan
         THEN rpc' = "refresh" /\ sid' = 0 /\ last' = NumItems - 1 /\ UNCHANGED rn
         ELSE rpc' = "idle" /\ rn' = 0 /\ UNCHANGED <<sid, last>>
    /\ ri' = 0
    /\ UNCHANGED <<shared, wvars, full_scan, begin, local, cseq, cached>>

\* RefreshSchedParam returns, and its locals are gone: the next sid of an
\* overflow, else the next index of the stream.
Refreshed ==
    /\ \/ /\ sid < last
          /\ rpc' = "refresh" /\ sid' = sid + 1 /\ UNCHANGED <<last, rn, full_scan>>
       \/ /\ sid = last /\ full_scan
          /\ rpc' = "idle" /\ sid' = 0 /\ last' = 0 /\ rn' = 0 /\ full_scan' = FALSE
       \/ /\ sid = last /\ ~full_scan
          /\ rpc' = "next" /\ sid' = 0 /\ last' = 0 /\ rn' = rn + 1
          /\ UNCHANGED full_scan
    /\ begin' = 0 /\ local' = Zero

\* SeqCopyParams: read_begin, elided when nothing changed.
ReadBegin ==
    /\ rpc = "refresh"
    /\ IF seq[sid] = cseq[sid]
         THEN Refreshed
         ELSE /\ begin' = seq[sid]
              /\ rpc' = "flags"
              /\ UNCHANGED <<sid, last, rn, full_scan, local>>
    /\ UNCHANGED <<shared, wvars, ri, cseq, cached>>

ReadFlags ==
    /\ rpc = "flags"
    /\ local' = [local EXCEPT !.runnable = item[sid].runnable]
    /\ rpc' = "deadline"
    /\ UNCHANGED <<shared, wvars, rn, full_scan, ri, sid, last, begin, cseq, cached>>

ReadDeadline ==
    /\ rpc = "deadline"
    /\ local' = [local EXCEPT !.deadline = item[sid].deadline]
    /\ rpc' = "end"
    /\ UNCHANGED <<shared, wvars, rn, full_scan, ri, sid, last, begin, cseq, cached>>

\* A slip: read_end does not look for a writer that was there at read_begin.
ReadEndLocked ==
    /\ rpc = "end"
    /\ IF begin = seq[sid]
         THEN /\ cseq' = [cseq EXCEPT ![sid] = begin]
              /\ cached' = [cached EXCEPT ![sid] = local]
         ELSE UNCHANGED <<cseq, cached>>
    /\ Refreshed
    /\ UNCHANGED <<shared, wvars, ri>>

\* read_end: keep the copy if no writer was or came in between; otherwise let
\* the item be runnable until the writer announces it again.  qos_, stored in either
\* case from a work class found before read_begin, is in Orchestrator.
ReadEnd ==
    /\ rpc = "end"
    /\ IF ~Locked(begin) /\ begin = seq[sid]
         THEN /\ cseq' = [cseq EXCEPT ![sid] = begin]
              /\ cached' = [cached EXCEPT ![sid] = local]
         ELSE IF ~cached[sid].runnable
         THEN /\ cseq' = [cseq EXCEPT ![sid] = begin]
              /\ cached' = [cached EXCEPT ![sid].runnable = TRUE]
         ELSE UNCHANGED <<cseq, cached>>
    /\ Refreshed
    /\ UNCHANGED <<shared, wvars, ri>>

\* A slip: the table is not told.
MakeEngineRunnableLocally(s) ==
    /\ rpc = "idle" /\ ~cached[s].runnable
    /\ cached' = [cached EXCEPT ![s].runnable = TRUE]
    /\ UNCHANGED <<shared, wvars, rpc, rn, full_scan, ri, sid, last, begin, local,
                   cseq>>

\* A paused repeatable is made runnable again by the agent itself, which stores
\* into the table without taking the item's seqcount.
MakeEngineRunnable(s) ==
    /\ rpc = "idle" /\ ~cached[s].runnable
    /\ cached' = [cached EXCEPT ![s].runnable = TRUE]
    /\ item' = [item EXCEPT ![s].runnable = TRUE]
    /\ UNCHANGED <<seq, entries, scrape_all, wvars, rpc, rn, full_scan, ri, sid, last,
                   begin, local, cseq>>

Reader ==
    \/ RefreshSchedParams \/ NextUpdatedIndex \/ ExchangeScrapeAll
    \/ ScanCell \/ ClearCell \/ ScanEnds
    \/ ReadBegin \/ ReadFlags \/ ReadDeadline \/ ReadEnd

Next ==
    \/ \E w \in Writers, s \in Sids : SetSchedItem(w, s)
    \/ \E w \in Writers : Writer(w)
    \/ Reader
    \/ \E s \in Sids : MakeEngineRunnable(s)

Spec == Init /\ [][Next]_vars

\* The agent keeps polling; a thread that began an update finishes it.
Fairness == WF_vars(Reader) /\ \A w \in Writers : WF_vars(Writer(w))

FairSpec == Spec /\ Fairness

-----------------------------------------------------------------------------
(* Properties. *)

Writing(w, s) == wsid[w] = s /\ wpc[w] \in {"flags", "deadline", "end"}
Marking(w, s) == wsid[w] = s /\ wpc[w] \in {"mark", "probe", "overflow"}

\* An announcement of s is on its way or in the stream.
Announced(s) ==
    \/ \E w \in Writers : Writing(w, s) \/ Marking(w, s)
    \/ \E i \in Cells : entries[i] = s
    \/ scrape_all > 0

Copying(s) == rpc \in {"flags", "deadline", "end"} /\ s = sid

\* The agent has taken the announcement and has yet to read the seqcount, or has
\* read the latest one, of no ongoing update.
BeingRefreshed(s) ==
    \/ full_scan /\ rpc \in {"scan", "clear"}
    \/ rpc = "refresh" /\ s \in sid .. last
    \/ rpc \in {"flags", "deadline", "end"} /\ s \in sid + 1 .. last
    \/ Copying(s) /\ begin = seq[s] /\ ~Locked(begin)

\* No update is lost: an item whose seqcount the agent has not caught up with is
\* announced or is being refreshed, however writers, overflows and the
\* non-atomic clearing of cells (NextUpdatedIndex) interleave.
NoLostUpdate ==
    \A s \in Sids : cseq[s] # seq[s] => Announced(s) \/ BeingRefreshed(s)

\* Eliding the copy of SeqCopyParams is right: when the seqcount has not moved and
\* nobody is writing, the cached item is the table's.
ElisionIsSafe ==
    \A s \in Sids : cseq[s] = seq[s] /\ ~Locked(seq[s]) => cached[s] = item[s]

\* When no application thread is updating, the stream is empty and the agent is
\* between two calls of RefreshSchedParams, the agent's copy is the table.
QuietIsFresh ==
    /\ \A w \in Writers : wpc[w] = "idle"
    /\ \A i \in Cells : entries[i] = Free
    /\ scrape_all = 0 /\ rpc = "idle"
    => cached = item

\* write_begin excludes: two threads never store into the same item at once, so
\* the DCHECK of write_end holds.
OneWriter ==
    \A v, w \in Writers, s \in Sids : Writing(v, s) /\ Writing(w, s) => v = w

\* SeqCopyParams never hands a torn item to the scheduler: what it saves is the
\* whole item as no thread is writing it, or the old copy made runnable.
NoTornCopy ==
    [][\A s \in Sids : cached'[s] # cached[s] =>
          \/ ~Locked(seq[s]) /\ cached'[s] = item[s]
          \/ cached'[s] = [cached[s] EXCEPT !.runnable = TRUE]]_vars

\* Once the application has stopped changing the items, the agent catches up with
\* all of them.
EventuallyFresh ==
    []((~MayWrite /\ \A s \in Sids : ~Locked(seq[s])) => <>(cached = item))
=============================================================================
