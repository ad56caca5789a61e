-------------------------- MODULE PrioTable_proofs --------------------------
(***************************************************************************)
(* Proofs about PrioTable, for any number of writers, items and cells.     *)
(***************************************************************************)
EXTENDS PrioTable, TLAPS

Refreshing == {"refresh", "flags", "deadline", "end"}

\* The agent's locals: the loop of RefreshSchedParams has iterations left, the
\* cell being cleared is taken, and only sids up to last are refreshed.
ReaderOK ==
    /\ rpc \in {"xchg", "scan", "clear"} \cup Refreshing => rn < Cap
    /\ rpc = "clear" => ri < Cap /\ entries[ri] # Free
    /\ sid <= last

\* A seqcount is locked exactly while a thread is storing into its item.
LockOK == \A s \in Sids : Locked(seq[s]) <=> \E w \in Writers : Writing(w, s)

\* The agent's seqcounts are never ahead of the table's.
SeqOK == \A s \in Sids : cseq[s] <= seq[s] /\ (Copying(s) => begin <= seq[s])

\* A copy that read_end will refuse is of an item that is, or will be, announced.
StaleIsAnnounced ==
    \A s \in Sids : Copying(s) /\ (begin # seq[s] \/ Locked(begin)) => Announced(s)

\* A copy that read_end would accept agrees with the item so far.
LocalOK ==
    Copying(sid) /\ begin = seq[sid] /\ ~Locked(begin) =>
        /\ rpc \in {"deadline", "end"} => local.runnable = item[sid].runnable
        /\ rpc = "end" => local.deadline = item[sid].deadline

IInv ==
    /\ TypeOK /\ ReaderOK /\ LockOK /\ OneWriter /\ SeqOK
    /\ NoLostUpdate /\ StaleIsAnnounced /\ LocalOK /\ ElisionIsSafe

-----------------------------------------------------------------------------

\* A seqcount that moves on leaves behind those it was not behind.
LEMMA Ahead == \A m, n \in Nat : m <= n => m <= n + kLocked /\ m # n + kLocked
  BY DEF kLocked

\* One more locks a free seqcount and frees a locked one.
LEMMA LockedFlips == \A n \in Nat : Locked(n + kLocked) <=> ~Locked(n)
  BY DEF Locked, kLocked

\* MarkUpdatedIndex probes inside the stream.
LEMMA ProbeInStream == ASSUME NEW n \in Nat PROVE n % Cap \in Cells
  BY PrioTableAssumption DEF Cells

\* The indices of the table.
LEMMA SidFacts ==
    /\ 0 \in Sids /\ NumItems - 1 \in Sids
    /\ \A s \in Sids : s \in Nat /\ s <= NumItems - 1
    /\ \A s, t \in Sids : s < t => s + 1 \in Sids
  BY PrioTableAssumption DEF Sids

\* Items stay items when one field is stored.
LEMMA ItemFacts ==
    /\ Zero \in Items
    /\ \A i \in Items, b \in BOOLEAN : [i EXCEPT !.runnable = b] \in Items
    /\ \A i \in Items, d \in Deadlines : [i EXCEPT !.deadline = d] \in Items
  BY PrioTableAssumption DEF Items, Zero

\* The zeroed table and the value-initialised copies satisfy the invariant.
LEMMA InitIInv == Init => IInv
<1> SUFFICES ASSUME Init PROVE IInv
  OBVIOUS
<1> USE PrioTableAssumption, SidFacts DEF Init
<1>1. TypeOK
  <2>1. 0 \in 0 .. Cap /\ 0 \in 0 .. Retries
    OBVIOUS
  <2> QED
    BY <2>1, ItemFacts, ZenonT(60) DEF TypeOK, WriterPCs, ReaderPCs
<1> USE DEF Locked, kLocked
<1>2. ReaderOK
  BY DEF ReaderOK, Refreshing
<1>3. LockOK /\ OneWriter
  BY DEF LockOK, OneWriter, Writing
<1>4. SeqOK /\ StaleIsAnnounced /\ LocalOK
  BY DEF SeqOK, StaleIsAnnounced, LocalOK, Copying
<1>5. NoLostUpdate /\ ElisionIsSafe
  BY DEF NoLostUpdate, ElisionIsSafe
<1> QED
  BY <1>1, <1>2, <1>3, <1>4, <1>5 DEF IInv

-----------------------------------------------------------------------------
(* Type correctness is inductive with ReaderOK. *)

\* What the end of a RefreshSchedParam does to the agent's locals: the sids after
\* this one are still to be refreshed.
LEMMA RefreshedStep ==
  ASSUME TypeOK, ReaderOK, rpc \in Refreshing, Refreshed
  PROVE  /\ rpc' \in {"refresh", "idle", "next"} /\ full_scan' \in BOOLEAN
         /\ sid' \in Sids /\ last' \in Sids /\ rn' \in 0 .. Cap
         /\ begin' \in Nat /\ local' \in Items
         /\ sid' <= last' /\ (rpc' = "refresh" => rn' < Cap)
         /\ \A s \in Sids : s \in sid + 1 .. last =>
               rpc' = "refresh" /\ s \in sid' .. last'
<1> USE PrioTableAssumption, SidFacts DEF TypeOK, ReaderOK, Refreshed
<1>1. begin' \in Nat /\ local' \in Items
  BY ItemFacts
<1>2. full_scan' \in BOOLEAN
  BY ZenonT(60)
<1>3. rn < Cap /\ rn \in Nat /\ sid \in Nat /\ last \in Nat
  BY DEF Refreshing
<1>4. CASE sid < last
  <2>1. /\ rpc' = "refresh" /\ sid' = sid + 1 /\ UNCHANGED <<last, rn, full_scan>>
    BY <1>3, <1>4
  <2> QED
    BY <1>1, <1>2, <1>3, <1>4, <2>1
<1>5. CASE sid = last
  <2>1. rpc' \in {"idle", "next"} /\ sid' = 0 /\ last' = 0 /\ rn' \in {0, rn + 1}
    BY <1>3, <1>5
  <2> QED
    BY <1>1, <1>2, <1>3, <1>5, <2>1
<1> QED
  BY <1>3, <1>4, <1>5

\* Every step of a writer or of the agent keeps the variables in their types.
LEMMA TypeStep == ASSUME TypeOK, ReaderOK, [Next]_vars PROVE TypeOK'
<1> USE PrioTableAssumption, SidFacts DEF TypeOK, ReaderOK, WriterPCs, ReaderPCs, wvars, shared,
       rvars
<1>1. ASSUME NEW w \in Writers, NEW s \in Sids, SetSchedItem(w, s) PROVE TypeOK'
  BY <1>1 DEF SetSchedItem, kLocked
<1>2. ASSUME NEW w \in Writers, CopyFlags(w) PROVE TypeOK'
  BY <1>2, ItemFacts DEF CopyFlags
<1>3. ASSUME NEW w \in Writers, CopyDeadline(w) PROVE TypeOK'
  BY <1>3, ItemFacts DEF CopyDeadline
<1>4. ASSUME NEW w \in Writers, WriteEnd(w) PROVE TypeOK'
  BY <1>4 DEF WriteEnd, kLocked
<1>5. ASSUME NEW w \in Writers, MarkUpdatedIndex(w) PROVE TypeOK'
  BY <1>5 DEF MarkUpdatedIndex
<1>6. ASSUME NEW w \in Writers, ProbeStores(w) PROVE TypeOK'
  <2>1. (wsid[w] + wtry[w]) % Cap \in Cells
    BY ProbeInStream
  <2> QED
    BY <1>6, <2>1 DEF ProbeStores, WriterReturns
<1>7. ASSUME NEW w \in Writers, ProbeFails(w) PROVE TypeOK'
  BY <1>7 DEF ProbeFails
<1>8. ASSUME NEW w \in Writers, Overflow(w) PROVE TypeOK'
  BY <1>8 DEF Overflow, WriterReturns
<1>9. CASE RefreshSchedParams
  BY <1>9 DEF RefreshSchedParams
<1>10. CASE NextUpdatedIndex
  BY <1>10 DEF NextUpdatedIndex
<1>11. CASE ExchangeScrapeAll
  BY <1>11 DEF ExchangeScrapeAll
<1>12. CASE ScanCell
  BY <1>12 DEF ScanCell
<1>13. CASE ClearCell
  <2>1. ri < Cap /\ ri \in Cells /\ entries[ri] \in Sids
    BY <1>13 DEF ClearCell, Cells
  <2> QED
    BY <1>13, <2>1 DEF ClearCell
<1>14. CASE ScanEnds
  BY <1>14 DEF ScanEnds
<1>15. CASE ReadBegin
  <2>1. CASE seq[sid] = cseq[sid]
    <3>1. Refreshed /\ rpc \in Refreshing
      BY <1>15, <2>1 DEF ReadBegin, Refreshing
    <3> QED
      BY <1>15, <3>1, RefreshedStep DEF ReadBegin
  <2>2. CASE seq[sid] # cseq[sid]
    BY <1>15, <2>2 DEF ReadBegin
  <2> QED
    BY <2>1, <2>2
<1>16. CASE ReadFlags
  BY <1>16, ZenonT(60) DEF ReadFlags, Items
<1>17. CASE ReadDeadline
  BY <1>17, Zenon DEF ReadDeadline, Items
<1>18. CASE ReadEnd
  <2>1. Refreshed /\ rpc \in Refreshing
    BY <1>18 DEF ReadEnd, Refreshing
  <2>2. cseq' \in [Sids -> Nat]
    BY <1>18 DEF ReadEnd
  <2>3. cached' \in [Sids -> Items]
    <3>1. \A i \in Items : [i EXCEPT !.runnable = TRUE] \in Items
      BY ItemFacts, ZenonT(60)
    <3> QED
      BY <1>18, <3>1 DEF ReadEnd
  <2> QED
    BY <1>18, <2>1, <2>2, <2>3, RefreshedStep DEF ReadEnd
<1>19. ASSUME NEW s \in Sids, MakeEngineRunnable(s) PROVE TypeOK'
  BY <1>19, ItemFacts, ZenonT(60) DEF MakeEngineRunnable
<1>20. CASE UNCHANGED vars
  BY <1>20 DEF vars
<1> QED
  BY <1>1, <1>2, <1>3, <1>4, <1>5, <1>6, <1>7, <1>8, <1>9, <1>10, <1>11, <1>12, <1>13,
     <1>14, <1>15, <1>16, <1>17, <1>18, <1>19, <1>20, ZenonT(60) DEF Next, Writer, Reader

-----------------------------------------------------------------------------
(* The steps of a writer. *)

\* A writer that announces disturbs nothing but the stream: it is enough that
\* whatever was announced still is.
LEMMA AnnouncingStep ==
  ASSUME IInv, TypeOK', UNCHANGED <<seq, item, rvars>>,
         \A w \in Writers, s \in Sids : Writing(w, s)' <=> Writing(w, s),
         \A s \in Sids : Announced(s) => Announced(s)',
         rpc = "clear" => entries'[ri] # Free
  PROVE  IInv'
<1> USE DEF IInv, rvars
<1>1. ReaderOK' /\ SeqOK' /\ LocalOK' /\ ElisionIsSafe'
  BY DEF ReaderOK, SeqOK, LocalOK, ElisionIsSafe, Copying
<1>2. LockOK' /\ OneWriter'
  BY DEF LockOK, OneWriter
<1>3. NoLostUpdate' /\ StaleIsAnnounced'
  BY DEF NoLostUpdate, StaleIsAnnounced, BeingRefreshed, Copying
<1> QED
  BY <1>1, <1>2, <1>3

\* MarkUpdatedIndex reads scrape_all: the update stays in the writer's hands.
LEMMA MarkUpdatedIndexStep ==
  ASSUME IInv, TypeOK', NEW w \in Writers, MarkUpdatedIndex(w) PROVE IInv'
<1> USE DEF MarkUpdatedIndex, shared, IInv, TypeOK
<1>1. \A v \in Writers, s \in Sids : Writing(v, s)' <=> Writing(v, s)
  BY DEF Writing
<1>2. \A s \in Sids : Announced(s) => Announced(s)'
  BY <1>1 DEF Announced, Marking
<1>3. rpc = "clear" => entries'[ri] # Free
  BY DEF ReaderOK
<1> QED
  BY <1>1, <1>2, <1>3, AnnouncingStep DEF rvars

\* A taken cell: the writer still has its index to announce.
LEMMA ProbeFailsStep ==
  ASSUME IInv, TypeOK', NEW w \in Writers, ProbeFails(w) PROVE IInv'
<1> USE DEF ProbeFails, shared, IInv, TypeOK
<1>1. \A v \in Writers, s \in Sids : Writing(v, s)' <=> Writing(v, s)
  BY DEF Writing
<1>2. \A s \in Sids : Announced(s) => Announced(s)'
  BY <1>1 DEF Announced, Marking
<1>3. rpc = "clear" => entries'[ri] # Free
  BY DEF ReaderOK
<1> QED
  BY <1>1, <1>2, <1>3, AnnouncingStep DEF rvars

\* The index is in the stream before the writer forgets it.
LEMMA ProbeStoresStep ==
  ASSUME IInv, TypeOK', NEW w \in Writers, ProbeStores(w) PROVE IInv'
<1> USE DEF ProbeStores, WriterReturns, shared, IInv, TypeOK
<1>1. \A v \in Writers, s \in Sids : Writing(v, s)' <=> Writing(v, s)
  BY DEF Writing
<1> DEFINE i == (wsid[w] + wtry[w]) % Cap
<1>2. i \in Cells
  BY SidFacts, ProbeInStream
<1>3. entries[i] = Free /\ entries'[i] = wsid[w]
      /\ \A j \in Cells : j # i => entries'[j] = entries[j]
  BY <1>2
<1>4. wsid[w] # Free /\ Free \notin Sids
  BY PrioTableAssumption DEF Sids
<1>5. \A s \in Sids : Announced(s) => Announced(s)'
  BY <1>1, <1>2, <1>3, <1>4 DEF Announced, Marking
<1>6. rpc = "clear" => entries'[ri] # Free
  <2>1. rpc = "clear" => ri \in Cells /\ entries[ri] # Free
    BY PrioTableAssumption DEF ReaderOK, Cells
  <2> QED
    BY <1>2, <1>3, <1>4, <2>1
<1> QED
  BY <1>1, <1>5, <1>6, AnnouncingStep DEF rvars

\* scrape_all is incremented before the writer forgets its index.
LEMMA OverflowStep ==
  ASSUME IInv, TypeOK', NEW w \in Writers, Overflow(w) PROVE IInv'
<1> USE DEF Overflow, WriterReturns, shared, IInv, TypeOK
<1>1. \A v \in Writers, s \in Sids : Writing(v, s)' <=> Writing(v, s)
  BY DEF Writing
<1>2. \A s \in Sids : Announced(s)'
  BY DEF Announced
<1>3. rpc = "clear" => entries'[ri] # Free
  BY DEF ReaderOK
<1> QED
  BY <1>1, <1>2, <1>3, AnnouncingStep DEF rvars

\* write_begin: the item's only writer, and from now on the item is announced.
LEMMA SetSchedItemStep ==
  ASSUME IInv, TypeOK', NEW w \in Writers, NEW t \in Sids, SetSchedItem(w, t)
  PROVE  IInv'
<1> USE DEF SetSchedItem, rvars, IInv, TypeOK
<1>1. \A v \in Writers, s \in Sids :
         Writing(v, s)' <=> Writing(v, s) \/ (v = w /\ s = t)
  BY DEF Writing
<1>2. ~ \E v \in Writers : Writing(v, t)
  BY DEF LockOK
<1>3. /\ seq'[t] = seq[t] + kLocked /\ Locked(seq'[t])
      /\ \A s \in Sids : s # t => seq'[s] = seq[s]
  BY LockedFlips
<1>4. LockOK' /\ OneWriter'
  BY <1>1, <1>2, <1>3 DEF LockOK, OneWriter
<1>5. \A s \in Sids : Announced(s) => Announced(s)'
  BY <1>1 DEF Announced, Marking, Writing
<1>6. Announced(t)'
  BY <1>1 DEF Announced
<1>7. ReaderOK'
  BY DEF ReaderOK
<1>8. SeqOK'
  BY <1>3 DEF SeqOK, kLocked, Copying
<1>9. NoLostUpdate'
  BY <1>3, <1>5, <1>6 DEF NoLostUpdate, BeingRefreshed, Copying
<1>10. StaleIsAnnounced'
  BY <1>3, <1>5, <1>6 DEF StaleIsAnnounced, Copying
<1>11. LocalOK'
  BY <1>3 DEF LocalOK, Copying
<1>12. ElisionIsSafe'
  BY <1>3 DEF ElisionIsSafe
<1> QED
  BY <1>4, <1>7, <1>8, <1>9, <1>10, <1>11, <1>12

\* A store into a locked item: no copy of it can be accepted.
LEMMA StoreStep ==
  ASSUME IInv, TypeOK', NEW w \in Writers, wpc[w] \in {"flags", "deadline"},
         wpc' \in {[wpc EXCEPT ![w] = "deadline"], [wpc EXCEPT ![w] = "end"]},
         \A s \in Sids : s # wsid[w] => item'[s] = item[s],
         UNCHANGED <<seq, entries, scrape_all, wsid, wtry, rvars>>
  PROVE  IInv'
<1> USE DEF rvars, IInv, TypeOK
<1>1. \A v \in Writers, s \in Sids : Writing(v, s)' <=> Writing(v, s)
  BY Zenon DEF Writing
<1>2. \A s \in Sids : Announced(s)' <=> Announced(s)
  BY <1>1 DEF Announced, Marking
<1>3. Locked(seq[wsid[w]])
  BY DEF LockOK, Writing
<1>4. LockOK' /\ OneWriter'
  BY <1>1 DEF LockOK, OneWriter
<1>5. ReaderOK' /\ SeqOK'
  BY Zenon DEF ReaderOK, SeqOK, Copying
<1>6. NoLostUpdate' /\ StaleIsAnnounced'
  BY <1>2, Zenon DEF NoLostUpdate, StaleIsAnnounced, BeingRefreshed, Copying
<1>7. LocalOK' /\ ElisionIsSafe'
  BY <1>3, ZenonT(60) DEF LocalOK, ElisionIsSafe, Copying
<1> QED
  BY <1>4, <1>5, <1>6, <1>7

\* CopySchedItem stores flags.
LEMMA CopyFlagsStep ==
  ASSUME IInv, TypeOK', NEW w \in Writers, CopyFlags(w) PROVE IInv'
<1>1. /\ wpc[w] \in {"flags", "deadline"}
      /\ wpc' \in {[wpc EXCEPT ![w] = "deadline"], [wpc EXCEPT ![w] = "end"]}
      /\ UNCHANGED <<seq, entries, scrape_all, wsid, wtry, rvars>>
  BY ZenonT(60) DEF CopyFlags
<1>2. \A s \in Sids : s # wsid[w] => item'[s] = item[s]
  BY DEF CopyFlags, IInv, TypeOK
<1> QED
  BY <1>1, <1>2, StoreStep

\* CopySchedItem stores the other fields.
LEMMA CopyDeadlineStep ==
  ASSUME IInv, TypeOK', NEW w \in Writers, CopyDeadline(w) PROVE IInv'
<1>1. /\ wpc[w] \in {"flags", "deadline"}
      /\ wpc' \in {[wpc EXCEPT ![w] = "deadline"], [wpc EXCEPT ![w] = "end"]}
      /\ UNCHANGED <<seq, entries, scrape_all, wsid, wtry, rvars>>
  BY DEF CopyDeadline
<1>2. \A s \in Sids : s # wsid[w] => item'[s] = item[s]
  BY DEF CopyDeadline, IInv, TypeOK
<1> QED
  BY <1>1, <1>2, StoreStep

\* write_end: the seqcount moves on, and the writer has yet to announce it.
LEMMA WriteEndStep ==
  ASSUME IInv, TypeOK', NEW w \in Writers, WriteEnd(w) PROVE IInv'
<1>0. /\ TypeOK /\ ReaderOK /\ LockOK /\ OneWriter /\ SeqOK
      /\ NoLostUpdate /\ StaleIsAnnounced /\ LocalOK /\ ElisionIsSafe
  BY DEF IInv
<1>t. PICK t \in Sids : t = wsid[w]
  BY <1>0 DEF TypeOK
<1>a. /\ wpc[w] = "end" /\ wpc' = [wpc EXCEPT ![w] = "mark"]
      /\ seq' = [seq EXCEPT ![t] = seq[t] + kLocked]
      /\ item' = item /\ entries' = entries /\ scrape_all' = scrape_all
      /\ wsid' = wsid /\ wtry' = wtry /\ UNCHANGED rvars
  BY <1>t, Zenon DEF WriteEnd
<1>b. /\ rpc' = rpc /\ rn' = rn /\ full_scan' = full_scan /\ ri' = ri /\ sid' = sid
      /\ last' = last /\ begin' = begin /\ local' = local /\ cseq' = cseq
      /\ cached' = cached /\ \A s \in Sids : Copying(s)' <=> Copying(s)
  BY <1>a, Zenon DEF rvars, Copying
<1>c. /\ \A s \in Sids : seq[s] \in Nat /\ cseq[s] \in Nat
      /\ begin \in Nat /\ wpc \in [Writers -> WriterPCs] /\ seq \in [Sids -> Nat]
  BY <1>0, Zenon DEF TypeOK
<1>1. /\ Writing(w, t) /\ Marking(w, t)' /\ \A s \in Sids : Writing(w, s) => s = t
      /\ \A v \in Writers, s \in Sids : Writing(v, s)' <=> Writing(v, s) /\ v # w
      /\ \A v \in Writers, s \in Sids : Marking(v, s) => Marking(v, s)'
  BY <1>a, <1>c, <1>t DEF Writing, Marking
<1>2. Locked(seq[t]) /\ \A v \in Writers : Writing(v, t) => v = w
  BY <1>0, <1>1, <1>c, Zenon DEF LockOK, OneWriter
<1>3. /\ seq'[t] = seq[t] + kLocked /\ ~Locked(seq'[t])
      /\ \A s \in Sids : s # t => seq'[s] = seq[s]
  BY <1>2, <1>a, <1>c, LockedFlips, Zenon
<1>4. LockOK' /\ OneWriter'
  <2>1. ASSUME NEW s \in Sids  PROVE Locked(seq[s])' <=> \E v \in Writers : Writing(v, s)'
    <3>1. CASE s = t
      BY <1>1, <1>2, <1>3, <3>1, Zenon DEF Locked
    <3>2. CASE s # t
      BY <1>0, <1>1, <1>3, <3>2, Zenon DEF LockOK, Locked
    <3> QED
      BY <3>1, <3>2, Zenon
  <2>2. OneWriter'
    BY <1>0, <1>1, Zenon DEF OneWriter
  <2> QED
    BY <2>1, <2>2, Zenon DEF LockOK
<1>5. Announced(t)' /\ \A s \in Sids : Announced(s) => Announced(s)'
  BY <1>1, <1>a, <1>c, Zenon DEF Announced
<1>6. ReaderOK'
  BY <1>0, <1>a, <1>b, Zenon DEF ReaderOK
<1>7. SeqOK'
  <2>1. ASSUME NEW s \in Sids  PROVE cseq[s] <= seq'[s] /\ (Copying(s) => begin <= seq'[s])
    <3>1. cseq[s] <= seq[s] /\ (Copying(s) => begin <= seq[s])
      BY <1>0, Zenon DEF SeqOK
    <3>2. CASE s = t
      <4>1. seq'[s] = seq[s] + kLocked
        BY <1>3, <3>2
      <4>2. cseq[s] <= seq[s] + kLocked /\ (Copying(s) => begin <= seq[s] + kLocked)
        BY <1>c, <3>1, Ahead
      <4> QED
        BY <4>1, <4>2, Zenon
    <3>3. CASE s # t
      BY <1>3, <3>1, <3>3, Zenon
    <3> QED
      BY <3>2, <3>3, Zenon
  <2> QED
    BY <1>b, <2>1, Zenon DEF SeqOK
<1>8. NoLostUpdate'
  <2> SUFFICES ASSUME NEW s \in Sids, s # t, cseq[s] # seq[s], ~Announced(s)
               PROVE  BeingRefreshed(s)'
    BY <1>3, <1>5, <1>b, Zenon DEF NoLostUpdate
  <2>1. BeingRefreshed(s) /\ seq'[s] = seq[s]
    BY <1>0, <1>3, Zenon DEF NoLostUpdate
  <2> QED
    BY <1>b, <2>1, Zenon DEF BeingRefreshed, Locked
<1>9. StaleIsAnnounced'
  BY <1>0, <1>3, <1>5, <1>b, Zenon DEF StaleIsAnnounced
<1>10. cseq[t] # seq'[t] /\ (Copying(t) => begin # seq'[t])
  BY <1>0, <1>3, <1>c, Ahead, Zenon DEF SeqOK
<1>11. LocalOK'
  BY <1>0, <1>3, <1>10, <1>a, <1>b, <1>c, Zenon DEF LocalOK, TypeOK
<1>12. ElisionIsSafe'
  BY <1>0, <1>3, <1>10, <1>a, <1>b, Zenon DEF ElisionIsSafe
<1> QED
  BY <1>4, <1>6, <1>7, <1>8, <1>9, <1>11, <1>12, Zenon DEF IInv

\* A step that leaves the writers, the items and the agent's copies alone.
LEMMA AgentLocalStep ==
  ASSUME IInv, TypeOK', UNCHANGED <<seq, item, wvars, cseq, cached>>,
         ReaderOK', (SeqOK /\ StaleIsAnnounced /\ LocalOK)',
         \A s \in Sids : cseq[s] # seq[s] => (Announced(s) \/ BeingRefreshed(s))'
  PROVE  IInv'
<1>1. LockOK' /\ OneWriter'
  BY DEF IInv, LockOK, OneWriter, Writing, wvars
<1>2. NoLostUpdate' /\ ElisionIsSafe'
  BY DEF IInv, NoLostUpdate, ElisionIsSafe
<1> QED
  BY <1>1, <1>2 DEF IInv

\* Outside SeqCopyParams there is no copy to speak of.
LEMMA NotCopying ==
  ASSUME IInv, UNCHANGED <<seq, cseq>>, rpc' \notin {"flags", "deadline", "end"}
  PROVE  (SeqOK /\ StaleIsAnnounced /\ LocalOK)'
  BY DEF IInv, SeqOK, StaleIsAnnounced, LocalOK, Copying

\* RefreshSchedParams begins: nothing shared changes.
LEMMA RefreshSchedParamsStep ==
  ASSUME IInv, TypeOK', RefreshSchedParams PROVE IInv'
<1> USE DEF RefreshSchedParams, shared, wvars
<1>1. ReaderOK'
  BY DEF IInv, ReaderOK, Refreshing
<1>2. \A s \in Sids : cseq[s] # seq[s] => Announced(s)'
  BY DEF IInv, NoLostUpdate, Announced, Writing, Marking, BeingRefreshed, Copying
<1> QED
  BY <1>1, <1>2, AgentLocalStep, NotCopying

\* NextUpdatedIndex reads scrape_all, or the loop has reached st_cap.
LEMMA NextUpdatedIndexStep ==
  ASSUME IInv, TypeOK', NextUpdatedIndex PROVE IInv'
<1> USE DEF NextUpdatedIndex, shared, wvars
<1>1. ReaderOK'
  BY PrioTableAssumption DEF IInv, TypeOK, ReaderOK, Refreshing
<1>2. \A s \in Sids : cseq[s] # seq[s] => Announced(s)'
  BY DEF IInv, NoLostUpdate, Announced, Writing, Marking, BeingRefreshed, Copying
<1> QED
  BY <1>1, <1>2, AgentLocalStep, NotCopying

\* From the exchange on, everything is refreshed.
LEMMA ExchangeScrapeAllStep ==
  ASSUME IInv, TypeOK', ExchangeScrapeAll PROVE IInv'
<1> USE DEF ExchangeScrapeAll, wvars
<1>1. ReaderOK'
  BY DEF IInv, ReaderOK, Refreshing
<1>2. \A s \in Sids : BeingRefreshed(s)'
  BY DEF BeingRefreshed
<1> QED
  BY <1>1, <1>2, AgentLocalStep, NotCopying

\* A cell is read: the announcement in it is still there.
LEMMA ScanCellStep ==
  ASSUME IInv, TypeOK', ScanCell PROVE IInv'
<1> USE DEF ScanCell, shared, wvars
<1>1. ReaderOK'
  BY DEF IInv, TypeOK, ReaderOK, Refreshing
<1>2. \A s \in Sids : cseq[s] # seq[s] => (Announced(s) \/ BeingRefreshed(s))'
  BY DEF IInv, NoLostUpdate, Announced, Writing, Marking, BeingRefreshed, Copying
<1>3. rpc' \notin {"flags", "deadline", "end"}
  OBVIOUS
<1> QED
  BY <1>1, <1>2, <1>3, AgentLocalStep, NotCopying

\* The only announcement that clearing a cell takes is one the agent now holds.
LEMMA ClearCellStep ==
  ASSUME IInv, TypeOK', ClearCell PROVE IInv'
<1> USE DEF ClearCell, wvars
<1>1. ri \in Cells /\ entries[ri] \in Sids /\ rn < Cap
  BY PrioTableAssumption DEF IInv, TypeOK, ReaderOK, Cells
<1>2. ReaderOK'
  BY <1>1, SidFacts DEF IInv, TypeOK, ReaderOK, Refreshing
<1>3. \A s \in Sids : Announced(s) => Announced(s)' \/ s = entries[ri]
  BY <1>1, ZenonT(60) DEF IInv, TypeOK, Announced, Writing, Marking
<1>4. \A s \in Sids : cseq[s] # seq[s] => (Announced(s) \/ BeingRefreshed(s))'
  <2>1. CASE full_scan
    BY <2>1, Zenon DEF BeingRefreshed
  <2>2. CASE ~full_scan
    <3>1. \A s \in Sids : s = entries[ri] => BeingRefreshed(s)'
      BY <1>1, <2>2, SidFacts DEF BeingRefreshed
    <3>2. \A s \in Sids : ~BeingRefreshed(s)
      BY <2>2 DEF BeingRefreshed, Copying
    <3> QED
      BY <1>3, <3>1, <3>2 DEF IInv, NoLostUpdate
  <2> QED
    BY <2>1, <2>2
<1>5. rpc' \notin {"flags", "deadline", "end"}
  OBVIOUS
<1> QED
  BY <1>2, <1>4, <1>5, AgentLocalStep, NotCopying

\* The scan is over: a full one leads to the refresh of every item.
LEMMA ScanEndsStep ==
  ASSUME IInv, TypeOK', ScanEnds PROVE IInv'
<1> USE DEF ScanEnds, shared, wvars
<1>1. ReaderOK'
  BY PrioTableAssumption, SidFacts, Zenon DEF IInv, TypeOK, ReaderOK, Refreshing
<1>2. \A s \in Sids : cseq[s] # seq[s] => (Announced(s) \/ BeingRefreshed(s))'
  <2>1. CASE full_scan
    BY <2>1, SidFacts, PrioTableAssumption DEF BeingRefreshed
  <2>2. CASE ~full_scan
    <3>1. \A s \in Sids : ~BeingRefreshed(s)
      BY <2>2 DEF BeingRefreshed, Copying
    <3>2. \A s \in Sids : Announced(s) => Announced(s)'
      BY DEF Announced, Writing, Marking
    <3> QED
      BY <3>1, <3>2 DEF IInv, NoLostUpdate
  <2> QED
    BY <2>1, <2>2
<1>3. rpc' \notin {"flags", "deadline", "end"}
  OBVIOUS
<1> QED
  BY <1>1, <1>2, <1>3, AgentLocalStep, NotCopying

\* Every item from sid on is being refreshed, but for a stale copy of sid.
LEMMA ReadBeginStep ==
  ASSUME IInv, TypeOK', ReadBegin PROVE IInv'
<1> USE DEF ReadBegin, shared, wvars
<1>1. \A s \in Sids : Announced(s)' <=> Announced(s)
  BY DEF Announced, Writing, Marking
<1>2. sid \in Sids /\ sid \in Nat /\ last \in Nat /\ seq[sid] \in Nat
  BY SidFacts DEF IInv, TypeOK
<1>3. \A s \in Sids : BeingRefreshed(s) => s = sid \/ s \in sid + 1 .. last
  BY <1>2, SidFacts DEF BeingRefreshed, Copying
<1>4. CASE seq[sid] = cseq[sid]
  <2>1. Refreshed /\ rpc \in Refreshing
    BY <1>4 DEF Refreshing
  <2>2. /\ ReaderOK' /\ rpc' \notin {"flags", "deadline", "end"}
        /\ \A s \in Sids : s \in sid + 1 .. last => BeingRefreshed(s)'
    BY <2>1, RefreshedStep, Zenon DEF IInv, ReaderOK, Refreshing, BeingRefreshed
  <2>3. \A s \in Sids : cseq[s] # seq[s] => (Announced(s) \/ BeingRefreshed(s))'
    BY <1>1, <1>3, <1>4, <2>2 DEF IInv, NoLostUpdate
  <2> QED
    BY <2>2, <2>3, AgentLocalStep, NotCopying
<1>5. CASE seq[sid] # cseq[sid]
  <2>1. ReaderOK'
    BY <1>5 DEF IInv, ReaderOK, Refreshing
  <2>2. begin' = seq[sid] /\ rpc' = "flags" /\ UNCHANGED <<sid, last, rn, full_scan>>
    BY <1>5
  <2>3. Locked(seq[sid]) => Announced(sid)
    BY <1>2 DEF IInv, LockOK, Announced
  <2>4. (SeqOK /\ StaleIsAnnounced /\ LocalOK)'
    <3>1. /\ cseq' = cseq /\ seq' = seq /\ item' = item /\ local' = local
          /\ \A s \in Sids : Copying(s)' <=> s = sid
      BY <1>5, <2>2 DEF Copying
    <3>2. SeqOK'
      BY <1>2, <2>2, <3>1 DEF IInv, SeqOK
    <3>3. StaleIsAnnounced'
      BY <1>1, <2>2, <2>3, <3>1, ZenonT(60) DEF StaleIsAnnounced
    <3>4. LocalOK'
      BY <2>2, ZenonT(60) DEF LocalOK
    <3> QED
      BY <3>2, <3>3, <3>4, Zenon
  <2>5. \A s \in Sids : s \in sid + 1 .. last => BeingRefreshed(s)'
    BY <2>2 DEF BeingRefreshed
  <2>6. ~Locked(seq[sid]) => BeingRefreshed(sid)'
    BY <1>2, <2>2 DEF BeingRefreshed, Copying
  <2>7. \A s \in Sids : cseq[s] # seq[s] => (Announced(s) \/ BeingRefreshed(s))'
    BY <1>1, <1>3, <2>3, <2>5, <2>6 DEF IInv, NoLostUpdate
  <2> QED
    BY <2>1, <2>4, <2>7, AgentLocalStep
<1> QED
  BY <1>4, <1>5

\* While no field changes under the copy, what has been copied stays right.
LEMMA ReadFlagsStep ==
  ASSUME IInv, TypeOK', ReadFlags PROVE IInv'
<1> USE DEF ReadFlags, shared, wvars
<1>1. \A s \in Sids : Announced(s)' <=> Announced(s)
  BY DEF Announced, Writing, Marking
<1>2. ReaderOK'
  BY DEF IInv, ReaderOK, Refreshing
<1>3. (SeqOK /\ StaleIsAnnounced)'
  BY <1>1 DEF IInv, SeqOK, StaleIsAnnounced, Copying
<1>4. LocalOK'
  <2>1. local' = [local EXCEPT !.runnable = item[sid].runnable] /\ local \in Items
    BY DEF IInv, TypeOK
  <2>2. local'.runnable = item[sid].runnable
    BY <2>1 DEF Items
  <2> QED
    BY <2>2 DEF LocalOK, Copying
<1>5. \A s \in Sids : cseq[s] # seq[s] => (Announced(s) \/ BeingRefreshed(s))'
  BY <1>1 DEF IInv, NoLostUpdate, BeingRefreshed, Copying
<1> QED
  BY <1>2, <1>3, <1>4, <1>5, AgentLocalStep

\* SeqCopyParams reads the other fields.
LEMMA ReadDeadlineStep ==
  ASSUME IInv, TypeOK', ReadDeadline PROVE IInv'
<1> USE DEF ReadDeadline, shared, wvars
<1>1. \A s \in Sids : Announced(s)' <=> Announced(s)
  BY DEF Announced, Writing, Marking
<1>2. ReaderOK'
  BY DEF IInv, ReaderOK, Refreshing
<1>3. (SeqOK /\ StaleIsAnnounced)'
  BY <1>1 DEF IInv, SeqOK, StaleIsAnnounced, Copying
<1>4. LocalOK'
  <2>1. local' = [local EXCEPT !.deadline = item[sid].deadline] /\ local \in Items
    BY DEF IInv, TypeOK
  <2>2. local'.runnable = local.runnable /\ local'.deadline = item[sid].deadline
    BY <2>1 DEF Items
  <2> QED
    BY <2>2 DEF IInv, LocalOK, Copying
<1>5. \A s \in Sids : cseq[s] # seq[s] => (Announced(s) \/ BeingRefreshed(s))'
  BY <1>1 DEF IInv, NoLostUpdate, BeingRefreshed, Copying
<1> QED
  BY <1>2, <1>3, <1>4, <1>5, AgentLocalStep

\* An accepted copy is the item; a refused one is of an announced item.
LEMMA AcceptedIsItem ==
  ASSUME IInv, rpc = "end", ~Locked(begin), begin = seq[sid]
  PROVE  local = item[sid]
<1>1. local \in Items /\ item[sid] \in Items
  BY DEF IInv, TypeOK
<1>2. local.runnable = item[sid].runnable /\ local.deadline = item[sid].deadline
  BY DEF IInv, LocalOK, Copying
<1> QED
  BY <1>1, <1>2 DEF Items

\* read_end: the copy is saved, refused, or the item is marked runnable.
LEMMA ReadEndStep ==
  ASSUME IInv, TypeOK', ReadEnd PROVE IInv'
<1> USE DEF ReadEnd, shared, wvars
<1>1. \A s \in Sids : Announced(s)' <=> Announced(s)
  BY DEF Announced, Writing, Marking
<1>2. sid \in Sids /\ sid \in Nat /\ last \in Nat /\ begin \in Nat /\ begin <= seq[sid]
  BY SidFacts DEF IInv, TypeOK, SeqOK, Copying
<1>3. Refreshed /\ rpc \in Refreshing
  BY DEF Refreshing
<1>4. /\ ReaderOK' /\ rpc' \notin {"flags", "deadline", "end"}
      /\ \A s \in Sids : s \in sid + 1 .. last => BeingRefreshed(s)'
  BY <1>3, RefreshedStep DEF IInv, ReaderOK, Refreshing, BeingRefreshed
<1>5. \A s \in Sids : BeingRefreshed(s) => s = sid \/ s \in sid + 1 .. last
  BY <1>2, SidFacts DEF BeingRefreshed, Copying
<1>6. \A s \in Sids : s # sid => cseq'[s] = cseq[s] /\ cached'[s] = cached[s]
  BY DEF IInv, TypeOK
<1>7. LockOK' /\ OneWriter'
  BY DEF IInv, LockOK, OneWriter, Writing
<1>8. cseq'[sid] \in {begin, cseq[sid]}
  BY <1>2 DEF IInv, TypeOK
<1>9. (SeqOK /\ StaleIsAnnounced /\ LocalOK)'
  BY <1>2, <1>4, <1>6, <1>8 DEF IInv, SeqOK, StaleIsAnnounced, LocalOK, Copying
<1>10. CASE ~Locked(begin) /\ begin = seq[sid]
  <2>1. cseq'[sid] = seq[sid] /\ cached'[sid] = item[sid]
    BY <1>2, <1>10, AcceptedIsItem DEF IInv, TypeOK
  <2>2. NoLostUpdate'
    BY <1>1, <1>4, <1>5, <1>6, <2>1 DEF IInv, NoLostUpdate
  <2>3. ElisionIsSafe'
    BY <1>6, <2>1 DEF IInv, ElisionIsSafe
  <2> QED
    BY <1>4, <1>7, <1>9, <2>2, <2>3 DEF IInv
<1>11. CASE Locked(begin) \/ begin # seq[sid]
  <2>1. Announced(sid)
    BY <1>2, <1>11 DEF IInv, StaleIsAnnounced, Copying
  <2>2. NoLostUpdate'
    BY <1>1, <1>4, <1>5, <1>6, <2>1 DEF IInv, NoLostUpdate
  <2>3. ElisionIsSafe'
    <3>1. \/ cseq'[sid] = begin
          \/ cseq'[sid] = cseq[sid] /\ cached'[sid] = cached[sid]
      BY <1>2 DEF IInv, TypeOK
    <3> QED
      BY <1>6, <1>11, <3>1 DEF IInv, ElisionIsSafe
  <2> QED
    BY <1>4, <1>7, <1>9, <2>2, <2>3 DEF IInv
<1> QED
  BY <1>10, <1>11

\* The agent's own store keeps its copy and the table alike.
LEMMA MakeEngineRunnableStep ==
  ASSUME IInv, TypeOK', NEW t \in Sids, MakeEngineRunnable(t) PROVE IInv'
<1> USE DEF MakeEngineRunnable, wvars
<1>1. \A s \in Sids : Announced(s)' <=> Announced(s)
  BY DEF Announced, Writing, Marking
<1>2. LockOK' /\ OneWriter' /\ ReaderOK'
  BY DEF IInv, LockOK, OneWriter, Writing, ReaderOK
<1>3. (SeqOK /\ StaleIsAnnounced /\ LocalOK)'
  BY DEF IInv, SeqOK, StaleIsAnnounced, LocalOK, Copying
<1>4. NoLostUpdate'
  BY <1>1 DEF IInv, NoLostUpdate, BeingRefreshed, Copying
<1>5. ElisionIsSafe'
  <2>1. /\ cached'[t] = [cached[t] EXCEPT !.runnable = TRUE]
        /\ item'[t] = [item[t] EXCEPT !.runnable = TRUE]
        /\ \A s \in Sids : s # t => cached'[s] = cached[s] /\ item'[s] = item[s]
    BY DEF IInv, TypeOK
  <2> QED
    BY <2>1, ZenonT(60) DEF IInv, ElisionIsSafe
<1> QED
  BY <1>2, <1>3, <1>4, <1>5 DEF IInv

-----------------------------------------------------------------------------
(* The theorems. *)

\* A step that changes nothing keeps the invariant.
LEMMA StutterStep == ASSUME IInv, UNCHANGED vars PROVE IInv'
<1> USE DEF IInv, vars, shared, wvars, rvars
<1>1. TypeOK' /\ ReaderOK' /\ SeqOK' /\ LocalOK' /\ ElisionIsSafe'
  BY DEF TypeOK, ReaderOK, SeqOK, LocalOK, ElisionIsSafe, Copying
<1>2. LockOK' /\ OneWriter'
  BY ZenonT(60) DEF LockOK, OneWriter, Writing
<1>3. NoLostUpdate' /\ StaleIsAnnounced'
  BY DEF NoLostUpdate, StaleIsAnnounced, Announced, BeingRefreshed, Copying, Writing,
         Marking
<1> QED
  BY <1>1, <1>2, <1>3

\* The invariant is inductive: one lemma per action.
LEMMA NextIInv == IInv /\ [Next]_vars => IInv'
<1> SUFFICES ASSUME IInv, [Next]_vars PROVE IInv'
  OBVIOUS
<1>1. TypeOK'
  BY TypeStep DEF IInv
<1>2. ASSUME NEW w \in Writers, Writer(w) PROVE IInv'
  BY <1>1, <1>2, CopyFlagsStep, CopyDeadlineStep, WriteEndStep, MarkUpdatedIndexStep,
     ProbeStoresStep, ProbeFailsStep, OverflowStep DEF Writer
<1>3. CASE Reader
  BY <1>1, <1>3, RefreshSchedParamsStep, NextUpdatedIndexStep, ExchangeScrapeAllStep,
     ScanCellStep, ClearCellStep, ScanEndsStep, ReadBeginStep, ReadFlagsStep,
     ReadDeadlineStep, ReadEndStep DEF Reader
<1> QED
  BY <1>1, <1>2, <1>3, SetSchedItemStep, MakeEngineRunnableStep, StutterStep DEF Next

\* The inductive invariant of the table, its stream and the agent's copy.
THEOREM Invariance == Spec => []IInv
  BY InitIInv, NextIInv, PTL DEF Spec

\* Type correctness, for any number of application threads, items and cells.
THEOREM TypeCorrect == Spec => []TypeOK
<1>1. IInv => TypeOK
  BY DEF IInv
<1> QED
  BY <1>1, Invariance, PTL

\* The stream loses no update: MarkUpdatedIndex and NextUpdatedIndex together
\* leave every item the agent has not caught up with announced or in its hands.
THEOREM UpdatesAreNotLost == Spec => []NoLostUpdate
<1>1. IInv => NoLostUpdate
  BY DEF IInv
<1> QED
  BY <1>1, Invariance, PTL

\* SeqCopyParams may elide a copy whose seqcount has not moved.
THEOREM ElisionCorrect == Spec => []ElisionIsSafe
<1>1. IInv => ElisionIsSafe
  BY DEF IInv
<1> QED
  BY <1>1, Invariance, PTL

\* seqcount::write_begin is a lock.
THEOREM WritersExclude == Spec => []OneWriter
<1>1. IInv => OneWriter
  BY DEF IInv
<1> QED
  BY <1>1, Invariance, PTL

\* With nothing in flight, the agent schedules from the table as it is.
THEOREM QuietAgreement == Spec => []QuietIsFresh
<1>1. IInv => QuietIsFresh
  <2> SUFFICES ASSUME IInv, \A w \in Writers : wpc[w] = "idle",
                      \A i \in Cells : entries[i] = Free, scrape_all = 0, rpc = "idle"
               PROVE  cached = item
    BY DEF QuietIsFresh
  <2>1. \A s \in Sids : ~Announced(s) /\ ~BeingRefreshed(s)
    BY PrioTableAssumption DEF Announced, BeingRefreshed, Writing, Marking, Copying, Sids
  <2>2. \A s \in Sids : ~Locked(seq[s])
    BY DEF IInv, LockOK, Writing
  <2>3. \A s \in Sids : cached[s] = item[s]
    BY <2>1, <2>2 DEF IInv, NoLostUpdate, ElisionIsSafe
  <2> QED
    BY <2>3 DEF IInv, TypeOK
<1> QED
  BY <1>1, Invariance, PTL

\* SeqCopyParams never saves a torn item.
THEOREM CopiesAreWhole == Spec => NoTornCopy
<1> DEFINE Whole == \A s \in Sids : cached'[s] # cached[s] =>
                        \/ ~Locked(seq[s]) /\ cached'[s] = item[s]
                        \/ cached'[s] = [cached[s] EXCEPT !.runnable = TRUE]
<1>1. ASSUME IInv, [Next]_vars PROVE Whole
  <2>1. CASE ReadEnd
    <3>1. \A s \in Sids : s # sid => cached'[s] = cached[s]
      BY <2>1, <1>1 DEF ReadEnd, IInv, TypeOK
    <3>2. CASE ~Locked(begin) /\ begin = seq[sid]
      BY <1>1, <2>1, <3>1, <3>2, AcceptedIsItem DEF ReadEnd, IInv, TypeOK
    <3>3. CASE ~(~Locked(begin) /\ begin = seq[sid])
      BY <1>1, <2>1, <3>1, <3>3, ZenonT(60) DEF ReadEnd, IInv, TypeOK
    <3> QED
      BY <3>2, <3>3
  <2>2. ASSUME NEW t \in Sids, MakeEngineRunnable(t) PROVE Whole
    BY <1>1, <2>2, ZenonT(60) DEF MakeEngineRunnable, IInv, TypeOK
  <2>3. CASE UNCHANGED cached
    BY <2>3
  <2> QED
    BY <1>1, <2>1, <2>2, <2>3 DEF Next, Writer, Reader, SetSchedItem, CopyFlags,
       CopyDeadline, WriteEnd, MarkUpdatedIndex, ProbeStores, ProbeFails, Overflow,
       RefreshSchedParams, NextUpdatedIndex, ExchangeScrapeAll, ScanCell, ClearCell,
       ScanEnds, ReadBegin, ReadFlags, ReadDeadline, vars, shared, rvars
<1> QED
  BY <1>1, Invariance, PTL DEF Spec, NoTornCopy
=============================================================================
