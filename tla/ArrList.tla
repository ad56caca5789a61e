------------------------------ MODULE ArrList ------------------------------
(***************************************************************************)
(* The doubly-linked lists of lib/queue.bpf.h, whose links are indices     *)
(* into one array, offset by one so that zero means none.  The callers     *)
(* (the BPF schedulers) hold a lock over each operation, so an operation   *)
(* is a step.                                                              *)
(***************************************************************************)
EXTENDS Integers, SequencesExt

CONSTANTS Heads,          \* struct arr_list's
          NumElems,       \* arr_sz
          NoHead,         \* of an element in no list
          EmptyRight      \* may the second list of a concat be empty?

Elems == 1 .. NumElems

VARIABLES
    first, last,    \* arr_list
    next, prev,     \* arr_list_entry
    owner           \* the list the caller has put the element in

vars == <<first, last, next, prev, owner>>

Init ==
    /\ first = [h \in Heads |-> 0] /\ last = [h \in Heads |-> 0]
    /\ next = [e \in Elems |-> 0] /\ prev = [e \in Elems |-> 0]
    /\ owner = [e \in Elems |-> NoHead]

Empty(h) == first[h] = 0

\* links with entry `at' set to id, unless `at' is none (__id_to_elem is NULL).
Store(links, at, id) == [e \in Elems |-> IF e = at THEN id ELSE links[e]]

InsertHead(h, e) ==
    /\ owner[e] = NoHead
    /\ prev' = Store(Store(prev, e, 0), first[h], e)
    /\ next' = Store(next, e, first[h])
    /\ last' = [last EXCEPT ![h] = IF Empty(h) THEN e ELSE @]
    /\ first' = [first EXCEPT ![h] = e]
    /\ owner' = [owner EXCEPT ![e] = h]

InsertTail(h, e) ==
    /\ owner[e] = NoHead
    /\ prev' = Store(prev, e, last[h])
    /\ next' = IF Empty(h) THEN Store(next, e, 0)
                           ELSE Store(Store(next, e, 0), last[h], e)
    /\ first' = [first EXCEPT ![h] = IF Empty(h) THEN e ELSE @]
    /\ last' = [last EXCEPT ![h] = e]
    /\ owner' = [owner EXCEPT ![e] = h]

InsertBefore(h, le, e) ==
    /\ owner[e] = NoHead /\ owner[le] = h
    /\ next' = Store(Store(next, prev[le], e), e, le)
    /\ prev' = Store(Store(prev, e, prev[le]), le, e)
    /\ first' = [first EXCEPT ![h] = IF @ = le THEN e ELSE @]
    /\ owner' = [owner EXCEPT ![e] = h]
    /\ UNCHANGED last

\* A slip: the head still thinks le is last.
InsertAfterNotLast(h, le, e) ==
    /\ owner[e] = NoHead /\ owner[le] = h
    /\ prev' = Store(Store(prev, next[le], e), e, le)
    /\ next' = Store(Store(next, e, next[le]), le, e)
    /\ owner' = [owner EXCEPT ![e] = h]
    /\ UNCHANGED <<first, last>>

InsertAfter(h, le, e) ==
    /\ owner[e] = NoHead /\ owner[le] = h
    /\ prev' = Store(Store(prev, next[le], e), e, le)
    /\ next' = Store(Store(next, e, next[le]), le, e)
    /\ last' = [last EXCEPT ![h] = IF @ = le THEN e ELSE @]
    /\ owner' = [owner EXCEPT ![e] = h]
    /\ UNCHANGED first

Delete(h, e) ==
    /\ owner[e] = h
    /\ next' = Store(Store(next, prev[e], next[e]), e, 0)
    /\ prev' = Store(Store(prev, next[e], prev[e]), e, 0)
    /\ first' = [first EXCEPT ![h] = IF @ = e THEN next[e] ELSE @]
    /\ last' = [last EXCEPT ![h] = IF @ = e THEN prev[e] ELSE @]
    /\ owner' = [owner EXCEPT ![e] = NoHead]

PopFirst(h) ==
    LET f == first[h]
    IN  /\ ~Empty(h)
        /\ prev' = Store(prev, next[f], 0)
        /\ first' = [first EXCEPT ![h] = next[f]]
        /\ last' = [last EXCEPT ![h] = IF @ = f THEN 0 ELSE @]
        /\ next' = Store(next, f, 0)
        /\ owner' = [owner EXCEPT ![f] = NoHead]

Concat(h1, h2) ==
    /\ h1 # h2
    /\ Empty(h2) => EmptyRight
    /\ next' = Store(next, last[h1], first[h2])
    /\ prev' = Store(prev, first[h2], last[h1])
    /\ first' = [first EXCEPT ![h1] = IF Empty(h1) THEN first[h2] ELSE @, ![h2] = 0]
    /\ last' = [last EXCEPT ![h1] = last[h2], ![h2] = 0]
    /\ owner' = [e \in Elems |-> IF owner[e] = h2 THEN h1 ELSE owner[e]]

Next ==
    \/ \E h \in Heads, e \in Elems : InsertHead(h, e)
    \/ \E h \in Heads, e \in Elems : InsertTail(h, e)
    \/ \E h \in Heads, le, e \in Elems : InsertBefore(h, le, e)
    \/ \E h \in Heads, le, e \in Elems : InsertAfter(h, le, e)
    \/ \E h \in Heads, e \in Elems : Delete(h, e)
    \/ \E h \in Heads : PopFirst(h)
    \/ \E h1, h2 \in Heads : Concat(h1, h2)

Spec == Init /\ [][Next]_vars

-----------------------------------------------------------------------------

\* The ids met from id on along links, as arr_list_foreach (with `max' the size
\* of the array) meets them.
Walk(links, id) ==
    LET at[k \in 0 .. NumElems] ==
            IF k = 0 THEN id ELSE IF at[k - 1] = 0 THEN 0 ELSE links[at[k - 1]]
    IN  SelectSeq([k \in 1 .. NumElems |-> at[k - 1]], LAMBDA i : i # 0)

Forward(h) == Walk(next, first[h])

\* arr_list_foreach finds exactly the elements the callers have put in the list
\* and not taken out.
ForeachFindsAll ==
    \A h \in Heads : ToSet(Forward(h)) = {e \in Elems : owner[e] = h}

\* Nothing is lost, and arr_list_foreach_reverse meets the elements in the
\* opposite order, whatever operations have been applied.
WellLinked ==
    ForeachFindsAll /\ \A h \in Heads : Walk(prev, last[h]) = Reverse(Forward(h))

Tailqs == INSTANCE Tailq WITH list <- [h \in Heads |-> Forward(h)]

\* The lists behave as TAILQs whatever sequence of operations is applied.
ImplementsTailq == Tailqs!Spec
=============================================================================
