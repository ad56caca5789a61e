------------------------------- MODULE Tailq -------------------------------
(***************************************************************************)
(* What lib/queue.bpf.h promises: lists of elements with the operations of *)
(* BSD's TAILQ.  An element is in at most one list.                        *)
(***************************************************************************)
EXTENDS Integers, SequencesExt

CONSTANTS Heads,      \* the lists
          Elems       \* the elements of the array

VARIABLE list         \* the elements of each list, in order

Unlinked(e) == \A h \in Heads : ~Contains(list[h], e)

Position(h, e) == CHOOSE i \in DOMAIN list[h] : list[h][i] = e

Init == list = [h \in Heads |-> <<>>]

InsertHead(h, e) ==
    Unlinked(e) /\ list' = [list EXCEPT ![h] = <<e>> \o @]

InsertTail(h, e) ==
    Unlinked(e) /\ list' = [list EXCEPT ![h] = Append(@, e)]

InsertBefore(h, le, e) ==
    /\ Unlinked(e) /\ Contains(list[h], le)
    /\ list' = [list EXCEPT ![h] = InsertAt(@, Position(h, le), e)]

InsertAfter(h, le, e) ==
    /\ Unlinked(e) /\ Contains(list[h], le)
    /\ list' = [list EXCEPT ![h] = InsertAt(@, Position(h, le) + 1, e)]

Delete(h, e) ==
    Contains(list[h], e) /\ list' = [list EXCEPT ![h] = RemoveAt(@, Position(h, e))]

PopFirst(h) ==
    list[h] # <<>> /\ list' = [list EXCEPT ![h] = Tail(@)]

Concat(h1, h2) ==
    h1 # h2 /\ list' = [list EXCEPT ![h1] = @ \o list[h2], ![h2] = <<>>]

Next ==
    \/ \E h \in Heads, e \in Elems :
          InsertHead(h, e) \/ InsertTail(h, e) \/ Delete(h, e)
    \/ \E h \in Heads, le, e \in Elems : InsertBefore(h, le, e) \/ InsertAfter(h, le, e)
    \/ \E h \in Heads : PopFirst(h)
    \/ \E h1, h2 \in Heads : Concat(h1, h2)

Spec == Init /\ [][Next]_list
=============================================================================
