------------------------------ MODULE SortedSeq ------------------------------
(***************************************************************************)
(* What lib/avl.bpf.h promises: the nodes inserted and not deleted, in the *)
(* order of their keys and, of equal keys, the oldest first.  As the tree  *)
(* is bounded some nodes may be turned away; they wait as orphans, in no   *)
(* order, and each deletion from the tree lets one try again.              *)
(***************************************************************************)
EXTENDS Integers, SequencesExt

CONSTANTS Nodes, Keys

VARIABLES order,     \* the nodes in the tree
          waiting,   \* the orphans
          key

vars == <<order, waiting, key>>

Init == order = << >> /\ waiting = {} /\ key = [e \in Nodes |-> 0]

\* q with e after the nodes whose key is not larger.
Placed(q, e) ==
    SelectSeq(q, LAMBDA d : key'[d] <= key'[e]) \o <<e>>
      \o SelectSeq(q, LAMBDA d : key'[d] > key'[e])

\* e gets in, or waits; the first node of all always gets in.
Enters(e, q, w) ==
    \/ order' = Placed(q, e) /\ waiting' = w
    \/ q # << >> /\ order' = q /\ waiting' = w \cup {e}

Insert(e, k) ==
    /\ ~Contains(order, e) /\ e \notin waiting
    /\ key' = [key EXCEPT ![e] = k]
    /\ Enters(e, order, waiting)

\* A node leaves the tree; if orphans wait one of them is tried.
Leaves(e) ==
    /\ Contains(order, e)
    /\ key' = [key EXCEPT ![e] = 0]
    /\ IF waiting = {} THEN order' = Remove(order, e) /\ UNCHANGED waiting
       ELSE \E o \in waiting : Enters(o, Remove(order, e), waiting \ {o})

Gives(e) ==
    /\ e \in waiting
    /\ key' = [key EXCEPT ![e] = 0]
    /\ waiting' = waiting \ {e}
    /\ UNCHANGED order

Next == \E e \in Nodes : Leaves(e) \/ Gives(e) \/ \E k \in Keys : Insert(e, k)

Spec == Init /\ [][Next]_vars
=============================================================================
