-------------------------------- MODULE Avl --------------------------------
(***************************************************************************)
(* The AVL trees of lib/avl.bpf.h.  Nodes are the elements of one array,   *)
(* and links are indices into it, offset by one so that zero means none.   *)
(* BPF needs every loop to be bounded: a tree grows no higher than         *)
(* MaxHeight, and a node that would make it grow further becomes an        *)
(* orphan, in a list of its own, until a deletion may make room.           *)
(*                                                                         *)
(* Code and mirrored code are one operator with the side as a parameter.   *)
(* A store through the null node does nothing, and reading it would end    *)
(* TLC's run with an error: the branches that only convince the BPF        *)
(* verifier are left out.                                                  *)
(***************************************************************************)
EXTENDS Integers, SequencesExt

CONSTANTS NumNodes,     \* arr_sz
          KeysOf,       \* the keys each node may be inserted with, above zero
          MaxHeight     \* MAX_AVL_HEIGHT

Nodes == 1 .. NumNodes
Keys == UNION {KeysOf[e] : e \in Nodes}

VARIABLES t,            \* struct avl_tree
          n,            \* struct avl_node of each element
          members       \* what callers inserted and did not delete

vars == <<t, n, members>>

Blank == [key |-> 0, left |-> 0, right |-> 0, parent |-> 0, balance |-> 0,
          is_orphan |-> FALSE, prev |-> 0, next |-> 0]

Init ==
    /\ t = [root |-> 0, min_id |-> 0, min_key |-> 0, max_id |-> 0, max_key |-> 0,
            first_orphan |-> 0]
    /\ n = [e \in Nodes |-> Blank]
    /\ members = {}

\* The operations map such records to each other.
State == [t |-> t, n |-> n]

Other(side) == IF side = "left" THEN "right" ELSE "left"

\* What height on this side adds to a balance.
Weight(side) == IF side = "left" THEN -1 ELSE 1

-----------------------------------------------------------------------------
(* The list of orphans. *)

InsertOrphan(s, e) ==
    LET next == s.t.first_orphan
    IN  [s EXCEPT !.t.first_orphan = e, !.n[next].prev = e,
                  !.n[e].next = next, !.n[e].prev = 0]

\* __remove_orphan, and __pop_first_orphan when e is the first.
RemoveOrphan(s, e) ==
    LET prev == s.n[e].prev
        next == s.n[e].next
    IN  [s EXCEPT !.t.first_orphan = IF @ = e THEN next ELSE @,
                  !.n[prev].next = next, !.n[next].prev = prev,
                  !.n[e].next = 0, !.n[e].prev = 0]

-----------------------------------------------------------------------------
(* Searching; i is what is left of MAX_AVL_HEIGHT. *)

RECURSIVE Find(_, _, _, _)
Find(s, x, key, i) ==
    IF x = 0 \/ i = 0 THEN 0
    ELSE IF s.n[x].key = key THEN x
    ELSE Find(s, s.n[x][IF key < s.n[x].key THEN "left" ELSE "right"], key, i - 1)

\* avl_tree_lookup.
Lookup(s, key) == Find(s, s.t.root, key, MaxHeight)

\* avl_min_node and avl_max_node: the last node on this side below x.
RECURSIVE Extreme(_, _, _, _)
Extreme(s, x, side, i) ==
    IF x = 0 \/ i = 0 THEN 0
    ELSE IF s.n[x][side] = 0 THEN x
    ELSE Extreme(s, s.n[x][side], side, i - 1)

\* The first ancestor that has x on the other side.
RECURSIVE Climb(_, _, _, _)
Climb(s, x, side, i) ==
    LET parent == s.n[x].parent
    IN  IF parent = 0 \/ i = 0 THEN 0
        ELSE IF s.n[parent][Other(side)] = x THEN parent
        ELSE Climb(s, parent, side, i - 1)

\* avl_next_node and avl_prev_node.
Neighbour(s, x, side) ==
    IF s.n[x][side] # 0 THEN Extreme(s, s.n[x][side], Other(side), MaxHeight)
                        ELSE Climb(s, x, side, MaxHeight)

-----------------------------------------------------------------------------
(* Rotations: z, on this side of x, is two levels deeper than its sibling. *)

Rotate(s, x, z, side) ==
    LET t23 == s.n[z][Other(side)]
        star == s.n[z].balance = 0
    IN  [s EXCEPT !.n[t23].parent = x,
                  !.n[x] = [@ EXCEPT ![side] = t23, !.parent = z,
                                     !.balance = IF star THEN Weight(side) ELSE 0],
                  !.n[z] = [@ EXCEPT ![Other(side)] = x,
                                     !.balance = IF star THEN -Weight(side) ELSE 0]]

\* y is the child of z that lies between x and z.
RotateTwice(s, x, z, side) ==
    LET other == Other(side)
        y == s.n[z][other]
        inner == s.n[y][other]
        outer == s.n[y][side]
        tilt == s.n[y].balance
    IN  [s EXCEPT !.n[inner].parent = x, !.n[outer].parent = z,
                  !.n[y] = [@ EXCEPT ![other] = x, ![side] = z, !.balance = 0],
                  !.n[x] = [@ EXCEPT !.parent = y, ![side] = inner,
                              !.balance = IF tilt = Weight(side) THEN -tilt ELSE 0],
                  !.n[z] = [@ EXCEPT !.parent = y, ![other] = outer,
                              !.balance = IF tilt = Weight(other) THEN -tilt ELSE 0]]

\* The link to x, from its parent or the tree, now leads to e.
Relink(s, parent, x, e) ==
    IF parent = 0 THEN [s EXCEPT !.t.root = e]
    ELSE [s EXCEPT !.n[parent][IF s.n[parent].left = x THEN "left" ELSE "right"] = e]

\* Rotate x, which is too heavy on this side, and hang the result where x was.
Rebalance(s, x, side) ==
    LET z == s.n[x][side]
        parent == s.n[x].parent
        twice == s.n[z].balance = -Weight(side)
        str == IF twice THEN s.n[z][Other(side)] ELSE z
        rotated == IF twice THEN RotateTwice(s, x, z, side) ELSE Rotate(s, x, z, side)
    IN  [Relink(rotated, parent, x, str) EXCEPT !.n[str].parent = parent]

-----------------------------------------------------------------------------
(* Insertion. *)

\* The node below which a key belongs, the side, and what is there already:
\* something, if one more level would be too many.
RECURSIVE Descend(_, _, _, _)
Descend(s, key, at, i) ==
    IF i = 0 \/ at.next = 0 THEN at
    ELSE LET x == at.next
             side == IF key < s.n[x].key THEN "left" ELSE "right"
         IN  Descend(s, key, [x |-> x, side |-> side, next |-> s.n[x][side]], i - 1)

\* x's child z grew: x absorbs that, is rotated, or grew itself.
RECURSIVE Grown(_, _, _, _)
Grown(s, x, z, i) ==
    IF x = 0 \/ i = 0 THEN s
    ELSE LET side == IF s.n[x].left = z THEN "left" ELSE "right"
         IN  CASE s.n[x].balance = 0 ->
                    Grown([s EXCEPT !.n[x].balance = Weight(side)], s.n[x].parent, x, i - 1)
               [] s.n[x].balance = -Weight(side) -> [s EXCEPT !.n[x].balance = 0]
               [] s.n[x].balance = Weight(side) -> Rebalance(s, x, side)

\* A slip: a tie leaves the oldest node the maximum.
CachedOldest(s, e) ==
    LET key == s.n[e].key
        min == IF s.t.min_id = 0 \/ key < s.t.min_key
                 THEN [s EXCEPT !.t.min_id = e, !.t.min_key = key] ELSE s
    IN  IF s.t.max_id = 0 \/ key > s.t.max_key
          THEN [min EXCEPT !.t.max_id = e, !.t.max_key = key] ELSE min

\* Ties go to the right.
Cached(s, e) ==
    LET key == s.n[e].key
        min == IF s.t.min_id = 0 \/ key < s.t.min_key
                 THEN [s EXCEPT !.t.min_id = e, !.t.min_key = key] ELSE s
    IN  IF s.t.max_id = 0 \/ key >= s.t.max_key
          THEN [min EXCEPT !.t.max_id = e, !.t.max_key = key] ELSE min

AvlTreeInsert(s, e) ==
    LET key == s.n[e].key
        at == Descend(s, key, [x |-> 0, side |-> "right", next |-> s.t.root], MaxHeight - 1)
        new == [s EXCEPT !.n[e] = [@ EXCEPT !.left = 0, !.right = 0, !.balance = 0,
                                            !.is_orphan = at.next # 0,
                                            !.parent = IF at.next = 0 THEN at.x ELSE @]]
    IN  IF at.next # 0 THEN InsertOrphan(new, e)
        ELSE IF at.x = 0
          THEN [new EXCEPT !.t = [@ EXCEPT !.root = e, !.min_id = e, !.min_key = key,
                                           !.max_id = e, !.max_key = key]]
        ELSE Cached(Grown([new EXCEPT !.n[at.x][at.side] = e], at.x, e, MaxHeight), e)

-----------------------------------------------------------------------------
(* Deletion. *)

\* avl_replace_node.
Replace(s, x, with) ==
    LET parent == s.n[x].parent
    IN  [Relink(s, parent, x, with) EXCEPT !.n[with].parent = parent]

\* The cached minimum and maximum, when e is about to go.
Uncached(s, e) ==
    LET next == Neighbour(s, e, "right")
        prev == Neighbour(s, e, "left")
        min == IF e # s.t.min_id THEN s
               ELSE [s EXCEPT !.t.min_id = next,
                              !.t.min_key = IF next # 0 THEN s.n[next].key ELSE @]
    IN  IF e # s.t.max_id THEN min
        ELSE [min EXCEPT !.t.max_id = prev,
                         !.t.max_key = IF prev # 0 THEN s.n[prev].key ELSE @]

\* Where height is lost: the side of x that e is on.
Loss(s, x, e) ==
    [x |-> x, side |-> IF x # 0 /\ s.n[x].left = e THEN "left" ELSE "right"]

\* e has two children: its successor takes its place and balance.
PullUp(s, e) ==
    LET next == Neighbour(s, e, "right")
        deep == s.n[next].parent # e
        s1 == [s EXCEPT !.n[next].balance = s.n[e].balance]
        s2 == IF ~deep THEN s1
              ELSE LET out == Replace(s1, next, s1.n[next].right)
                       right == out.n[e].right
                   IN  [out EXCEPT !.n[next].right = right, !.n[right].parent = next]
        s3 == Replace(s2, e, next)
        left == s3.n[e].left
    IN  [s |-> [s3 EXCEPT !.n[next].left = left, !.n[left].parent = next],
         loss |-> IF deep THEN Loss(s, s.n[next].parent, next)
                          ELSE [x |-> next, side |-> "right"]]

\* e taken out of the tree, and where that loses height.
TakeOut(s, e) ==
    LET pull(child) == [s |-> Replace(s, e, child), loss |-> Loss(s, s.n[e].parent, e)]
    IN  CASE s.n[e].left = 0 -> pull(s.n[e].right)
          [] s.n[e].left # 0 /\ s.n[e].right = 0 -> pull(s.n[e].left)
          [] OTHER -> PullUp(s, e)

\* A rotation absorbs the loss in the `*' case.
Absorbed(s, z) == s.n[z].balance = 0

\* x lost height on this side: it absorbs that, or is lower by one itself, perhaps
\* after a rotation.
RECURSIVE Shrunk(_, _, _)
Shrunk(s, loss, i) ==
    IF loss.x = 0 \/ i = 0 THEN s
    ELSE LET x == loss.x
             heavy == Other(loss.side)
             up == Loss(s, s.n[x].parent, x)
         IN  CASE s.n[x].balance = 0 -> [s EXCEPT !.n[x].balance = Weight(heavy)]
               [] s.n[x].balance = Weight(loss.side) ->
                    Shrunk([s EXCEPT !.n[x].balance = 0], up, i - 1)
               [] s.n[x].balance = Weight(heavy) ->
                    IF Absorbed(s, s.n[x][heavy]) THEN Rebalance(s, x, heavy)
                    ELSE Shrunk(Rebalance(s, x, heavy), up, i - 1)

\* Every deletion from the tree lets the first orphan try again.
AdoptOrphan(s) ==
    IF s.t.first_orphan = 0 THEN s
    ELSE AvlTreeInsert(RemoveOrphan(s, s.t.first_orphan), s.t.first_orphan)

\* The fields of a node that is in no tree are not read before it is inserted
\* again; they are cleared.
AvlTreeDelete(s, e) ==
    LET out == TakeOut(Uncached(s, e), e)
        after == IF s.n[e].is_orphan THEN RemoveOrphan(s, e)
                 ELSE AdoptOrphan(Shrunk(out.s, out.loss, MaxHeight))
    IN  [after EXCEPT !.n[e] = Blank]

-----------------------------------------------------------------------------

Becomes(s) == t' = s.t /\ n' = s.n

Insert(e, key) ==
    /\ e \notin members
    /\ Becomes(AvlTreeInsert([State EXCEPT !.n[e].key = key], e))
    /\ members' = members \cup {e}

Delete(e) ==
    /\ e \in members
    /\ Becomes(AvlTreeDelete(State, e))
    /\ members' = members \ {e}

\* avl_tree_pop_min and avl_tree_pop_max.
PopMin == t.min_id # 0 /\ Delete(t.min_id)
PopMax == t.max_id # 0 /\ Delete(t.max_id)

Next ==
    \/ \E e \in Nodes : \E key \in KeysOf[e] : Insert(e, key)
    \/ \E e \in Nodes : Delete(e)
    \/ PopMin
    \/ PopMax

Spec == Init /\ [][Next]_vars

-----------------------------------------------------------------------------
(* Properties. *)

\* The nodes below x, in order; a cycle would be cut off.
RECURSIVE InOrder(_, _)
InOrder(x, i) ==
    IF x = 0 \/ i = 0 THEN << >>
    ELSE InOrder(n[x].left, i - 1) \o <<x>> \o InOrder(n[x].right, i - 1)

Order == InOrder(t.root, NumNodes)

RECURSIVE Height(_, _)
Height(x, i) ==
    IF x = 0 \/ i = 0 THEN 0
    ELSE LET l == Height(n[x].left, i - 1)
             r == Height(n[x].right, i - 1)
         IN  1 + IF l < r THEN r ELSE l

RECURSIVE OrphansFrom(_, _)
OrphansFrom(x, i) ==
    IF x = 0 \/ i = 0 THEN << >> ELSE <<x>> \o OrphansFrom(n[x].next, i - 1)

Orphans == OrphansFrom(t.first_orphan, NumNodes)

\* The tree and the list of orphans together hold what was inserted, and can be
\* walked up, down and back.
Linked ==
    /\ ToSet(Order) \cup ToSet(Orphans) = members
    /\ Len(Order) + Len(Orphans) = Cardinality(members)
    /\ \A x \in ToSet(Order) :
         /\ \A side \in {"left", "right"} : n[x][side] # 0 => n[n[x][side]].parent = x
         /\ x = t.root <=> n[x].parent = 0
    /\ \A i \in DOMAIN Orphans :
         /\ n[Orphans[i]].is_orphan
         /\ n[Orphans[i]].prev = IF i = 1 THEN 0 ELSE Orphans[i - 1]

\* The header comment: "we always have the AVL tree balanced", and no path is longer
\* than the bounded loops can follow.
Balanced ==
    /\ \A x \in ToSet(Order) :
         /\ n[x].balance = Height(n[x].right, NumNodes) - Height(n[x].left, NumNodes)
         /\ n[x].balance \in -1 .. 1 /\ ~n[x].is_orphan
    /\ Height(t.root, NumNodes) <= MaxHeight

\* The cached minimum and maximum are the leftmost and the rightmost node, with their
\* keys, and a lookup finds a node of each key in the tree and no other.
Searchable ==
    /\ IF Order = << >> THEN t.min_id = 0 /\ t.max_id = 0
       ELSE /\ t.min_id = Head(Order) /\ t.min_key = n[Head(Order)].key
            /\ t.max_id = Last(Order) /\ t.max_key = n[Last(Order)].key
    /\ \A key \in Keys :
         LET x == Lookup(State, key)
         IN  IF \E e \in ToSet(Order) : n[e].key = key
               THEN x \in ToSet(Order) /\ n[x].key = key
               ELSE x = 0

\* The shape of the tree, whatever was inserted and deleted.
WellFormed == Linked /\ Balanced /\ Searchable

S == INSTANCE SortedSeq WITH
        order <- Order, waiting <- ToSet(Orphans), key <- [e \in Nodes |-> n[e].key]

\* The tree is the sorted sequence of its nodes: rotations and replacements do not
\* change the order, and nobody waits while the tree is empty.
ImplementsSortedSeq == S!Spec
=============================================================================
