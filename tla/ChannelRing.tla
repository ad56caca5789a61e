----------------------------- MODULE ChannelRing -----------------------------
(***************************************************************************)
(* LocalChannel::Peek and Consume: the consumer of the message ring in     *)
(* shared memory.  head and tail are counters of a fixed width that wrap;  *)
(* a slot is found by masking them.  A message takes as many slots as its  *)
(* length needs, never across the end of the ring.                         *)
(*                                                                         *)
(* `sent' is a history variable: no step depends on it.                    *)
(***************************************************************************)
EXTENDS Integers, Sequences

CONSTANTS Wrap,       \* head and tail count modulo this (2^32 in the code)
          nelems,     \* slots of the ring: a power of two that divides Wrap
          SlotSize,   \* sizeof(ghost_msg)
          Lengths,    \* lengths of messages
          Ids         \* what tells messages apart

ASSUME RingAssumption ==
    /\ Wrap \in Nat \ {0} /\ nelems \in Nat \ {0} /\ SlotSize \in Nat \ {0}
    /\ nelems < Wrap /\ Wrap % nelems = 0
    /\ Lengths \subseteq Nat \ {0} /\ "MSG_NOP" \notin Ids

\* Messages have an id and a length; MSG_NOP pads the end of the ring.
Nop == "MSG_NOP"
Messages == [id : Ids, length : Lengths]

VARIABLES head, tail, slots, overflow,
          msg,       \* the message AgentThread has peeked at, if any
          crashed,   \* CHECK_EQ(overflow, 0) failed
          sent       \* the messages written to the ring that AgentThread has not seen

rvars == <<head, tail, slots, overflow, msg, crashed, sent>>

RingInit ==
    /\ head = 0 /\ tail = 0 /\ overflow = FALSE
    /\ slots = [i \in 0 .. nelems - 1 |-> [id |-> Nop, length |-> SlotSize]]
    /\ msg = {} /\ crashed = FALSE /\ sent = << >>

\* roundup2(length, slot_size) / slot_size
SlotsOf(length) == (length + SlotSize - 1) \div SlotSize

Index(counter) == counter % nelems
Used == (head - tail) % Wrap

\* The kernel (external): pad to the end of the ring with a MSG_NOP if the message
\* does not fit there; count an overflow, and drop the message, if there is no room.
Produce(m) ==
    LET n == SlotsOf(m.length)
        toEnd == nelems - Index(head)
        pad == IF toEnd < n THEN toEnd ELSE 0
    IN  /\ IF Used + pad + n > nelems
             THEN overflow' = TRUE /\ UNCHANGED <<head, slots, sent>>
             ELSE /\ slots' = [i \in DOMAIN slots |->
                                IF i = Index(head + pad) THEN m
                                ELSE IF pad > 0 /\ i = Index(head)
                                  THEN [id |-> Nop, length |-> pad * SlotSize]
                                ELSE slots[i]]
                  /\ head' = (head + pad + n) % Wrap
                  /\ sent' = Append(sent, m)
                  /\ UNCHANGED overflow
        /\ UNCHANGED <<tail, msg, crashed>>

Peek ==
    /\ ~crashed /\ msg = {} /\ tail # head
    /\ IF overflow THEN crashed' = TRUE /\ UNCHANGED <<msg, sent>>
                   ELSE /\ msg' = {slots[Index(tail)]} /\ UNCHANGED crashed
                        /\ sent' = IF sent = << >> \/ slots[Index(tail)].id = Nop
                                     THEN sent ELSE Tail(sent)
    /\ UNCHANGED <<head, tail, slots, overflow>>

\* A slip: the length is not rounded up to whole slots.
ConsumeFloor ==
    /\ \E m \in msg : tail' = (tail + m.length \div SlotSize) % Wrap
    /\ msg' = {}
    /\ UNCHANGED <<head, slots, overflow, crashed, sent>>

Consume ==
    /\ \E m \in msg : tail' = (tail + SlotsOf(m.length)) % Wrap
    /\ msg' = {}
    /\ UNCHANGED <<head, slots, overflow, crashed, sent>>

RingNext == (\E m \in Messages : Produce(m)) \/ Peek \/ Consume

RingSpec == RingInit /\ [][RingNext]_rvars

-----------------------------------------------------------------------------
(* The ring implements a FIFO. *)

F == INSTANCE Fifo WITH Data <- Messages, queue <- sent, lost <- overflow,
                        msg <- {m \in msg : m.id # Nop}

\* AgentThread sees every message once, whole and in order, however often head and
\* tail wrap and whatever the lengths; after an overflow it sees none.
ImplementsFifo == F!FifoSpec
=============================================================================
