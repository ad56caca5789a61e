------------------------------- MODULE Fifo --------------------------------
(***************************************************************************)
(* What a channel promises: messages are received in the order they were   *)
(* sent, once each, and none is received after one was lost.               *)
(***************************************************************************)
EXTENDS Sequences

CONSTANT Data

VARIABLES queue,   \* sent and not yet received
          lost,    \* a message was lost
          msg      \* the message in the receiver's hands, if any

fvars == <<queue, lost, msg>>

FifoInit == queue = << >> /\ lost = FALSE /\ msg = {}

Send == \E m \in Data : queue' = Append(queue, m) /\ UNCHANGED <<lost, msg>>

Lose == lost' = TRUE /\ UNCHANGED <<queue, msg>>

Receive == /\ queue # << >> /\ ~lost /\ msg = {}
           /\ msg' = {Head(queue)} /\ queue' = Tail(queue)
           /\ UNCHANGED lost

Done == msg' = {} /\ UNCHANGED <<queue, lost>>

FifoNext == Send \/ Lose \/ Receive \/ Done

FifoSpec == FifoInit /\ [][FifoNext]_fvars
=============================================================================
