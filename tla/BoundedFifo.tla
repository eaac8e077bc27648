---------------------------- MODULE BoundedFifo ----------------------------
(***************************************************************************)
(* What server/message_queue.h promises the two server threads: a FIFO of  *)
(* messages between one producer and one consumer that holds a bounded     *)
(* number of messages.  Each call has its whole effect at one instant.  A  *)
(* message that does not fit is refused, and message_enqueue returns void, *)
(* so the caller is not told; `verdict` records what became of the last    *)
(* message offered, `received` the last one handed to the consumer.        *)
(***************************************************************************)
EXTENDS Naturals, Sequences

CONSTANTS
  Message,     \* the messages the producer may offer
  Oversized,   \* those longer than MAX_MESSAGE_QUEUE_ITEM_SIZE
  Capacity,    \* how many messages the queue holds
  NoMessage    \* "nothing received yet"

VARIABLES
  queue,       \* the messages accepted and not yet received, oldest first
  received,    \* the message the last successful dequeue returned
  verdict      \* "none", "accepted", "full" or "too_large"

fifoVars == <<queue, received, verdict>>

FifoInit ==
  /\ queue = <<>>
  /\ received = NoMessage
  /\ verdict = "none"

(* A message is refused for its size whatever the queue holds. *)
RefuseTooLarge ==
  /\ Oversized # {}
  /\ verdict' = "too_large"
  /\ UNCHANGED <<queue, received>>

(* A message is refused for want of room only by a queue that is full. *)
RefuseFull ==
  /\ Len(queue) = Capacity
  /\ verdict' = "full"
  /\ UNCHANGED <<queue, received>>

Accept(m) ==
  /\ Len(queue) < Capacity
  /\ queue' = Append(queue, m)
  /\ verdict' = "accepted"
  /\ UNCHANGED received

Receive ==
  /\ queue # <<>>
  /\ received' = Head(queue)
  /\ queue' = Tail(queue)
  /\ UNCHANGED verdict

FifoNext ==
  \/ RefuseTooLarge
  \/ RefuseFull
  \/ \E m \in Message \ Oversized : Accept(m)
  \/ Receive

FifoSpec == FifoInit /\ [][FifoNext]_fifoVars
=============================================================================
