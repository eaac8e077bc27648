---------------------------- MODULE MessageQueue ----------------------------
(***************************************************************************)
(* server/message_queue.c: the single-producer single-consumer ring buffer *)
(* that carries messages between the networking thread and the game logic  *)
(* thread, with the pipe that wakes a consumer blocked in select().  One   *)
(* action is one access to shared memory or to the pipe, so the two        *)
(* threads interleave as the C11 sequentially consistent atomics allow.    *)
(***************************************************************************)
EXTENDS Integers, Sequences

CONSTANTS
  MESSAGE_QUEUE_LEN,  \* slots of the ring; one of them always stays empty
  Message,            \* messages the producer may pass to message_enqueue
  Oversized,          \* those with msg_len > MAX_MESSAGE_QUEUE_ITEM_SIZE
  NoMessage,          \* content of a slot or buffer never written
  Waits               \* TRUE: the consumer is the networking thread, which
                      \* dequeues after select() reports the pipe readable;
                      \* FALSE: the logic thread, which polls every frame

ASSUME QueueAssumption ==
  /\ MESSAGE_QUEUE_LEN \in Nat \ {0, 1}
  /\ Oversized \subseteq Message
  /\ NoMessage \notin Message
  /\ Waits \in BOOLEAN

VARIABLES
  buffer,     \* mq->buffer with mq->buffer_lengths: slot -> message
  head,       \* mq->head, stored by the consumer only
  tail,       \* mq->tail, stored by the producer only
  pipe,       \* bytes in mq->pipe
  producer,   \* where message_enqueue stands
  offered,    \* its msg argument
  verdict,    \* what became of the last message offered
  consumer,   \* where the consumer's dequeue loop stands
  dest,       \* the consumer's copy of the message
  received    \* the message the last message_dequeue returned

shared == <<buffer, head, tail, pipe>>
producerVars == <<producer, offered, verdict>>
consumerVars == <<consumer, dest, received>>
vars == <<shared, producerVars, consumerVars>>

Slot == 0 .. MESSAGE_QUEUE_LEN - 1

\* MUTANT: the index runs past the last slot.
NextSlotNoWrap(i) == i + 1

(* (i + 1) % MESSAGE_QUEUE_LEN *)
NextSlot(i) == (i + 1) % MESSAGE_QUEUE_LEN

\* MUTANT: no full test, a fast producer overruns the consumer.
NeverFull == FALSE

(* The ring is full when only the gap slot is left. *)
Full == NextSlot(tail) = head

Init ==
  /\ buffer = [i \in Slot |-> NoMessage]
  /\ head = 0
  /\ tail = 0
  /\ pipe = 0
  /\ producer = "ready"
  /\ offered = NoMessage
  /\ verdict = "none"
  /\ consumer = "idle"
  /\ dest = NoMessage
  /\ received = NoMessage

----------------------------------------------------------------------------
(* message_enqueue, in the producer thread *)

(* Every call starts with the loads of tail and head; only the producer    *)
(* stores tail, so the load of head is what the consumer can interleave    *)
(* with.  Two early returns leave the queue alone.                         *)
EnqueueTooLarge(m) ==
  /\ producer = "ready"
  /\ m \in Oversized
  /\ verdict' = "too_large"
  /\ UNCHANGED <<shared, producer, offered, consumerVars>>

EnqueueFull(m) ==
  /\ producer = "ready"
  /\ m \notin Oversized
  /\ Full
  /\ verdict' = "full"
  /\ UNCHANGED <<shared, producer, offered, consumerVars>>

EnqueueBegin(m) ==
  /\ producer = "ready"
  /\ m \notin Oversized
  /\ ~Full
  /\ producer' = "copying"
  /\ offered' = m
  /\ UNCHANGED <<shared, verdict, consumerVars>>

(* memcpy into the slot at tail, and its length. *)
EnqueueCopy ==
  /\ producer = "copying"
  /\ buffer' = [buffer EXCEPT ![tail] = offered]
  /\ producer' = "publishing"
  /\ UNCHANGED <<head, tail, pipe, offered, verdict, consumerVars>>

(* atomic_store of tail: the message becomes visible. *)
EnqueuePublish ==
  /\ producer = "publishing"
  /\ tail' = NextSlot(tail)
  /\ verdict' = "accepted"
  /\ producer' = "signalling"
  /\ UNCHANGED <<buffer, head, pipe, offered, consumerVars>>

\* MUTANT: the wake-up byte is not written.
EnqueueSignalForgotten ==
  /\ producer = "signalling"
  /\ producer' = "ready"
  /\ UNCHANGED <<shared, offered, verdict, consumerVars>>

\* MUTANT: the byte is written only into a ring that was empty.
EnqueueSignalWhenEmpty ==
  /\ producer = "signalling"
  /\ pipe' = IF tail = NextSlot(head) THEN pipe + 1 ELSE pipe
  /\ producer' = "ready"
  /\ UNCHANGED <<buffer, head, tail, offered, verdict, consumerVars>>

(* write of one byte to the pipe. *)
EnqueueSignal ==
  /\ producer = "signalling"
  /\ pipe' = pipe + 1
  /\ producer' = "ready"
  /\ UNCHANGED <<buffer, head, tail, offered, verdict, consumerVars>>

----------------------------------------------------------------------------
(* The consumer's loop, `while (message_dequeue(...) != 0)`, and the call  *)

(* The networking thread comes here when select() reports the pipe         *)
(* readable, the logic thread once per frame.                              *)
BeginDrain ==
  /\ consumer = "idle"
  /\ Waits => pipe > 0
  /\ consumer' = "draining"
  /\ UNCHANGED <<shared, producerVars, dest, received>>

(* Loads head and tail; only the consumer stores head. *)
DequeueLoad ==
  /\ consumer = "draining"
  /\ consumer' = IF head = tail THEN "idle" ELSE "copying"
  /\ UNCHANGED <<shared, producerVars, dest, received>>

(* memcpy out of the slot at head. *)
DequeueCopy ==
  /\ consumer = "copying"
  /\ dest' = buffer[head]
  /\ consumer' = "releasing"
  /\ UNCHANGED <<shared, producerVars, received>>

(* atomic_store of head: the slot is free for the producer. *)
DequeueRelease ==
  /\ consumer = "releasing"
  /\ head' = NextSlot(head)
  /\ received' = dest
  /\ consumer' = "collecting"
  /\ UNCHANGED <<buffer, tail, pipe, producerVars, dest>>

(* read of one byte: blocks while the pipe is empty. *)
DequeueCollect ==
  /\ consumer = "collecting"
  /\ pipe > 0
  /\ pipe' = pipe - 1
  /\ consumer' = "draining"
  /\ UNCHANGED <<buffer, head, tail, producerVars, dest, received>>

----------------------------------------------------------------------------
Call(m) == EnqueueTooLarge(m) \/ EnqueueFull(m) \/ EnqueueBegin(m)

Enqueue == EnqueueCopy \/ EnqueuePublish \/ EnqueueSignal

Dequeue ==
  \/ BeginDrain
  \/ DequeueLoad
  \/ DequeueCopy
  \/ DequeueRelease
  \/ DequeueCollect

Next ==
  \/ \E m \in Message : Call(m)
  \/ Enqueue
  \/ Dequeue

(* A call of message_enqueue that has begun runs to its end, and the       *)
(* consumer thread keeps running its loop; nothing forces the producer to  *)
(* send anything.                                                          *)
Fairness == WF_vars(Enqueue) /\ WF_vars(Dequeue)

Spec == Init /\ [][Next]_vars /\ Fairness

----------------------------------------------------------------------------
(* How many messages the ring holds. *)
Occupancy ==
  IF head <= tail THEN tail - head ELSE tail - head + MESSAGE_QUEUE_LEN

(* The ring's content as a sequence, oldest message first. *)
Content ==
  [k \in 1 .. Occupancy |-> buffer[(head + k - 1) % MESSAGE_QUEUE_LEN]]

(* Every variable has its type. *)
TypeOK ==
  /\ buffer \in [Slot -> Message \cup {NoMessage}]
  /\ head \in Slot
  /\ tail \in Slot
  /\ pipe \in Nat
  /\ producer \in {"ready", "copying", "publishing", "signalling"}
  /\ offered \in Message \cup {NoMessage}
  /\ verdict \in {"none", "accepted", "full", "too_large"}
  /\ consumer \in {"idle", "draining", "copying", "releasing", "collecting"}
  /\ dest \in Message \cup {NoMessage}
  /\ received \in Message \cup {NoMessage}

(* The pipe holds one byte for each message in the ring, but for the byte  *)
(* message_enqueue has still to write and the one message_dequeue has still*)
(* to read.  So select() never sleeps on a ring with messages in it, and   *)
(* the pipe never holds more bytes than the ring has slots.                *)
PipeMatchesOccupancy ==
  pipe + (IF producer = "signalling" THEN 1 ELSE 0)
    = Occupancy + (IF consumer = "collecting" THEN 1 ELSE 0)

(* The producer never writes the slot the consumer is reading: the memcpy  *)
(* calls of the two threads, which no lock protects, never overlap.        *)
NoSlotRace ==
  ~(/\ producer = "copying"
    /\ consumer \in {"copying", "releasing"}
    /\ tail = head)

(* message_dequeue's read() of the pipe has no way to block for ever: it   *)
(* waits only for a write() the producer is about to make.                 *)
ReadWaitsForPendingWrite ==
  consumer = "collecting" /\ pipe = 0 => producer = "signalling"

(* The ring with its pipe is a bounded FIFO of MESSAGE_QUEUE_LEN - 1       *)
(* messages: nothing is lost, duplicated, reordered or torn, a message is  *)
(* refused only by a full queue, and what a dequeue returns is the oldest. *)
Fifo ==
  INSTANCE BoundedFifo WITH queue <- Content, Capacity <- MESSAGE_QUEUE_LEN - 1
ImplementsFifo == Fifo!FifoSpec

(* The message at the head of the ring is eventually dequeued: no wake-up  *)
(* is lost between the store of tail, the pipe and select().               *)
HeadAdvances ==
  \A i \in Slot : (head = i /\ head # tail) ~> (head # i)
=============================================================================
