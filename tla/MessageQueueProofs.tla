------------------------- MODULE MessageQueueProofs -------------------------
(***************************************************************************)
(* Proofs about MessageQueue for every length of the ring, every set of    *)
(* messages and both consumers: its type invariant, the accounting of the  *)
(* pipe, the absence of slot races, and that it implements BoundedFifo.    *)
(***************************************************************************)
EXTENDS MessageQueue, SequenceTheorems, TLAPS

(***************************************************************************)
(* The inductive invariant.  It adds to the properties what each thread    *)
(* learnt from its loads and keeps until its store: the producer found     *)
(* room at tail, and the consumer, which alone can only make more of it,   *)
(* cannot take it away; the consumer found a message at head, and the      *)
(* producer cannot take it away.  The copies made in between are exact.    *)
(***************************************************************************)
RoomKept == producer \in {"copying", "publishing"} => ~Full
MessageKept == consumer \in {"copying", "releasing"} => head # tail
OfferFits ==
  producer \in {"copying", "publishing"} => offered \in Message \ Oversized
CopiedIn == producer = "publishing" => buffer[tail] = offered
CopiedOut == consumer = "releasing" => dest = buffer[head]

IInv ==
  /\ TypeOK
  /\ PipeMatchesOccupancy
  /\ RoomKept
  /\ MessageKept
  /\ OfferFits
  /\ CopiedIn
  /\ CopiedOut

----------------------------------------------------------------------------
(* Where an index less than two turns round the ring lands. *)
LEMMA IndexWrap ==
  ASSUME NEW h \in Slot, NEW k \in 0 .. MESSAGE_QUEUE_LEN
  PROVE  (h + k) % MESSAGE_QUEUE_LEN
           = IF h + k < MESSAGE_QUEUE_LEN THEN h + k ELSE h + k - MESSAGE_QUEUE_LEN
BY QueueAssumption DEF Slot

(* The slot after i, without the modulus. *)
LEMMA NextSlotValue ==
  ASSUME NEW i \in Slot
  PROVE  /\ NextSlot(i) \in Slot
         /\ NextSlot(i) = IF i = MESSAGE_QUEUE_LEN - 1 THEN 0 ELSE i + 1
<1>1. 1 \in 0 .. MESSAGE_QUEUE_LEN
  BY QueueAssumption
<1>2. NextSlot(i)
        = IF i + 1 < MESSAGE_QUEUE_LEN THEN i + 1 ELSE i + 1 - MESSAGE_QUEUE_LEN
  BY <1>1, IndexWrap DEF NextSlot
<1>3. QED
  BY <1>2, QueueAssumption DEF Slot

(* The ring never holds more than MESSAGE_QUEUE_LEN - 1 messages, and just *)
(* that many when it is full.                                              *)
LEMMA OccupancyRange ==
  ASSUME head \in Slot, tail \in Slot
  PROVE  /\ Occupancy \in 0 .. MESSAGE_QUEUE_LEN - 1
         /\ (Occupancy = 0) <=> (head = tail)
         /\ (Occupancy = MESSAGE_QUEUE_LEN - 1) <=> Full
BY NextSlotValue, QueueAssumption DEF Occupancy, Full, Slot

(* The store of tail adds one message to a ring that is not full. *)
LEMMA PublishOccupancy ==
  ASSUME head \in Slot, tail \in Slot, ~Full,
         head' = head, tail' = NextSlot(tail)
  PROVE  Occupancy' = Occupancy + 1
BY NextSlotValue, QueueAssumption DEF Occupancy, Full, Slot

(* The store of head takes one message from a ring that is not empty. *)
LEMMA ReleaseOccupancy ==
  ASSUME head \in Slot, tail \in Slot, head # tail,
         tail' = tail, head' = NextSlot(head)
  PROVE  Occupancy' = Occupancy - 1
BY NextSlotValue, QueueAssumption DEF Occupancy, Slot

(* Every state the queue starts in satisfies the inductive invariant. *)
LEMMA InitIInv == Init => IInv
BY QueueAssumption
   DEF Init, IInv, TypeOK, PipeMatchesOccupancy, RoomKept, MessageKept, OfferFits,
       CopiedIn, CopiedOut, Occupancy, Slot

(* Every step preserves the inductive invariant. *)
LEMMA NextIInv == IInv /\ [Next]_vars => IInv'
<1> SUFFICES ASSUME IInv, [Next]_vars PROVE IInv'
  OBVIOUS
<1> USE DEF IInv, TypeOK, PipeMatchesOccupancy, RoomKept, MessageKept, OfferFits,
            CopiedIn, CopiedOut, shared, producerVars, consumerVars
<1>a. NextSlot(head) \in Slot /\ NextSlot(tail) \in Slot
  BY NextSlotValue
<1>1. ASSUME NEW m \in Message, EnqueueTooLarge(m) PROVE IInv'
  BY <1>1 DEF EnqueueTooLarge, Occupancy, Full
<1>2. ASSUME NEW m \in Message, EnqueueFull(m) PROVE IInv'
  BY <1>2 DEF EnqueueFull, Occupancy, Full
<1>3. ASSUME NEW m \in Message, EnqueueBegin(m) PROVE IInv'
  BY <1>3 DEF EnqueueBegin, Occupancy, Full
<1>4. CASE EnqueueCopy
  <2>1. (TypeOK /\ PipeMatchesOccupancy /\ RoomKept /\ MessageKept /\ OfferFits
           /\ CopiedIn)'
    BY <1>4 DEF EnqueueCopy, Occupancy, Full
  <2>2. CopiedOut'
    BY <1>4 DEF EnqueueCopy
  <2>3. QED
    BY <2>1, <2>2
<1>5. CASE EnqueuePublish
  <2>1. (TypeOK /\ RoomKept /\ OfferFits /\ CopiedIn /\ CopiedOut)'
    BY <1>5, <1>a DEF EnqueuePublish
  <2>2. Occupancy' = Occupancy + 1
    BY <1>5, PublishOccupancy DEF EnqueuePublish
  <2>3. PipeMatchesOccupancy'
    BY <1>5, <2>2, OccupancyRange, QueueAssumption DEF EnqueuePublish
  <2>4. MessageKept'
    BY <1>5 DEF EnqueuePublish, Full
  <2>5. QED
    BY <2>1, <2>3, <2>4
<1>6. CASE EnqueueSignal
  BY <1>6 DEF EnqueueSignal, Occupancy, Full, Slot
<1>7. CASE BeginDrain
  BY <1>7 DEF BeginDrain, Occupancy, Full
<1>8. CASE DequeueLoad
  BY <1>8 DEF DequeueLoad, Occupancy, Full
<1>9. CASE DequeueCopy
  BY <1>9 DEF DequeueCopy, Occupancy, Full
<1>10. CASE DequeueRelease
  <2>1. (TypeOK /\ MessageKept /\ OfferFits /\ CopiedIn /\ CopiedOut)'
    BY <1>10, <1>a DEF DequeueRelease
  <2>2. Occupancy' = Occupancy - 1
    BY <1>10, ReleaseOccupancy DEF DequeueRelease
  <2>3. PipeMatchesOccupancy'
    BY <1>10, <2>2, OccupancyRange, QueueAssumption DEF DequeueRelease
  <2>4. RoomKept'
    BY <1>10, NextSlotValue, QueueAssumption DEF DequeueRelease, Full, Slot
  <2>5. QED
    BY <2>1, <2>3, <2>4
<1>11. CASE DequeueCollect
  <2>1. Occupancy' = Occupancy /\ Occupancy \in Nat
    BY <1>11, OccupancyRange, QueueAssumption DEF DequeueCollect, Occupancy
  <2>2. PipeMatchesOccupancy'
    BY <1>11, <2>1 DEF DequeueCollect
  <2>3. QED
    BY <1>11, <2>2 DEF DequeueCollect, Full
<1>12. CASE UNCHANGED vars
  BY <1>12 DEF vars, Occupancy, Full
<1>13. QED
  BY <1>1, <1>2, <1>3, <1>4, <1>5, <1>6, <1>7, <1>8, <1>9, <1>10, <1>11, <1>12
     DEF Next, Call, Enqueue, Dequeue

(* The inductive invariant holds in every reachable state. *)
LEMMA AlwaysIInv == Spec => []IInv
BY InitIInv, NextIInv, PTL DEF Spec

----------------------------------------------------------------------------
(* Every variable keeps its type. *)
THEOREM TypeCorrect == Spec => []TypeOK
<1>1. IInv => TypeOK
  BY DEF IInv
<1>2. QED
  BY <1>1, AlwaysIInv, PTL

(* The pipe's bytes account for the ring's messages at every step of the   *)
(* two threads, whatever the length of the ring.                           *)
THEOREM PipeAccounting == Spec => []PipeMatchesOccupancy
<1>1. IInv => PipeMatchesOccupancy
  BY DEF IInv
<1>2. QED
  BY <1>1, AlwaysIInv, PTL

(* The two memcpy calls never touch one slot together. *)
THEOREM SlotsNeverRace == Spec => []NoSlotRace
<1>1. IInv => NoSlotRace
  BY DEF IInv, MessageKept, NoSlotRace
<1>2. QED
  BY <1>1, AlwaysIInv, PTL

(* A blocking read of the pipe only ever waits for a write under way. *)
THEOREM ReadsReturn == Spec => []ReadWaitsForPendingWrite
<1>1. IInv => ReadWaitsForPendingWrite
  BY OccupancyRange, QueueAssumption
     DEF IInv, TypeOK, PipeMatchesOccupancy, ReadWaitsForPendingWrite
<1>2. QED
  BY <1>1, AlwaysIInv, PTL

----------------------------------------------------------------------------
(* The ring's content is a sequence of length Occupancy whose k-th message *)
(* sits k - 1 slots after head.                                            *)
ContentIsSeq ==
  /\ Content \in Seq(Message \cup {NoMessage})
  /\ Len(Content) = Occupancy
  /\ \A k \in 1 .. Occupancy :
       Content[k] = buffer[IF head + k - 1 < MESSAGE_QUEUE_LEN
                             THEN head + k - 1 ELSE head + k - 1 - MESSAGE_QUEUE_LEN]

LEMMA ContentSeq == TypeOK => ContentIsSeq
<1> SUFFICES ASSUME TypeOK PROVE ContentIsSeq
  OBVIOUS
<1>1. Occupancy \in Nat
  BY OccupancyRange, QueueAssumption DEF TypeOK
<1>2. ASSUME NEW k \in 1 .. Occupancy
      PROVE  /\ (head + k - 1) % MESSAGE_QUEUE_LEN \in Slot
             /\ (head + k - 1) % MESSAGE_QUEUE_LEN
                  = IF head + k - 1 < MESSAGE_QUEUE_LEN
                      THEN head + k - 1 ELSE head + k - 1 - MESSAGE_QUEUE_LEN
  <2>1. head \in Slot /\ k - 1 \in 0 .. MESSAGE_QUEUE_LEN /\ head \in Int /\ k \in Int
    BY OccupancyRange, QueueAssumption DEF TypeOK, Slot
  <2>2. (head + (k - 1)) % MESSAGE_QUEUE_LEN
          = IF head + (k - 1) < MESSAGE_QUEUE_LEN
              THEN head + (k - 1) ELSE head + (k - 1) - MESSAGE_QUEUE_LEN
    BY <2>1, IndexWrap
  <2>3. head + (k - 1) = head + k - 1
    BY <2>1
  <2>4. k - 1 < MESSAGE_QUEUE_LEN
    BY OccupancyRange, QueueAssumption DEF TypeOK
  <2>5. QED
    BY <2>1, <2>2, <2>3, <2>4, QueueAssumption DEF Slot
<1>3. Content \in [1 .. Occupancy -> Message \cup {NoMessage}]
  BY <1>2 DEF Content, TypeOK
<1>4. \A k \in 1 .. Occupancy : Content[k] = buffer[(head + k - 1) % MESSAGE_QUEUE_LEN]
  BY DEF Content
<1>5. QED
  BY <1>1, <1>2, <1>3, <1>4 DEF ContentIsSeq

LEMMA NextContentSeq == TypeOK' => ContentIsSeq'
BY ContentSeq, PTL

(* Publishing the slot at tail appends the offered message. *)
LEMMA PublishAppends ==
  ASSUME IInv, IInv', EnqueuePublish
  PROVE  Content' = Append(Content, offered)
<1> DEFINE T == Message \cup {NoMessage}
<1>1. /\ TypeOK /\ TypeOK' /\ head \in Slot /\ tail \in Slot /\ offered \in T
      /\ head' = head /\ tail' = NextSlot(tail) /\ buffer' = buffer
      /\ ~Full /\ buffer[tail] = offered
  BY DEF IInv, TypeOK, EnqueuePublish, RoomKept, CopiedIn
<1>2. Occupancy' = Occupancy + 1 /\ Occupancy \in 0 .. MESSAGE_QUEUE_LEN - 1
  BY <1>1, PublishOccupancy, OccupancyRange
<1>3. /\ Content \in Seq(T) /\ Len(Content) = Occupancy
      /\ Content' \in Seq(T) /\ Len(Content') = Occupancy'
  BY <1>1, ContentSeq, NextContentSeq DEF ContentIsSeq
<1>4. /\ Append(Content, offered) \in Seq(T)
      /\ Len(Append(Content, offered)) = Occupancy + 1
      /\ \A k \in 1 .. Occupancy : Append(Content, offered)[k] = Content[k]
      /\ Append(Content, offered)[Occupancy + 1] = offered
  BY <1>1, <1>3, AppendProperties
<1>5. ASSUME NEW k \in 1 .. Occupancy + 1
      PROVE  Content'[k] = Append(Content, offered)[k]
  <2>1. Content'[k] = buffer[IF head + k - 1 < MESSAGE_QUEUE_LEN
                               THEN head + k - 1 ELSE head + k - 1 - MESSAGE_QUEUE_LEN]
    BY <1>1, <1>2, ContentSeq, NextContentSeq DEF ContentIsSeq
  <2>2. CASE k \in 1 .. Occupancy
    BY <1>1, <1>4, <2>1, <2>2, ContentSeq, NextContentSeq DEF ContentIsSeq
  <2>3. CASE k = Occupancy + 1
    <3>1. (IF head + k - 1 < MESSAGE_QUEUE_LEN
             THEN head + k - 1 ELSE head + k - 1 - MESSAGE_QUEUE_LEN) = tail
      BY <1>1, <1>2, <2>3, QueueAssumption DEF Occupancy, Slot
    <3>2. QED
      BY <1>1, <1>4, <2>1, <2>3, <3>1
  <2>4. QED
    <3>1. k \in 1 .. Occupancy \/ k = Occupancy + 1
      BY <1>2, QueueAssumption
    <3>2. QED
      BY <2>2, <2>3, <3>1
<1>6. QED
  BY <1>2, <1>3, <1>4, <1>5, SeqEqual

(* Releasing the slot at head removes the oldest message, the one copied. *)
LEMMA ReleaseRemovesOldest ==
  ASSUME IInv, IInv', DequeueRelease
  PROVE  /\ Content # <<>>
         /\ dest = Head(Content)
         /\ Content' = Tail(Content)
<1> DEFINE T == Message \cup {NoMessage}
<1>1. /\ TypeOK /\ TypeOK' /\ head \in Slot /\ tail \in Slot
      /\ tail' = tail /\ head' = NextSlot(head) /\ buffer' = buffer
      /\ head # tail /\ dest = buffer[head]
  BY DEF IInv, TypeOK, DequeueRelease, MessageKept, CopiedOut
<1>2. Occupancy' = Occupancy - 1 /\ Occupancy \in 1 .. MESSAGE_QUEUE_LEN - 1
  BY <1>1, ReleaseOccupancy, OccupancyRange, QueueAssumption
<1>3. /\ Content \in Seq(T) /\ Len(Content) = Occupancy
      /\ Content' \in Seq(T) /\ Len(Content') = Occupancy'
  BY <1>1, ContentSeq, NextContentSeq DEF ContentIsSeq
<1>4. Content # <<>>
  BY <1>2, <1>3
<1>5. /\ Head(Content) = Content[1]
      /\ Tail(Content) \in Seq(T)
      /\ Len(Tail(Content)) = Occupancy - 1
      /\ \A k \in 1 .. Occupancy - 1 : Tail(Content)[k] = Content[k + 1]
  BY <1>2, <1>3, <1>4, HeadTailProperties
<1>6. dest = Head(Content)
  <2>1. 1 \in 1 .. Occupancy
    BY <1>2, QueueAssumption
  <2>2. Content[1] = buffer[IF head + 1 - 1 < MESSAGE_QUEUE_LEN
                              THEN head + 1 - 1 ELSE head + 1 - 1 - MESSAGE_QUEUE_LEN]
    BY <1>1, <2>1, ContentSeq, NextContentSeq DEF ContentIsSeq
  <2>3. QED
    BY <1>1, <1>5, <2>2, QueueAssumption DEF Slot
<1>7. ASSUME NEW k \in 1 .. Occupancy - 1
      PROVE  Content'[k] = Tail(Content)[k]
  <2>1. k \in 1 .. Occupancy' /\ k + 1 \in 1 .. Occupancy
    BY <1>2, QueueAssumption
  <2>2. Content[k + 1] = buffer[IF head + (k + 1) - 1 < MESSAGE_QUEUE_LEN
                                  THEN head + (k + 1) - 1
                                  ELSE head + (k + 1) - 1 - MESSAGE_QUEUE_LEN]
    BY <1>1, <2>1, ContentSeq, NextContentSeq DEF ContentIsSeq
  <2>3. Content'[k] = buffer'[IF head' + k - 1 < MESSAGE_QUEUE_LEN
                                THEN head' + k - 1
                                ELSE head' + k - 1 - MESSAGE_QUEUE_LEN]
    BY <1>1, <2>1, ContentSeq, NextContentSeq DEF ContentIsSeq
  <2>4. head' = IF head = MESSAGE_QUEUE_LEN - 1 THEN 0 ELSE head + 1
    BY <1>1, NextSlotValue
  <2>5. (IF head + (k + 1) - 1 < MESSAGE_QUEUE_LEN
           THEN head + (k + 1) - 1 ELSE head + (k + 1) - 1 - MESSAGE_QUEUE_LEN)
          = (IF head' + k - 1 < MESSAGE_QUEUE_LEN
               THEN head' + k - 1 ELSE head' + k - 1 - MESSAGE_QUEUE_LEN)
    BY <1>1, <1>2, <2>4, QueueAssumption DEF Slot
  <2>6. QED
    BY <1>1, <1>5, <2>2, <2>3, <2>5
<1>8. QED
  BY <1>2, <1>3, <1>4, <1>5, <1>6, <1>7, SeqEqual

(* A step that leaves the published slots and the cursors alone leaves the *)
(* content alone.                                                          *)
LEMMA ContentUnchanged ==
  ASSUME UNCHANGED <<buffer, head, tail>>
  PROVE  Content' = Content
BY DEF Content, Occupancy

(* Writing the slot at tail, which is outside the content, changes nothing *)
(* a consumer can see.                                                     *)
LEMMA CopyInvisible ==
  ASSUME IInv, IInv', EnqueueCopy
  PROVE  Content' = Content
<1> DEFINE T == Message \cup {NoMessage}
<1>1. /\ TypeOK /\ TypeOK' /\ head \in Slot /\ tail \in Slot
      /\ head' = head /\ tail' = tail
      /\ buffer \in [Slot -> T]
      /\ buffer' = [buffer EXCEPT ![tail] = offered]
  BY DEF IInv, TypeOK, EnqueueCopy
<1>2. Occupancy' = Occupancy /\ Occupancy \in 0 .. MESSAGE_QUEUE_LEN - 1
  BY <1>1, OccupancyRange DEF Occupancy
<1>3. /\ Content \in Seq(T) /\ Len(Content) = Occupancy
      /\ Content' \in Seq(T) /\ Len(Content') = Occupancy'
  BY <1>1, ContentSeq, NextContentSeq DEF ContentIsSeq
<1>4. ASSUME NEW k \in 1 .. Occupancy
      PROVE  Content'[k] = Content[k]
  <2> DEFINE at == IF head + k - 1 < MESSAGE_QUEUE_LEN
                     THEN head + k - 1 ELSE head + k - 1 - MESSAGE_QUEUE_LEN
  <2>1. at \in Slot /\ at # tail
    BY <1>1, <1>2, QueueAssumption DEF Occupancy, Slot
  <2>2. buffer'[at] = buffer[at]
    BY <1>1, <2>1
  <2>3. Content[k] = buffer[at]
    BY <1>1, ContentSeq, NextContentSeq DEF ContentIsSeq
  <2>4. Content'[k] = buffer'[at]
    BY <1>1, <1>2, ContentSeq, NextContentSeq DEF ContentIsSeq
  <2>5. QED
    BY <2>2, <2>3, <2>4
<1>5. QED
  BY <1>2, <1>3, <1>4, SeqEqual

(* The ring with its pipe implements the bounded FIFO. *)
THEOREM RingImplementsFifo == Spec => ImplementsFifo
<1>1. Init => Fifo!FifoInit
  BY DEF Init, Fifo!FifoInit, Content, Occupancy
<1>2. IInv /\ IInv' /\ [Next]_vars => [Fifo!FifoNext]_(Fifo!fifoVars)
  <2> SUFFICES ASSUME IInv, IInv', [Next]_vars
               PROVE  Fifo!FifoNext \/ UNCHANGED Fifo!fifoVars
    OBVIOUS
  <2> USE DEF Fifo!fifoVars, shared, producerVars, consumerVars
  <2>1. ASSUME NEW m \in Message, EnqueueTooLarge(m) PROVE Fifo!RefuseTooLarge
    BY <2>1, ContentUnchanged DEF EnqueueTooLarge, Fifo!RefuseTooLarge
  <2>2. ASSUME NEW m \in Message, EnqueueFull(m) PROVE Fifo!RefuseFull
    BY <2>2, ContentUnchanged, ContentSeq, OccupancyRange
       DEF ContentIsSeq, EnqueueFull, Fifo!RefuseFull, IInv, TypeOK
  <2>3. ASSUME NEW m \in Message, EnqueueBegin(m) PROVE UNCHANGED Fifo!fifoVars
    BY <2>3, ContentUnchanged DEF EnqueueBegin
  <2>4. CASE EnqueueCopy
    BY <2>4, CopyInvisible DEF EnqueueCopy
  <2>5. CASE EnqueuePublish
    <3>1. offered \in Message \ Oversized /\ ~Full
      BY <2>5 DEF EnqueuePublish, IInv, OfferFits, RoomKept
    <3>2. Len(Content) < MESSAGE_QUEUE_LEN - 1
      BY <3>1, ContentSeq, OccupancyRange, QueueAssumption
         DEF ContentIsSeq, IInv, TypeOK
    <3>3. Fifo!Accept(offered)
      BY <2>5, <3>2, PublishAppends DEF EnqueuePublish, Fifo!Accept
    <3>4. QED
      BY <3>1, <3>3 DEF Fifo!FifoNext
  <2>6. CASE EnqueueSignal
    BY <2>6, ContentUnchanged DEF EnqueueSignal
  <2>7. CASE BeginDrain \/ DequeueLoad \/ DequeueCopy \/ DequeueCollect
    BY <2>7, ContentUnchanged DEF BeginDrain, DequeueLoad, DequeueCopy, DequeueCollect
  <2>8. CASE DequeueRelease
    <3>1. Fifo!Receive
      BY <2>8, ReleaseRemovesOldest DEF DequeueRelease, Fifo!Receive
    <3>2. QED
      BY <3>1 DEF Fifo!FifoNext
  <2>9. CASE UNCHANGED vars
    BY <2>9, ContentUnchanged DEF vars
  <2>10. QED
    BY <2>1, <2>2, <2>3, <2>4, <2>5, <2>6, <2>7, <2>8, <2>9
       DEF Next, Call, Enqueue, Dequeue, Fifo!FifoNext
<1>3. QED
  BY <1>1, <1>2, AlwaysIInv, PTL DEF Spec, ImplementsFifo, Fifo!FifoSpec
=============================================================================
