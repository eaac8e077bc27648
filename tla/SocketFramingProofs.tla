------------------------- MODULE SocketFramingProofs -------------------------
(***************************************************************************)
(* For every set of messages, buffer and stream size: the receive buffer   *)
(* and its count stay in bounds, recv() is never called on a socket that   *)
(* has nothing to say, and the messages come out as MessageStream has it.  *)
(***************************************************************************)
EXTENDS SocketFraming, OrderFacts, SequenceTheorems

(* The status is still true when the caller acts on it: a message handed   *)
(* out as one of several leaves a complete one in the buffer.              *)
StatusIsTrue == reader = "process" => status = "single" \/ HaveMessage

(* The count is -1 only after the error that takes one from it.            *)
CountIsNatural == link # "failed" => bytes_received >= 0

IInv == TypeOK /\ CountIsNatural /\ RecvNeverBlocks /\ StatusIsTrue

----------------------------------------------------------------------------
(* The first message of a buffer ends in it, within the bytes counted.     *)
LEMMA MessageEnds ==
  ASSUME NEW buf \in [BufferIndex -> Byte], NEW n \in -1 .. MAX_RECV_BUFFER_SIZE,
         is_message_complete(buf, n)
  PROVE  get_msg_len(buf) \in 1 .. n
<1> USE FramingAssumption DEF BufferIndex
<1>1. EndsIn(buf, n) \in SUBSET Nat /\ EndsIn(buf, n) # {}
  BY DEF is_message_complete, EndsIn
<1>2. PICK first \in EndsIn(buf, n) : \A i \in EndsIn(buf, n) : first <= i
  BY <1>1, LeastElement
<1>3. first \in DOMAIN buf /\ IsEnd(buf[first]) /\ \A j \in 1 .. first - 1 : ~IsEnd(buf[j])
  BY <1>2 DEF EndsIn
<1> DEFINE len == get_msg_len(buf)
<1>4. len \in DOMAIN buf /\ IsEnd(buf[len]) /\ \A j \in 1 .. len - 1 : ~IsEnd(buf[j])
  BY <1>3 DEF get_msg_len
<1> HIDE DEF len
<1>5. len <= first
  BY <1>2, <1>3, <1>4 DEF EndsIn
<1>6. first <= n
  BY <1>2 DEF EndsIn
<1>7. len \in 1 .. n
  BY <1>4, <1>5, <1>6, <1>3
<1> QED
  BY <1>7 DEF len

(* What handing out a message leaves behind. *)
LEMMA HandOutFacts ==
  ASSUME NEW buf \in [BufferIndex -> Byte], NEW n \in -1 .. MAX_RECV_BUFFER_SIZE,
         is_message_complete(buf, n), HandOut(buf, n)
  PROVE  /\ received' \in [BufferIndex -> Byte]
         /\ bytes_received' \in 0 .. MAX_RECV_BUFFER_SIZE
         /\ msg' \in Seq(Byte)
         /\ reader' \in {"hello", "process"}
         /\ status' \in {"single", "multiple"}
         /\ status' = "single" \/ HaveMessage'
<1> DEFINE len == get_msg_len(buf)
<1>1. len \in 1 .. n
  BY MessageEnds
<1> HIDE DEF len
<1> USE FramingAssumption
<1>2. Zero \in Byte
  <2>1. MAX_RECV_BUFFER_SIZE \in Nat /\ 1 \in 0 .. MAX_RECV_BUFFER_SIZE
    BY <1>1
  <2> QED
    BY <2>1 DEF Zero, Byte
<1>3. MovedUp(buf, n, len) \in [BufferIndex -> Byte]
  <2>1. \A i \in BufferIndex : i <= n - len => i + len \in BufferIndex
    BY <1>1 DEF BufferIndex
  <2> QED
    BY <1>2, <2>1 DEF MovedUp
<1>4. SubSeq(buf, 1, len) \in Seq(Byte)
  <2>1. \A i \in 1 .. len : buf[i] \in Byte
    BY <1>1 DEF BufferIndex
  <2> QED
    BY <1>1, <2>1, SubSeqProperties
<1>5. /\ msg' = SubSeq(buf, 1, len)
      /\ received' = MovedUp(buf, n, len)
      /\ bytes_received' = n - len
      /\ status' = StatusWith(MovedUp(buf, n, len), n - len)
      /\ reader' = IF reader = "greet" THEN "hello" ELSE "process"
  BY DEF HandOut, CountLeft, len
<1>6. status' \in {"single", "multiple"} /\ (status' = "single" \/ HaveMessage')
  BY <1>5 DEF StatusWith, HaveMessage
<1>7. n - len \in 0 .. MAX_RECV_BUFFER_SIZE
  BY <1>1
<1> QED
  BY <1>3, <1>4, <1>5, <1>6, <1>7

----------------------------------------------------------------------------
LEMMA InitIInv == Init => IInv
<1> SUFFICES ASSUME Init PROVE IInv
  OBVIOUS
<1>1. received \in [BufferIndex -> Byte]
  <2>1. \A i \in BufferIndex : 1 \in 0 .. MAX_RECV_BUFFER_SIZE
    BY FramingAssumption DEF BufferIndex
  <2> QED
    BY <2>1 DEF Init, Zero, Byte
<1>2. /\ bytes_received \in -1 .. MAX_RECV_BUFFER_SIZE
      /\ bytes_received >= 0
      /\ Len(stream) <= StreamSize
  BY FramingAssumption DEF Init
<1>3. msg \in Seq(Byte) /\ sending \in Seq(Byte) /\ stream \in Seq(Byte)
  BY DEF Init
<1> QED
  BY <1>1, <1>2, <1>3 DEF Init, IInv, TypeOK, CountIsNatural, RecvNeverBlocks, StatusIsTrue

(* The reader's calls of recv(). *)
LEMMA RecvStep ==
  ASSUME IInv, Recv
  PROVE  IInv'
<1> USE FramingAssumption
<1> USE DEF IInv, TypeOK
<1>1. PICK k \in 1 .. Len(stream) :
        /\ k <= Room
        /\ stream' = SubSeq(stream, k + 1, Len(stream))
        /\ IF is_message_complete(Filled(k), bytes_received + k)
             THEN HandOut(Filled(k), bytes_received + k)
             ELSE /\ received' = Filled(k)
                  /\ bytes_received' = bytes_received + k
                  /\ Incomplete
  BY DEF Recv
<1>2. stream' \in Seq(Byte) /\ Len(stream') <= StreamSize
  <2>1. Len(stream) \in Nat /\ \A i \in k + 1 .. Len(stream) : stream[i] \in Byte
    BY LenProperties, ElementOfSeq
  <2>2. /\ SubSeq(stream, k + 1, Len(stream)) \in Seq(Byte)
        /\ Len(SubSeq(stream, k + 1, Len(stream)))
             = IF k + 1 <= Len(stream) THEN Len(stream) - (k + 1) + 1 ELSE 0
    BY <2>1, SubSeqProperties
  <2> QED
    BY <1>1, <2>1, <2>2
<1>3. stream # <<>>
  BY <1>1
<1>4. Filled(k) \in [BufferIndex -> Byte]
  <2>1. \A i \in BufferIndex :
          i \in bytes_received + 1 .. bytes_received + k => stream[i - bytes_received] \in Byte
    BY <1>1, LenProperties, ElementOfSeq DEF BufferIndex
  <2> QED
    BY <2>1 DEF Filled
<1>5. bytes_received + k \in -1 .. MAX_RECV_BUFFER_SIZE /\ bytes_received + k >= 0
  BY <1>1 DEF Room
<1>6. UNCHANGED <<sending, name_answered, link>> /\ Calling
  BY DEF Recv, sender
<1>7. CASE is_message_complete(Filled(k), bytes_received + k)
  <2>1. HandOut(Filled(k), bytes_received + k)
    BY <1>1, <1>7
  <2>2. /\ received' \in [BufferIndex -> Byte]
        /\ bytes_received' \in 0 .. MAX_RECV_BUFFER_SIZE
        /\ msg' \in Seq(Byte)
        /\ reader' \in {"hello", "process"}
        /\ status' \in {"single", "multiple"}
        /\ status' = "single" \/ HaveMessage'
    BY <1>4, <1>5, <1>7, <2>1, HandOutFacts
  <2> QED
    BY <1>2, <1>6, <2>2 DEF CountIsNatural, RecvNeverBlocks, StatusIsTrue
<1>8. CASE ~is_message_complete(Filled(k), bytes_received + k)
  <2>1. received' = Filled(k) /\ bytes_received' = bytes_received + k /\ Incomplete
    BY <1>1, <1>8
  <2>2. /\ reader' \in {"greet", "select"}
        /\ status' = "incomplete"
        /\ msg' = msg
    BY <2>1 DEF Incomplete
  <2> QED
    BY <1>2, <1>4, <1>5, <1>6, <2>1, <2>2 DEF CountIsNatural, RecvNeverBlocks, StatusIsTrue
<1> QED
  BY <1>7, <1>8

LEMMA TakeBufferedStep ==
  ASSUME IInv, TakeBuffered
  PROVE  IInv'
<1>1. /\ received' \in [BufferIndex -> Byte]
      /\ bytes_received' \in 0 .. MAX_RECV_BUFFER_SIZE
      /\ msg' \in Seq(Byte)
      /\ reader' \in {"hello", "process"}
      /\ status' \in {"single", "multiple"}
      /\ status' = "single" \/ HaveMessage'
  BY HandOutFacts DEF TakeBuffered, HaveMessage, IInv, TypeOK
<1>2. bytes_received' \in -1 .. MAX_RECV_BUFFER_SIZE /\ bytes_received' >= 0
  BY <1>1, FramingAssumption
<1> QED
  BY <1>1, <1>2
  DEF TakeBuffered, sender, IInv, TypeOK, CountIsNatural, RecvNeverBlocks, StatusIsTrue

(* send(), which never takes bytes away. *)
LEMMA SendSomeStep ==
  ASSUME IInv, SendSome
  PROVE  IInv'
<1> USE DEF IInv, TypeOK
<1>1. PICK k \in 1 .. Len(sending) :
        /\ k <= StreamSize - Len(stream)
        /\ stream' = stream \o SubSeq(sending, 1, k)
        /\ sending' = SubSeq(sending, k + 1, Len(sending))
  BY DEF SendSome
<1>2. /\ Len(sending) \in Nat /\ Len(stream) \in Nat
      /\ \A i \in 1 .. Len(sending) : sending[i] \in Byte
  BY LenProperties, ElementOfSeq
<1>3. SubSeq(sending, 1, k) \in Seq(Byte) /\ Len(SubSeq(sending, 1, k)) = k
  <2>1. \A i \in 1 .. k : sending[i] \in Byte
    BY <1>1, <1>2
  <2>2. /\ SubSeq(sending, 1, k) \in Seq(Byte)
        /\ Len(SubSeq(sending, 1, k)) = IF 1 <= k THEN k - 1 + 1 ELSE 0
    BY <1>1, <1>2, <2>1, SubSeqProperties
  <2> QED
    BY <1>2, <2>2
<1>4. SubSeq(sending, k + 1, Len(sending)) \in Seq(Byte)
  <2>1. \A i \in k + 1 .. Len(sending) : sending[i] \in Byte
    BY <1>1, <1>2
  <2> QED
    BY <1>1, <1>2, <2>1, SubSeqProperties
<1>5. stream' \in Seq(Byte) /\ Len(stream') = Len(stream) + k
  BY <1>1, <1>3, ConcatProperties
<1>6. Len(stream') <= StreamSize /\ stream' # <<>>
  <2>1. Len(stream') # 0
    BY <1>2, <1>5
  <2>2. stream' # <<>>
    BY <2>1
  <2> QED
    <3>1. k <= StreamSize - Len(stream) /\ Len(stream') = Len(stream) + k
      BY <1>1, <1>5
    <3>2. StreamSize \in Nat /\ k \in Int /\ Len(stream) \in Int
      BY <1>2, FramingAssumption
    <3>3. Len(stream') <= StreamSize
      BY ONLY <3>1, <3>2
    <3> QED
      BY <2>2, <3>3
<1>7. UNCHANGED <<received, bytes_received, msg, status, reader, name_answered, link>>
  BY DEF SendSome, buffer
<1> QED
  BY <1>1, <1>4, <1>5, <1>6, <1>7
  DEF CountIsNatural, RecvNeverBlocks, StatusIsTrue, HaveMessage

LEMMA PeerResetsStep ==
  ASSUME IInv, PeerResets
  PROVE  IInv'
<1> USE DEF IInv, TypeOK
<1>1. PICK n \in 0 .. Len(stream) : stream' = SubSeq(stream, 1, n)
  BY DEF PeerResets
<1>2. stream' \in Seq(Byte) /\ Len(stream') <= StreamSize
  <2>1. Len(stream) \in Nat /\ \A i \in 1 .. n : stream[i] \in Byte
    BY LenProperties, ElementOfSeq
  <2>2. /\ SubSeq(stream, 1, n) \in Seq(Byte)
        /\ Len(SubSeq(stream, 1, n)) = IF 1 <= n THEN n - 1 + 1 ELSE 0
    BY <2>1, SubSeqProperties
  <2> QED
    BY <1>1, <2>1, <2>2, FramingAssumption
<1>3. /\ UNCHANGED <<received, bytes_received, msg, status, reader, name_answered>>
      /\ sending' = <<>> /\ link = "open" /\ link' = "reset"
  BY DEF PeerResets, buffer
<1>4. sending' \in Seq(Byte)
  BY <1>3
<1> QED
  BY <1>2, <1>3, <1>4 DEF CountIsNatural, RecvNeverBlocks, StatusIsTrue, HaveMessage

(* The bytes of a message. *)
LEMMA BytesType ==
  ASSUME NEW m \in Message
  PROVE  Bytes(m) \in Seq(Byte)
<1>1. Size[m] \in 1 .. MAX_RECV_BUFFER_SIZE /\ MAX_RECV_BUFFER_SIZE \in Nat
  BY FramingAssumption
<1>2. \A k \in 1 .. Size[m] : Size[m] - k \in 0 .. MAX_RECV_BUFFER_SIZE
  BY <1>1
<1>3. \A k \in 1 .. Size[m] : <<m, Size[m] - k>> \in Byte
  BY <1>2 DEF Byte
<1> QED
  BY <1>1, <1>3 DEF Bytes

LEMMA StepIInv == IInv /\ [Next]_vars => IInv'
<1> SUFFICES ASSUME IInv, [Next]_vars PROVE IInv'
  OBVIOUS
<1> USE DEF IInv, TypeOK, CountIsNatural, RecvNeverBlocks, StatusIsTrue, HaveMessage
<1>1. CASE TakeBuffered
  BY <1>1, TakeBufferedStep
<1>2. CASE Recv
  BY <1>2, RecvStep
<1>3. CASE RecvEnd
  BY <1>3 DEF RecvEnd, buffer, sender
<1>4. CASE RecvFails
  <2>1. bytes_received' \in -1 .. MAX_RECV_BUFFER_SIZE
    BY <1>4, FramingAssumption DEF RecvFails
  <2>2. /\ reader' \in {"greet", "select"} /\ status' = "incomplete" /\ link' = "failed"
        /\ UNCHANGED <<received, msg, sending, name_answered, stream>>
    BY <1>4 DEF RecvFails, Incomplete, sender
  <2> QED
    BY <2>1, <2>2
<1>5. CASE Wake
  BY <1>5 DEF Wake, buffer, sender
<1>6. CASE Process
  BY <1>6 DEF Process, buffer, sender
<1>7. CASE Greeted
  BY <1>7 DEF Greeted, buffer, sender
<1>8. CASE SubmitName
  BY <1>8 DEF SubmitName, buffer
<1>9. ASSUME NEW m \in Message, StartSend(m) PROVE IInv'
  BY <1>9, BytesType DEF StartSend, buffer
<1>10. CASE SendSome
  BY <1>10, SendSomeStep
<1>11. CASE PeerEnds
  <2>1. <<>> \in Seq(Byte)
    OBVIOUS
  <2> QED
    BY <1>11, <2>1 DEF PeerEnds, buffer
<1>12. CASE PeerResets
  BY <1>12, PeerResetsStep
<1>13. CASE UNCHANGED vars
  BY <1>13 DEF vars, buffer, sender
<1> QED
  BY <1>1, <1>2, <1>3, <1>4, <1>5, <1>6, <1>7, <1>8, <1>9, <1>10, <1>11, <1>12, <1>13
  DEF Next, Reader

LEMMA Inductive == Spec => []IInv
BY InitIInv, StepIInv, PTL DEF Spec

(* The receive buffer is never written past its end, and its count never   *)
(* goes further below zero than the one error takes it.                    *)
THEOREM TypeCorrect == Spec => []TypeOK
<1>1. IInv => TypeOK
  BY DEF IInv
<1> QED
  BY Inductive, <1>1, PTL

(* A reader in its loop calls recv() only on a socket that has data or has *)
(* ended, so that no peer can keep the server waiting.                     *)
THEOREM ReaderNeverBlocks == Spec => []RecvNeverBlocks
<1>1. IInv => RecvNeverBlocks
  BY DEF IInv
<1> QED
  BY Inductive, <1>1, PTL

----------------------------------------------------------------------------
(* The messages that a sequence of bytes holds *)

LEMMA EndsArePlaces ==
  ASSUME NEW w \in Seq(Byte)
  PROVE  /\ Len(w) \in Nat
         /\ Ends(w) \in SUBSET (1 .. Len(w))
         /\ IsFiniteSet(Ends(w)) /\ Cardinality(Ends(w)) \in Nat
<1>1. Len(w) \in Nat /\ Ends(w) \in SUBSET (1 .. Len(w))
  BY LenProperties DEF Ends
<1> QED
  BY <1>1, BelowFinite

(* Which end is the nth. *)
LEMMA EndIsNth ==
  ASSUME NEW w \in Seq(Byte), NEW j \in Ends(w)
  PROVE  /\ Cardinality(Below(Ends(w), j)) + 1 \in 1 .. Cardinality(Ends(w))
         /\ NthEnd(w, Cardinality(Below(Ends(w), j)) + 1) = j
<1> DEFINE T == Ends(w)
           c == Cardinality(Below(T, j))
<1>1. Len(w) \in Nat /\ T \in SUBSET (1 .. Len(w)) /\ Cardinality(T) \in Nat
  BY EndsArePlaces
<1>2. c \in Nat /\ c < Cardinality(T)
  BY <1>1, BelowFinite
<1>3. ASSUME NEW k \in T, Cardinality(Below(T, k)) = c PROVE k = j
  <2>1. k \in Int /\ j \in Int
    <3>1. T \in SUBSET Int /\ j \in T /\ k \in T
      BY <1>1
    <3> HIDE DEF T
    <3> QED
      BY <3>1
  <2>2. ~(k < j)
    <3>1. k < j => Cardinality(Below(T, k)) < Cardinality(Below(T, j))
      BY <1>1, BelowGrows
    <3> QED
      BY <1>2, <1>3, <3>1
  <2>3. ~(j < k)
    <3>1. j < k => Cardinality(Below(T, j)) < Cardinality(Below(T, k))
      BY <1>1, BelowGrows
    <3> QED
      BY <1>2, <1>3, <3>1
  <2> QED
    BY <2>1, <2>2, <2>3
<1>4. NthEnd(w, c + 1) = CHOOSE k \in T : Cardinality(Below(T, k)) = (c + 1) - 1
  BY DEF NthEnd, Below
<1>5. (c + 1) - 1 = c
  BY <1>2
<1>6. \E k \in T : Cardinality(Below(T, k)) = c
  OBVIOUS
<1> HIDE DEF T, c
<1>7. NthEnd(w, c + 1) = j
  BY <1>3, <1>4, <1>5, <1>6
<1>8. c + 1 \in 1 .. Cardinality(T)
  BY <1>1, <1>2
<1> QED
  BY <1>7, <1>8 DEF T, c

LEMMA MessagesSeq ==
  ASSUME NEW w \in Seq(Byte)
  PROVE  /\ MessagesIn(w) \in Seq(Message \cup {NoMessage})
         /\ Len(MessagesIn(w)) = Cardinality(Ends(w))
         /\ \A j \in Ends(w) :
              MessagesIn(w)[Cardinality(Below(Ends(w), j)) + 1] = w[j][1]
         /\ \A n \in 1 .. Cardinality(Ends(w)) :
              \E j \in Ends(w) : n = Cardinality(Below(Ends(w), j)) + 1
<1>1. Len(w) \in Nat /\ Ends(w) \in SUBSET (1 .. Len(w)) /\ Cardinality(Ends(w)) \in Nat
  BY EndsArePlaces
<1>2. ASSUME NEW n \in 1 .. Cardinality(Ends(w))
      PROVE  \E j \in Ends(w) : n = Cardinality(Below(Ends(w), j)) + 1
  <2>1. PICK j \in Ends(w) : Cardinality(Below(Ends(w), j)) = n - 1
    BY <1>1, NthPlace
  <2> QED
    BY <2>1
<1>3. ASSUME NEW n \in 1 .. Cardinality(Ends(w))
      PROVE  w[NthEnd(w, n)][1] \in Message \cup {NoMessage}
  <2>1. PICK j \in Ends(w) : n = Cardinality(Below(Ends(w), j)) + 1
    BY <1>2
  <2>2. NthEnd(w, n) = j
    BY <2>1, EndIsNth
  <2>3. w[j] \in Byte
    BY <1>1, ElementOfSeq
  <2> QED
    BY <2>2, <2>3 DEF Byte
<1>4. MessagesIn(w) \in [1 .. Cardinality(Ends(w)) -> Message \cup {NoMessage}]
  BY <1>3 DEF MessagesIn
<1>5. MessagesIn(w) \in Seq(Message \cup {NoMessage}) /\ Len(MessagesIn(w)) = Cardinality(Ends(w))
  BY <1>1, <1>4
<1>6. ASSUME NEW j \in Ends(w)
      PROVE  MessagesIn(w)[Cardinality(Below(Ends(w), j)) + 1] = w[j][1]
  <2>1. /\ Cardinality(Below(Ends(w), j)) + 1 \in 1 .. Cardinality(Ends(w))
        /\ NthEnd(w, Cardinality(Below(Ends(w), j)) + 1) = j
    BY EndIsNth
  <2> QED
    BY <2>1 DEF MessagesIn
<1> QED
  BY <1>2, <1>5, <1>6

(* The first bytes hold the first messages. *)
LEMMA PrefixMessages ==
  ASSUME NEW w \in Seq(Byte), NEW n \in 0 .. Len(w)
  PROVE  LET p == SubSeq(w, 1, n)
         IN  /\ p \in Seq(Byte)
             /\ Ends(p) = {j \in Ends(w) : j <= n}
             /\ Cardinality(Ends(p)) \in 0 .. Len(MessagesIn(w))
             /\ MessagesIn(p) = SubSeq(MessagesIn(w), 1, Cardinality(Ends(p)))
<1> DEFINE p == SubSeq(w, 1, n)
<1>1. /\ Len(w) \in Nat /\ Ends(w) \in SUBSET (1 .. Len(w))
      /\ IsFiniteSet(Ends(w)) /\ Cardinality(Ends(w)) \in Nat
  BY EndsArePlaces
<1>2. p \in Seq(Byte) /\ Len(p) = n /\ \A i \in 1 .. n : p[i] = w[i]
  <2>1. \A i \in 1 .. n : w[i] \in Byte
    BY <1>1, ElementOfSeq
  <2>2. /\ p \in Seq(Byte)
        /\ Len(p) = IF 1 <= n THEN n - 1 + 1 ELSE 0
        /\ \A i \in 1 .. n - 1 + 1 : p[i] = w[1 + i - 1]
    BY <2>1, <1>1, SubSeqProperties
  <2> HIDE DEF p
  <2> QED
    BY <2>2, <1>1
<1> HIDE DEF p
<1>3. Ends(p) = {j \in Ends(w) : j <= n}
  <2>1. 1 .. n = {j \in 1 .. Len(w) : j <= n}
    BY <1>1
  <2> QED
    BY <1>2, <2>1 DEF Ends
<1>4. /\ IsFiniteSet(Ends(p)) /\ Cardinality(Ends(p)) \in Nat
      /\ Cardinality(Ends(p)) <= Cardinality(Ends(w))
  <2>1. Ends(p) \in SUBSET Ends(w)
    BY <1>3
  <2>2. IsFiniteSet(Ends(p)) /\ Cardinality(Ends(p)) <= Cardinality(Ends(w))
    BY <1>1, <2>1, FS_Subset
  <2> QED
    BY <2>2, FS_CardinalityType
<1>5. /\ MessagesIn(w) \in Seq(Message \cup {NoMessage})
      /\ Len(MessagesIn(w)) = Cardinality(Ends(w))
      /\ \A j \in Ends(w) :
           MessagesIn(w)[Cardinality(Below(Ends(w), j)) + 1] = w[j][1]
  BY MessagesSeq
<1>6. /\ MessagesIn(p) \in Seq(Message \cup {NoMessage})
      /\ Len(MessagesIn(p)) = Cardinality(Ends(p))
      /\ \A j \in Ends(p) :
           MessagesIn(p)[Cardinality(Below(Ends(p), j)) + 1] = p[j][1]
      /\ \A k \in 1 .. Cardinality(Ends(p)) :
           \E j \in Ends(p) : k = Cardinality(Below(Ends(p), j)) + 1
  BY <1>2, MessagesSeq
<1> DEFINE c == Cardinality(Ends(p))
           q == SubSeq(MessagesIn(w), 1, c)
<1>7. /\ q \in Seq(Message \cup {NoMessage}) /\ Len(q) = c
      /\ \A k \in 1 .. c : q[k] = MessagesIn(w)[k]
  <2>1. \A i \in 1 .. c : MessagesIn(w)[i] \in Message \cup {NoMessage}
    BY <1>4, <1>5, ElementOfSeq
  <2>2. /\ q \in Seq(Message \cup {NoMessage})
        /\ Len(q) = IF 1 <= c THEN c - 1 + 1 ELSE 0
        /\ \A i \in 1 .. c - 1 + 1 : q[i] = MessagesIn(w)[1 + i - 1]
    BY <2>1, <1>4, SubSeqProperties
  <2>3. c \in Nat
    BY <1>4
  <2> HIDE DEF q, c
  <2> QED
    BY <2>2, <2>3
<1>8. ASSUME NEW k \in 1 .. c PROVE MessagesIn(p)[k] = q[k]
  <2>1. PICK j \in Ends(p) : k = Cardinality(Below(Ends(p), j)) + 1
    BY <1>6
  <2>2. j \in Ends(w) /\ j <= n /\ j \in 1 .. Len(w)
    BY <1>1, <1>3, <2>1
  <2>3. Below(Ends(p), j) = Below(Ends(w), j)
    <3>1. \A i \in Ends(w) : i < j => i <= n
      <4>1. \A i \in Ends(w) : i \in Int
        BY <1>1
      <4> QED
        BY <4>1, <1>1, <2>2
    <3> QED
      BY <1>3, <3>1 DEF Below
  <2>4. MessagesIn(p)[k] = p[j][1] /\ MessagesIn(w)[k] = w[j][1]
    BY <1>5, <1>6, <2>1, <2>2, <2>3
  <2>5. p[j] = w[j]
    BY <1>2, <2>2
  <2> QED
    BY <1>7, <2>4, <2>5
<1>9. MessagesIn(p) = q
  <2>1. Len(MessagesIn(p)) = Len(q) /\ \A k \in 1 .. Len(MessagesIn(p)) : MessagesIn(p)[k] = q[k]
    BY <1>6, <1>7, <1>8
  <2> HIDE DEF q
  <2> QED
    BY <1>6, <1>7, <2>1, SeqEqual
<1>10. c \in 0 .. Len(MessagesIn(w))
  BY <1>4, <1>5
<1> QED
  BY <1>2, <1>3, <1>9, <1>10 DEF p

(* A message sent is the last of those on their way. *)
LEMMA AppendedMessage ==
  ASSUME NEW w \in Seq(Byte), NEW m \in Message
  PROVE  /\ w \o Bytes(m) \in Seq(Byte)
         /\ Len(w \o Bytes(m)) = Len(w) + Size[m]
         /\ \A i \in 1 .. Len(w) : (w \o Bytes(m))[i] = w[i]
         /\ \A k \in 1 .. Size[m] : (w \o Bytes(m))[Len(w) + k] = <<m, Size[m] - k>>
         /\ MessagesIn(w \o Bytes(m)) = Append(MessagesIn(w), m)
<1> DEFINE w2 == w \o Bytes(m)
           n == Len(w)
           s == Size[m]
           c == Cardinality(Ends(w))
<1>1. s \in Nat /\ s >= 1
  BY FramingAssumption
<1>2. /\ n \in Nat /\ Ends(w) \in SUBSET (1 .. n)
      /\ IsFiniteSet(Ends(w)) /\ c \in Nat
  BY EndsArePlaces
<1>3. Bytes(m) \in Seq(Byte) /\ Len(Bytes(m)) = s
  <2>1. Bytes(m) \in Seq(Byte)
    BY BytesType
  <2> QED
    BY <2>1, <1>1 DEF Bytes
<1>4. /\ w2 \in Seq(Byte) /\ Len(w2) = n + s
      /\ \A i \in 1 .. n + s : w2[i] = IF i <= n THEN w[i] ELSE Bytes(m)[i - n]
  <2>1. /\ w \o Bytes(m) \in Seq(Byte)
        /\ Len(w \o Bytes(m)) = Len(w) + Len(Bytes(m))
        /\ \A i \in 1 .. Len(w) + Len(Bytes(m)) :
             (w \o Bytes(m))[i] = IF i <= Len(w) THEN w[i] ELSE Bytes(m)[i - Len(w)]
    BY <1>3, ConcatProperties
  <2> QED
    BY <2>1, <1>3
<1> HIDE DEF w2, s
<1>5. \A i \in 1 .. n : w2[i] = w[i]
  BY <1>1, <1>2, <1>4
<1>6. \A k \in 1 .. s : w2[n + k] = <<m, s - k>>
  <2>1. TAKE k \in 1 .. s
  <2>2. n + k \in 1 .. n + s /\ ~(n + k <= n) /\ (n + k) - n = k
    BY <1>1, <1>2
  <2>3. w2[n + k] = Bytes(m)[(n + k) - n]
    BY <1>4, <2>2
  <2> QED
    BY <2>2, <2>3 DEF Bytes, s
<1>7. Ends(w2) = Ends(w) \cup {n + s}
  <2>1. \A k \in 1 .. s : IsEnd(w2[n + k]) <=> k = s
    <3>1. \A k \in 1 .. s : IsEnd(w2[n + k]) <=> s - k = 0
      BY <1>6 DEF IsEnd
    <3> QED
      BY <3>1, <1>1
  <2>2. \A i \in 1 .. n + s : i \notin 1 .. n => \E k \in 1 .. s : i = n + k
    <3>1. TAKE i \in 1 .. n + s
    <3>2. HAVE i \notin 1 .. n
    <3>3. i - n \in 1 .. s /\ i = n + (i - n)
      BY <3>2, <1>1, <1>2
    <3> QED
      BY <3>3
  <2>3. \A i \in 1 .. n + s : i \notin 1 .. n => (IsEnd(w2[i]) <=> i = n + s)
    <3>1. TAKE i \in 1 .. n + s
    <3>2. HAVE i \notin 1 .. n
    <3>3. PICK k \in 1 .. s : i = n + k
      BY <2>2, <3>2
    <3>4. i = n + s <=> k = s
      BY <3>3, <1>1, <1>2
    <3> QED
      BY <2>1, <3>3, <3>4
  <2>4. 1 .. n \in SUBSET (1 .. n + s) /\ n + s \in 1 .. n + s /\ n + s \notin 1 .. n
    BY <1>1, <1>2
  <2>5. Ends(w) = {i \in 1 .. n : IsEnd(w2[i])}
    BY <1>5 DEF Ends
  <2>6. Ends(w2) = {i \in 1 .. n + s : IsEnd(w2[i])}
    BY <1>4 DEF Ends
  <2> QED
    BY <2>3, <2>4, <2>5, <2>6
<1>8. SubSeq(w2, 1, n) = w
  <2>1. n \in 0 .. Len(w2)
    BY <1>1, <1>2, <1>4
  <2>2. \A i \in 1 .. n : w2[i] \in Byte
    BY <1>5, <1>2, ElementOfSeq
  <2>3. /\ SubSeq(w2, 1, n) \in Seq(Byte)
        /\ Len(SubSeq(w2, 1, n)) = IF 1 <= n THEN n - 1 + 1 ELSE 0
        /\ \A i \in 1 .. n - 1 + 1 : SubSeq(w2, 1, n)[i] = w2[1 + i - 1]
    BY <2>2, <1>2, SubSeqProperties
  <2>4. Len(SubSeq(w2, 1, n)) = n /\ \A i \in 1 .. n : SubSeq(w2, 1, n)[i] = w[i]
    BY <2>3, <1>2, <1>5
  <2> QED
    BY <2>3, <2>4, SeqEqual
<1>9. /\ c \in 0 .. Len(MessagesIn(w2))
      /\ MessagesIn(w) = SubSeq(MessagesIn(w2), 1, c)
  <2>1. n \in 0 .. Len(w2)
    BY <1>1, <1>2, <1>4
  <2> HIDE DEF n
  <2>2. LET p == SubSeq(w2, 1, n)
        IN  /\ p \in Seq(Byte)
            /\ Ends(p) = {j \in Ends(w2) : j <= n}
            /\ Cardinality(Ends(p)) \in 0 .. Len(MessagesIn(w2))
            /\ MessagesIn(p) = SubSeq(MessagesIn(w2), 1, Cardinality(Ends(p)))
    BY <1>4, <2>1, PrefixMessages
  <2> QED
    BY <2>2, <1>8
<1>10. n + s \notin Ends(w) /\ Cardinality(Ends(w2)) = c + 1
  <2>1. n + s \notin Ends(w)
    BY <1>1, <1>2
  <2> QED
    BY <2>1, <1>2, <1>7, FS_AddElement
<1>11. Below(Ends(w2), n + s) = Ends(w)
  <2>1. \A i \in Ends(w) : i < n + s
    BY <1>1, <1>2
  <2>2. ~(n + s < n + s)
    BY <1>1, <1>2
  <2> QED
    BY <1>7, <2>1, <2>2 DEF Below
<1>12. /\ MessagesIn(w2) \in Seq(Message \cup {NoMessage})
       /\ Len(MessagesIn(w2)) = c + 1
       /\ MessagesIn(w2)[c + 1] = m
  <2>1. /\ MessagesIn(w2) \in Seq(Message \cup {NoMessage})
        /\ Len(MessagesIn(w2)) = Cardinality(Ends(w2))
        /\ \A j \in Ends(w2) :
             MessagesIn(w2)[Cardinality(Below(Ends(w2), j)) + 1] = w2[j][1]
    BY <1>4, MessagesSeq
  <2>2. MessagesIn(w2)[c + 1] = w2[n + s][1]
    <3>1. n + s \in Ends(w2)
      BY <1>7
    <3> QED
      BY <2>1, <3>1, <1>11
  <2>3. w2[n + s] = <<m, s - s>>
    BY <1>1, <1>6
  <2> QED
    BY <2>1, <2>2, <2>3, <1>10
<1>13. MessagesIn(w2) = Append(MessagesIn(w), m)
  <2> DEFINE ms == MessagesIn(w2)
             old == MessagesIn(w)
             S == Message \cup {NoMessage}
  <2>1. /\ old \in Seq(S) /\ Len(old) = c /\ m \in S
    BY MessagesSeq
  <2>2. \A i \in 1 .. c : old[i] = ms[i]
    <3>1. \A i \in 1 .. c : ms[i] \in S
      BY <1>2, <1>12, ElementOfSeq
    <3>2. /\ SubSeq(ms, 1, c) \in Seq(S)
          /\ Len(SubSeq(ms, 1, c)) = IF 1 <= c THEN c - 1 + 1 ELSE 0
          /\ \A i \in 1 .. c - 1 + 1 : SubSeq(ms, 1, c)[i] = ms[1 + i - 1]
      BY <3>1, <1>2, SubSeqProperties
    <3> HIDE DEF ms, c
    <3> QED
      BY <3>2, <1>2, <1>9 DEF old, ms
  <2>3. /\ Append(old, m) \in Seq(S)
        /\ Len(Append(old, m)) = Len(old) + 1
        /\ \A i \in 1 .. Len(old) : Append(old, m)[i] = old[i]
        /\ Append(old, m)[Len(old) + 1] = m
    BY <2>1, AppendProperties
  <2>4. ms \in Seq(S) /\ Len(ms) = c + 1 /\ ms[c + 1] = m
    BY <1>12
  <2> HIDE DEF ms, old, S, c
  <2>5. \A i \in 1 .. c + 1 : ms[i] = Append(old, m)[i]
    <3>1. \A i \in 1 .. c + 1 : i \in 1 .. c \/ i = c + 1
      BY <1>2
    <3> QED
      BY <2>1, <2>2, <2>3, <2>4, <3>1
  <2>6. ms = Append(old, m)
    BY <2>1, <2>3, <2>4, <2>5, SeqEqual
  <2> QED
    BY <2>6 DEF ms, old
<1> QED
  BY <1>4, <1>5, <1>6, <1>13 DEF w2, s

(* Without the bytes up to the first end, the first message is missing. *)
LEMMA FirstMessage ==
  ASSUME NEW w \in Seq(Byte), NEW len \in Ends(w), \A i \in Ends(w) : len <= i
  PROVE  LET v == SubSeq(w, len + 1, Len(w))
         IN  /\ v \in Seq(Byte) /\ Len(v) = Len(w) - len
             /\ \A i \in 1 .. Len(w) - len : v[i] = w[i + len]
             /\ MessagesIn(w) # <<>>
             /\ Head(MessagesIn(w)) = w[len][1]
             /\ MessagesIn(v) = Tail(MessagesIn(w))
<1> DEFINE v == SubSeq(w, len + 1, Len(w))
           S == Message \cup {NoMessage}
<1>1. /\ Len(w) \in Nat /\ Ends(w) \in SUBSET (1 .. Len(w))
      /\ IsFiniteSet(Ends(w)) /\ Cardinality(Ends(w)) \in Nat
  BY EndsArePlaces
<1>2. len \in 1 .. Len(w)
  BY <1>1
<1>3. /\ v \in Seq(Byte) /\ Len(v) = Len(w) - len
      /\ \A i \in 1 .. Len(w) - len : v[i] = w[i + len]
  <2>1. \A i \in len + 1 .. Len(w) : w[i] \in Byte
    BY <1>1, <1>2, ElementOfSeq
  <2>2. /\ v \in Seq(Byte)
        /\ Len(v) = IF len + 1 <= Len(w) THEN Len(w) - (len + 1) + 1 ELSE 0
        /\ \A i \in 1 .. Len(w) - (len + 1) + 1 : v[i] = w[len + 1 + i - 1]
    BY <2>1, <1>1, <1>2, SubSeqProperties
  <2> HIDE DEF v
  <2>3. Len(v) = Len(w) - len
    BY <2>2, <1>1, <1>2
  <2>4. \A i \in 1 .. Len(w) - len : i \in 1 .. Len(w) - (len + 1) + 1 /\ len + 1 + i - 1 = i + len
    BY <1>1, <1>2
  <2> QED
    BY <2>2, <2>3, <2>4
<1> HIDE DEF v
<1>4. /\ Len(v) \in Nat /\ Ends(v) \in SUBSET (1 .. Len(v))
      /\ IsFiniteSet(Ends(v)) /\ Cardinality(Ends(v)) \in Nat
  BY <1>3, EndsArePlaces
<1>5. Ends(w) = {len} \cup {i + len : i \in Ends(v)}
  <2>1. ASSUME NEW j \in Ends(w) PROVE j = len \/ \E i \in Ends(v) : j = i + len
    <3>1. j \in 1 .. Len(w) /\ IsEnd(w[j]) /\ len <= j
      BY <1>1 DEF Ends
    <3>2. CASE j # len
      <4>1. j - len \in 1 .. Len(w) - len /\ j = (j - len) + len
        BY <1>2, <3>1, <3>2
      <4>2. v[j - len] = w[j]
        BY <1>3, <4>1
      <4>3. j - len \in Ends(v)
        BY <1>3, <3>1, <4>1, <4>2 DEF Ends
      <4> QED
        BY <4>1, <4>3
    <3> QED
      BY <3>2
  <2>2. ASSUME NEW i \in Ends(v) PROVE i + len \in Ends(w)
    <3>1. i \in 1 .. Len(w) - len /\ IsEnd(v[i])
      BY <1>3, <1>4 DEF Ends
    <3>2. i + len \in 1 .. Len(w)
      BY <1>1, <1>2, <3>1
    <3> QED
      BY <1>3, <3>1, <3>2 DEF Ends
  <2> QED
    BY <2>1, <2>2
<1>6. ASSUME NEW j \in Ends(v)
      PROVE  /\ j + len \in Ends(w)
             /\ Cardinality(Below(Ends(v), j)) \in Nat
             /\ Cardinality(Below(Ends(w), j + len)) = Cardinality(Below(Ends(v), j)) + 1
  <2> DEFINE B == Below(Ends(v), j)
             moved == {i + len : i \in B}
  <2>1. Below(Ends(w), j + len) = moved \cup {len}
    <3>1. j \in Int /\ 1 <= j /\ len \in Int /\ \A i \in Ends(v) : i \in Int
      BY <1>2, <1>4
    <3>2. \A i \in Ends(v) : i + len < j + len <=> i < j
      BY <3>1
    <3>3. len < j + len
      BY <3>1
    <3> QED
      BY <1>5, <3>2, <3>3 DEF Below
  <2>2. B \in SUBSET (1 .. Len(v)) /\ IsFiniteSet(B) /\ Cardinality(B) \in Nat
    <3>1. B \in SUBSET (1 .. Len(v))
      BY <1>4 DEF Below
    <3> QED
      BY <3>1, <1>4, BelowFinite
  <2>3. len \notin moved
    <3>1. \A i \in B : i \in 1 .. Len(v)
      BY <2>2
    <3>2. \A i \in 1 .. Len(v) : i + len # len
      BY <1>2
    <3> QED
      BY <3>1, <3>2
  <2>4. len \in Nat /\ Len(v) \in Nat
    BY <1>2, <1>4
  <2> HIDE DEF B
  <2>5. IsFiniteSet(moved) /\ Cardinality(moved) = Cardinality(B)
    BY ONLY <2>2, <2>4, ShiftedPlaces
  <2> HIDE DEF moved
  <2>6. Cardinality(moved \cup {len}) = Cardinality(moved) + 1
    BY <2>3, <2>5, FS_AddElement
  <2>7. j + len \in Ends(w)
    BY <1>5
  <2> QED
    BY <2>1, <2>2, <2>5, <2>6, <2>7 DEF B
<1>7. Cardinality(Ends(w)) = Cardinality(Ends(v)) + 1
  <2> DEFINE moved == {i + len : i \in Ends(v)}
  <2>1. len \notin moved
    <3>1. \A i \in 1 .. Len(v) : i + len # len
      BY <1>2
    <3> QED
      BY <3>1, <1>4
  <2>2. len \in Nat
    BY <1>2
  <2>3. IsFiniteSet(moved) /\ Cardinality(moved) = Cardinality(Ends(v))
    BY ONLY <1>4, <2>2, ShiftedPlaces
  <2>4. Ends(w) = moved \cup {len}
    BY <1>5
  <2> HIDE DEF moved
  <2> QED
    BY <2>1, <2>3, <2>4, FS_AddElement
<1>8. /\ MessagesIn(w) \in Seq(S)
      /\ Len(MessagesIn(w)) = Cardinality(Ends(v)) + 1
      /\ \A j \in Ends(w) : MessagesIn(w)[Cardinality(Below(Ends(w), j)) + 1] = w[j][1]
  BY <1>7, MessagesSeq
<1>9. /\ MessagesIn(v) \in Seq(S)
      /\ Len(MessagesIn(v)) = Cardinality(Ends(v))
      /\ \A j \in Ends(v) : MessagesIn(v)[Cardinality(Below(Ends(v), j)) + 1] = v[j][1]
      /\ \A n \in 1 .. Cardinality(Ends(v)) :
           \E j \in Ends(v) : n = Cardinality(Below(Ends(v), j)) + 1
  BY <1>3, MessagesSeq
<1>10. MessagesIn(w) # <<>>
  <2>1. Len(MessagesIn(w)) # 0
    BY <1>4, <1>8
  <2> QED
    BY <2>1
<1>11. Head(MessagesIn(w)) = w[len][1]
  <2>1. Below(Ends(w), len) = {}
    <3>1. \A i \in Ends(w) : ~(i < len)
      <4>1. \A i \in Ends(w) : i \in Int /\ len <= i
        BY <1>1
      <4> QED
        BY <4>1, <1>2
    <3> QED
      BY <3>1 DEF Below
  <2>2. Cardinality(Below(Ends(w), len)) + 1 = 1
    BY <2>1, FS_EmptySet
  <2>3. MessagesIn(w)[1] = w[len][1]
    BY <1>8, <2>2
  <2> QED
    BY <2>3, <1>8, <1>10
<1>12. ASSUME NEW n \in 1 .. Cardinality(Ends(v))
       PROVE  MessagesIn(w)[n + 1] = MessagesIn(v)[n]
  <2>1. PICK j \in Ends(v) : n = Cardinality(Below(Ends(v), j)) + 1
    BY <1>9
  <2>2. /\ j + len \in Ends(w)
        /\ Cardinality(Below(Ends(w), j + len)) = n
    BY <1>6, <2>1
  <2>3. MessagesIn(w)[n + 1] = w[j + len][1]
    BY <1>8, <2>2
  <2>4. MessagesIn(v)[n] = v[j][1]
    BY <1>9, <2>1
  <2>5. v[j] = w[j + len]
    BY <1>3, <1>4
  <2> QED
    BY <2>3, <2>4, <2>5
<1>13. MessagesIn(v) = Tail(MessagesIn(w))
  <2> DEFINE ms == MessagesIn(w)
  <2>1. ms \in Seq(S) /\ ms # <<>>
    BY <1>8, <1>10
  <2>2. /\ Tail(ms) \in Seq(S) /\ Len(Tail(ms)) = Len(ms) - 1
        /\ \A i \in 1 .. Len(Tail(ms)) : Tail(ms)[i] = ms[i + 1]
    <3> HIDE DEF ms, S
    <3> QED
      BY <2>1, HeadTailProperties
  <2>3. Len(ms) - 1 = Cardinality(Ends(v))
    BY <1>4, <1>8
  <2>4. \A i \in 1 .. Cardinality(Ends(v)) : Tail(ms)[i] = MessagesIn(v)[i]
    BY <1>12, <2>2, <2>3
  <2> HIDE DEF ms, S
  <2>5. MessagesIn(v) = Tail(ms)
    BY <2>2, <2>3, <2>4, <1>9, SeqEqual
  <2> QED
    BY <2>5 DEF ms
<1> QED
  BY <1>3, <1>10, <1>11, <1>13 DEF v

(* Bytes as senders write them: each message from its first byte on. *)
Begins(byte) == byte[1] \in Message /\ byte[2] = Size[byte[1]] - 1

WellCut(bytes) ==
  /\ bytes # <<>> => Begins(bytes[1])
  /\ \A i \in 1 .. Len(bytes) - 1 :
       IF IsEnd(bytes[i]) THEN Begins(bytes[i + 1])
       ELSE bytes[i + 1] = <<bytes[i][1], bytes[i][2] - 1>>

LEMMA FirstIsWhole ==
  ASSUME NEW w \in Seq(Byte), WellCut(w),
         NEW len \in Ends(w), \A i \in Ends(w) : len <= i
  PROVE  /\ w[len][1] \in Message
         /\ SubSeq(w, 1, len) = Bytes(w[len][1])
<1> DEFINE m == w[1][1]
           wrong == {i \in 1 .. len : w[i] # <<m, Size[m] - i>>}
<1>1. Len(w) \in Nat /\ len \in 1 .. Len(w) /\ IsEnd(w[len])
  BY EndsArePlaces DEF Ends
<1>2. \A i \in 1 .. len - 1 : ~IsEnd(w[i])
  <2>1. TAKE i \in 1 .. len - 1
  <2>2. i \in 1 .. Len(w) /\ ~(len <= i)
    BY <1>1
  <2> QED
    BY <2>2 DEF Ends
<1>3. m \in Message /\ w[1] = <<m, Size[m] - 1>>
  <2>1. w # <<>> /\ 1 \in 1 .. Len(w)
    BY <1>1
  <2>2. Begins(w[1])
    BY <2>1 DEF WellCut
  <2>3. w[1] \in Byte
    BY <2>1, ElementOfSeq
  <2>4. w[1] = <<w[1][1], w[1][2]>>
    BY <2>3 DEF Byte
  <2> QED
    BY <2>2, <2>4 DEF Begins
<1>4. Size[m] \in Nat /\ Size[m] >= 1
  BY <1>3, FramingAssumption
<1> HIDE DEF m
<1>5. wrong = {}
  <2> SUFFICES ASSUME wrong # {} PROVE FALSE
    OBVIOUS
  <2>1. wrong \in SUBSET Nat
    BY <1>1
  <2>2. PICK i \in wrong : \A j \in wrong : i <= j
    BY <2>1, LeastElement
  <2>3. i \in 1 .. len /\ i # 1
    BY <1>3, <2>2
  <2>4. i - 1 \in 1 .. len - 1 /\ i - 1 \in 1 .. len /\ ~(i <= i - 1) /\ (i - 1) + 1 = i
        /\ i - 1 \in 1 .. Len(w) - 1
    BY <1>1, <2>3
  <2>5. w[i - 1] = <<m, Size[m] - (i - 1)>>
    BY <2>2, <2>4
  <2>6. ~IsEnd(w[i - 1])
    BY <1>2, <2>4
  <2>7. w[(i - 1) + 1] = <<w[i - 1][1], w[i - 1][2] - 1>>
    BY <2>4, <2>6 DEF WellCut
  <2>8. w[i] = <<m, (Size[m] - (i - 1)) - 1>>
    BY <2>4, <2>5, <2>7
  <2>9. (Size[m] - (i - 1)) - 1 = Size[m] - i
    BY <1>4, <2>3
  <2> QED
    BY <2>2, <2>8, <2>9
<1>6. \A i \in 1 .. len : w[i] = <<m, Size[m] - i>>
  BY <1>5
<1>7. w[len][1] = m /\ len = Size[m]
  <2>1. len \in 1 .. len
    BY <1>1
  <2>2. w[len] = <<m, Size[m] - len>>
    BY <1>6, <2>1
  <2>3. Size[m] - len = 0
    BY <1>1, <2>2 DEF IsEnd
  <2> QED
    BY <2>2, <2>3, <1>1, <1>4
<1>8. SubSeq(w, 1, len) = Bytes(m)
  <2>1. \A i \in 1 .. len : w[i] \in Byte
    BY <1>1, ElementOfSeq
  <2>2. /\ SubSeq(w, 1, len) \in Seq(Byte)
        /\ Len(SubSeq(w, 1, len)) = IF 1 <= len THEN len - 1 + 1 ELSE 0
        /\ \A i \in 1 .. len - 1 + 1 : SubSeq(w, 1, len)[i] = w[1 + i - 1]
    BY <2>1, <1>1, SubSeqProperties
  <2>3. Len(SubSeq(w, 1, len)) = len /\ \A i \in 1 .. len : SubSeq(w, 1, len)[i] = w[i]
    BY <1>1, <2>2
  <2>4. Bytes(m) \in Seq(Byte) /\ Len(Bytes(m)) = len
    BY <1>3, <1>4, <1>7, BytesType DEF Bytes
  <2>5. \A i \in 1 .. len : Bytes(m)[i] = w[i]
    BY <1>6, <1>7 DEF Bytes
  <2>6. \A i \in 1 .. Len(SubSeq(w, 1, len)) : SubSeq(w, 1, len)[i] = Bytes(m)[i]
    BY <2>3, <2>5
  <2>7. Len(SubSeq(w, 1, len)) = Len(Bytes(m))
    BY <2>3, <2>4
  <2> QED
    BY ONLY <2>2, <2>4, <2>6, <2>7, SeqEqual
<1> QED
  BY <1>3, <1>7, <1>8

(* What is left after the first message begins with the next. *)
LEMMA WellCutRest ==
  ASSUME NEW w \in Seq(Byte), WellCut(w), NEW len \in Ends(w),
         NEW v \in Seq(Byte), Len(v) = Len(w) - len,
         \A i \in 1 .. Len(w) - len : v[i] = w[i + len]
  PROVE  WellCut(v)
<1>1. Len(w) \in Nat /\ len \in 1 .. Len(w) /\ IsEnd(w[len])
  BY EndsArePlaces DEF Ends
<1>2. ASSUME v # <<>> PROVE Begins(v[1])
  <2>1. Len(v) # 0 /\ Len(v) \in Nat
    BY <1>2, LenProperties, EmptySeq
  <2>2. 1 \in 1 .. Len(w) - len /\ len \in 1 .. Len(w) - 1 /\ 1 + len = len + 1
    BY <1>1, <2>1
  <2>3. Begins(w[len + 1])
    BY <1>1, <2>2 DEF WellCut
  <2> QED
    BY <2>2, <2>3
<1>3. ASSUME NEW i \in 1 .. Len(v) - 1
      PROVE  IF IsEnd(v[i]) THEN Begins(v[i + 1])
             ELSE v[i + 1] = <<v[i][1], v[i][2] - 1>>
  <2>1. /\ i \in 1 .. Len(w) - len /\ i + 1 \in 1 .. Len(w) - len
        /\ i + len \in 1 .. Len(w) - 1 /\ (i + 1) + len = (i + len) + 1
    BY <1>1
  <2>2. v[i] = w[i + len] /\ v[i + 1] = w[(i + len) + 1]
    BY <2>1
  <2>3. IF IsEnd(w[i + len]) THEN Begins(w[(i + len) + 1])
        ELSE w[(i + len) + 1] = <<w[i + len][1], w[i + len][2] - 1>>
    BY <2>1 DEF WellCut
  <2> QED
    BY <2>2, <2>3
<1> QED
  BY <1>2, <1>3 DEF WellCut

(* A new message may follow a whole one. *)
LEMMA WellCutAppend ==
  ASSUME NEW w \in Seq(Byte), WellCut(w), w # <<>> => IsEnd(w[Len(w)]),
         NEW m \in Message
  PROVE  /\ WellCut(w \o Bytes(m))
         /\ IsEnd((w \o Bytes(m))[Len(w \o Bytes(m))])
<1> DEFINE w2 == w \o Bytes(m)
           n == Len(w)
           s == Size[m]
<1>1. s \in Nat /\ s >= 1 /\ n \in Nat
  BY FramingAssumption, LenProperties
<1>2. /\ w2 \in Seq(Byte) /\ Len(w2) = n + s
      /\ \A i \in 1 .. n : w2[i] = w[i]
      /\ \A k \in 1 .. s : w2[n + k] = <<m, s - k>>
  BY AppendedMessage
<1> HIDE DEF w2, s, n
<1>3. Begins(w2[n + 1])
  <2>1. w2[n + 1] = <<m, s - 1>>
    BY <1>1, <1>2
  <2> QED
    BY <2>1 DEF Begins, s
<1>4. Begins(w2[1])
  <2>1. CASE n = 0
    BY <1>3, <2>1
  <2>2. CASE n # 0
    <3>1. 1 \in 1 .. n /\ w # <<>>
      BY <1>1, <2>2 DEF n
    <3> QED
      BY <1>2, <3>1 DEF WellCut
  <2> QED
    BY <2>1, <2>2
<1>5. ASSUME NEW i \in 1 .. Len(w2) - 1
      PROVE  IF IsEnd(w2[i]) THEN Begins(w2[i + 1])
             ELSE w2[i + 1] = <<w2[i][1], w2[i][2] - 1>>
  <2>1. CASE i < n
    <3>1. i \in 1 .. n - 1 /\ i \in 1 .. n /\ i + 1 \in 1 .. n
      BY <1>1, <1>2, <2>1
    <3>2. w2[i] = w[i] /\ w2[i + 1] = w[i + 1]
      BY <1>2, <3>1
    <3> QED
      BY <3>1, <3>2 DEF WellCut, n
  <2>2. CASE i = n
    <3>1. n \in 1 .. n /\ w # <<>>
      BY <1>1, <1>2, <2>2 DEF n
    <3>2. IsEnd(w2[i])
      BY <1>2, <2>2, <3>1 DEF n
    <3> QED
      BY <1>3, <2>2, <3>2
  <2>3. CASE i > n
    <3> DEFINE k == i - n
    <3>1. k \in 1 .. s /\ k + 1 \in 1 .. s /\ n + k = i /\ n + (k + 1) = i + 1
      BY <1>1, <1>2, <2>3
    <3> HIDE DEF k
    <3>2. w2[n + k] = <<m, s - k>> /\ w2[n + (k + 1)] = <<m, s - (k + 1)>>
      BY <1>2, <3>1
    <3>3. s - (k + 1) = (s - k) - 1 /\ s - k # 0
      BY <1>1, <3>1
    <3>4. w2[i] = <<m, s - k>> /\ w2[i + 1] = <<m, (s - k) - 1>>
      BY <3>1, <3>2, <3>3
    <3> QED
      BY <3>3, <3>4 DEF IsEnd
  <2>4. i \in Int /\ n \in Int
    BY <1>1
  <2> QED
    BY <2>1, <2>2, <2>3, <2>4
<1>6. IsEnd(w2[Len(w2)])
  <2>1. s \in 1 .. s /\ Len(w2) = n + s
    BY <1>1, <1>2
  <2>2. w2[n + s] = <<m, s - s>>
    BY <1>2, <2>1
  <2>3. s - s = 0
    BY <1>1
  <2> QED
    BY <2>1, <2>2, <2>3 DEF IsEnd
<1>7. WellCut(w2)
  BY <1>4, <1>5 DEF WellCut
<1> QED
  BY <1>6, <1>7 DEF w2

(* A stream that ends early holds the first of its messages. *)
LEMMA CutShort ==
  ASSUME NEW a \in Seq(Byte), NEW b \in Seq(Byte), WellCut(a \o b)
  PROVE  /\ WellCut(a)
         /\ \E n \in 0 .. Len(MessagesIn(a \o b)) :
              MessagesIn(a) = SubSeq(MessagesIn(a \o b), 1, n)
<1> DEFINE w == a \o b
<1>1. /\ w \in Seq(Byte) /\ Len(w) = Len(a) + Len(b)
      /\ \A i \in 1 .. Len(a) + Len(b) : w[i] = IF i <= Len(a) THEN a[i] ELSE b[i - Len(a)]
  BY ConcatProperties
<1>2. Len(a) \in Nat /\ Len(b) \in Nat
  BY LenProperties
<1> HIDE DEF w
<1>3. \A i \in 1 .. Len(a) : w[i] = a[i]
  BY <1>1, <1>2
<1>4. WellCut(a)
  <2>1. a # <<>> => Begins(a[1])
    <3> SUFFICES ASSUME a # <<>> PROVE Begins(a[1])
      OBVIOUS
    <3>1. Len(a) # 0
      BY EmptySeq
    <3>2. 1 \in 1 .. Len(a) /\ Len(w) # 0
      BY <1>1, <1>2, <3>1
    <3>3. w # <<>>
      BY <3>2
    <3>4. Begins(w[1])
      BY <3>3 DEF WellCut, w
    <3> QED
      BY <1>3, <3>2, <3>4
  <2>2. ASSUME NEW i \in 1 .. Len(a) - 1
        PROVE  IF IsEnd(a[i]) THEN Begins(a[i + 1])
               ELSE a[i + 1] = <<a[i][1], a[i][2] - 1>>
    <3>1. i \in 1 .. Len(a) /\ i + 1 \in 1 .. Len(a) /\ i \in 1 .. Len(w) - 1
      BY <1>1, <1>2
    <3>2. IF IsEnd(w[i]) THEN Begins(w[i + 1])
          ELSE w[i + 1] = <<w[i][1], w[i][2] - 1>>
      BY <3>1 DEF WellCut, w
    <3>3. w[i] = a[i] /\ w[i + 1] = a[i + 1]
      BY <1>3, <3>1
    <3> QED
      BY <3>2, <3>3
  <2> QED
    BY <2>1, <2>2 DEF WellCut
<1>5. SubSeq(w, 1, Len(a)) = a
  <2>1. \A i \in 1 .. Len(a) : w[i] \in Byte
    BY <1>3, <1>2, ElementOfSeq
  <2>2. /\ SubSeq(w, 1, Len(a)) \in Seq(Byte)
        /\ Len(SubSeq(w, 1, Len(a))) = IF 1 <= Len(a) THEN Len(a) - 1 + 1 ELSE 0
        /\ \A i \in 1 .. Len(a) - 1 + 1 : SubSeq(w, 1, Len(a))[i] = w[1 + i - 1]
    BY <2>1, <1>2, SubSeqProperties
  <2>3. /\ Len(SubSeq(w, 1, Len(a))) = Len(a)
        /\ \A i \in 1 .. Len(a) : SubSeq(w, 1, Len(a))[i] = a[i]
    BY <2>2, <1>2, <1>3
  <2> QED
    BY <2>2, <2>3, SeqEqual
<1>6. Len(a) \in 0 .. Len(w)
  BY <1>1, <1>2
<1>7. LET p == SubSeq(w, 1, Len(a))
      IN  /\ p \in Seq(Byte)
          /\ Ends(p) = {j \in Ends(w) : j <= Len(a)}
          /\ Cardinality(Ends(p)) \in 0 .. Len(MessagesIn(w))
          /\ MessagesIn(p) = SubSeq(MessagesIn(w), 1, Cardinality(Ends(p)))
  BY ONLY <1>1, <1>6, PrefixMessages
<1>8. \E n \in 0 .. Len(MessagesIn(w)) : MessagesIn(a) = SubSeq(MessagesIn(w), 1, n)
  BY <1>5, <1>7
<1> QED
  BY <1>4, <1>8 DEF w

----------------------------------------------------------------------------
(* The refinement of MessageStream *)

(* What is on its way was written message by message, and as long as the   *)
(* connection is open ends with a whole one.                               *)
WholeMessages ==
  /\ WellCut(OnTheWay)
  /\ link = "open" /\ OnTheWay # <<>> => IsEnd(OnTheWay[Len(OnTheWay)])

(* Who is told that the peer is gone has read all of it. *)
LastSaid ==
  /\ link # "open" => sending = <<>>
  /\ link = "failed" => stream = <<>> /\ ~HaveMessage
  /\ status = "disconnected" => link \in {"ended", "failed"} /\ stream = <<>> /\ ~HaveMessage

StreamInv == IInv /\ WholeMessages /\ LastSaid

Streams == WholeMessages' /\ LastSaid' /\ [Stream!StreamNext]_(Stream!streamVars)

(* The bytes counted in a buffer. *)
LEMMA Buffered ==
  ASSUME NEW buf \in [BufferIndex -> Byte], NEW n \in -1 .. MAX_RECV_BUFFER_SIZE
  PROVE  /\ SubSeq(buf, 1, n) \in Seq(Byte)
         /\ Len(SubSeq(buf, 1, n)) = IF n = -1 THEN 0 ELSE n
         /\ \A i \in 1 .. n : SubSeq(buf, 1, n)[i] = buf[i]
         /\ Ends(SubSeq(buf, 1, n)) = EndsIn(buf, n)
<1> USE FramingAssumption DEF BufferIndex
<1>1. \A i \in 1 .. n : i \in BufferIndex /\ buf[i] \in Byte
  OBVIOUS
<1>2. /\ SubSeq(buf, 1, n) \in Seq(Byte)
      /\ Len(SubSeq(buf, 1, n)) = IF 1 <= n THEN n - 1 + 1 ELSE 0
      /\ \A i \in 1 .. n - 1 + 1 : SubSeq(buf, 1, n)[i] = buf[1 + i - 1]
  BY <1>1, SubSeqProperties
<1>3. Len(SubSeq(buf, 1, n)) = IF n = -1 THEN 0 ELSE n
  BY <1>2
<1>4. \A i \in 1 .. n : SubSeq(buf, 1, n)[i] = buf[i]
  BY <1>2
<1>5. 1 .. Len(SubSeq(buf, 1, n)) = 1 .. n
  BY <1>3
<1>6. EndsIn(buf, n) = {i \in 1 .. n : IsEnd(buf[i])}
  <2>1. DOMAIN buf = BufferIndex
    OBVIOUS
  <2>2. 1 .. n = {i \in BufferIndex : i <= n}
    OBVIOUS
  <2> QED
    BY <2>1, <2>2 DEF EndsIn
<1>7. Ends(SubSeq(buf, 1, n)) = EndsIn(buf, n)
  BY <1>4, <1>5, <1>6 DEF Ends
<1> QED
  BY <1>2, <1>3, <1>4, <1>7

(* No messages are left in bytes without an end. *)
LEMMA NoneLeft ==
  ASSUME NEW w \in Seq(Byte), Ends(w) = {}
  PROVE  MessagesIn(w) = <<>>
<1>1. MessagesIn(w) \in Seq(Message \cup {NoMessage}) /\ Len(MessagesIn(w)) = 0
  BY MessagesSeq, FS_EmptySet
<1> QED
  BY <1>1, EmptySeq

(* Handing out the first message of the buffer is delivering the first of  *)
(* those on their way.                                                     *)
LEMMA HandOutDelivers ==
  ASSUME NEW buf \in [BufferIndex -> Byte], NEW n \in -1 .. MAX_RECV_BUFFER_SIZE,
         is_message_complete(buf, n), HandOut(buf, n),
         NEW rest \in Seq(Byte), WellCut(SubSeq(buf, 1, n) \o rest)
  PROVE  LET w == SubSeq(buf, 1, n) \o rest
             v == SubSeq(received', 1, bytes_received') \o rest
         IN  /\ MessagesIn(w) # <<>>
             /\ Delivered' = Head(MessagesIn(w))
             /\ MessagesIn(v) = Tail(MessagesIn(w))
             /\ WellCut(v)
             /\ v # <<>> => w # <<>> /\ v[Len(v)] = w[Len(w)]
<1> DEFINE front == SubSeq(buf, 1, n)
           w == front \o rest
           len == get_msg_len(buf)
           back == SubSeq(received', 1, bytes_received')
           v == SubSeq(w, len + 1, Len(w))
<1>1. len \in 1 .. n /\ len \in EndsIn(buf, n) /\ \A i \in EndsIn(buf, n) : len <= i
  <2>1. len \in 1 .. n
    BY MessageEnds
  <2>2. EndsIn(buf, n) \in SUBSET Nat /\ EndsIn(buf, n) # {}
    BY FramingAssumption DEF is_message_complete, EndsIn, BufferIndex
  <2>3. PICK first \in EndsIn(buf, n) : \A i \in EndsIn(buf, n) : first <= i
    BY <2>2, LeastElement
  <2>4. first \in DOMAIN buf /\ IsEnd(buf[first]) /\ \A j \in 1 .. first - 1 : ~IsEnd(buf[j])
    BY <2>3, FramingAssumption DEF EndsIn, BufferIndex
  <2>5. len \in DOMAIN buf /\ IsEnd(buf[len]) /\ \A j \in 1 .. len - 1 : ~IsEnd(buf[j])
    BY <2>4 DEF get_msg_len
  <2> HIDE DEF len
  <2>6. len \in EndsIn(buf, n)
    BY <2>1, <2>5 DEF EndsIn
  <2>7. \A i \in EndsIn(buf, n) : len <= i
    <3>1. TAKE i \in EndsIn(buf, n)
    <3>2. i \in BufferIndex /\ IsEnd(buf[i])
      BY DEF EndsIn
    <3>3. i \notin 1 .. len - 1
      BY <2>5, <3>2
    <3> QED
      BY <2>1, <3>2, <3>3, FramingAssumption DEF BufferIndex
  <2> QED
    BY <2>1, <2>6, <2>7
<1>2. /\ front \in Seq(Byte) /\ Len(front) = n
      /\ \A i \in 1 .. n : front[i] = buf[i]
      /\ Ends(front) = EndsIn(buf, n)
  <2>1. n # -1
    BY <1>1
  <2> QED
    BY <2>1, Buffered
<1>3. received' = MovedUp(buf, n, len) /\ bytes_received' = n - len /\ msg' = SubSeq(buf, 1, len)
  BY DEF HandOut, CountLeft
<1> HIDE DEF len, front
<1>4. /\ w \in Seq(Byte) /\ Len(w) = n + Len(rest) /\ Len(rest) \in Nat
      /\ \A i \in 1 .. n + Len(rest) : w[i] = IF i <= n THEN front[i] ELSE rest[i - n]
  <2>1. /\ front \o rest \in Seq(Byte)
        /\ Len(front \o rest) = Len(front) + Len(rest)
        /\ \A i \in 1 .. Len(front) + Len(rest) :
             (front \o rest)[i] = IF i <= Len(front) THEN front[i] ELSE rest[i - Len(front)]
    BY <1>2, ConcatProperties
  <2> QED
    BY <1>2, <2>1, LenProperties
<1> HIDE DEF w
<1>5. \A i \in 1 .. n : i \in 1 .. Len(w) /\ w[i] = buf[i]
  BY <1>1, <1>2, <1>4
<1>6. len \in Ends(w) /\ \A i \in Ends(w) : len <= i
  <2>1. len \in Ends(w)
    BY <1>1, <1>5 DEF Ends, EndsIn
  <2>2. \A i \in Ends(w) : len <= i
    <3>1. TAKE i \in Ends(w)
    <3>2. i \in 1 .. Len(w) /\ IsEnd(w[i])
      BY DEF Ends
    <3>3. CASE i \in 1 .. n
      <4>1. i \in Ends(front)
        BY <1>2, <1>5, <3>2, <3>3 DEF Ends
      <4> QED
        BY <1>1, <1>2, <4>1
    <3>4. CASE i \notin 1 .. n
      BY <1>1, <3>2, <3>4
    <3> QED
      BY <3>3, <3>4
  <2> QED
    BY <2>1, <2>2
<1>7. /\ v \in Seq(Byte) /\ Len(v) = Len(w) - len
      /\ \A i \in 1 .. Len(w) - len : v[i] = w[i + len]
      /\ MessagesIn(w) # <<>>
      /\ Head(MessagesIn(w)) = w[len][1]
      /\ MessagesIn(v) = Tail(MessagesIn(w))
  BY <1>4, <1>6, FirstMessage
<1> HIDE DEF v
<1>8. WellCut(v)
  BY <1>4, <1>6, <1>7, WellCutRest DEF w, front
<1>9. w[len][1] \in Message /\ SubSeq(w, 1, len) = Bytes(w[len][1])
  BY <1>4, <1>6, FirstIsWhole DEF w, front
<1>10. Delivered' = Head(MessagesIn(w))
  <2>1. SubSeq(w, 1, len) = SubSeq(buf, 1, len)
    <3>1. \A i \in 1 .. len : i \in 1 .. n /\ w[i] = buf[i] /\ w[i] \in Byte
      <4>1. \A i \in 1 .. len : i \in 1 .. n
        BY <1>1
      <4>2. \A i \in 1 .. n : w[i] \in Byte
        BY <1>4, <1>5, ElementOfSeq
      <4> QED
        BY <1>5, <4>1, <4>2
    <3>2. /\ SubSeq(w, 1, len) \in Seq(Byte)
          /\ Len(SubSeq(w, 1, len)) = IF 1 <= len THEN len - 1 + 1 ELSE 0
          /\ \A i \in 1 .. len - 1 + 1 : SubSeq(w, 1, len)[i] = w[1 + i - 1]
      BY <3>1, <1>1, SubSeqProperties
    <3>3. /\ SubSeq(buf, 1, len) \in Seq(Byte)
          /\ Len(SubSeq(buf, 1, len)) = IF 1 <= len THEN len - 1 + 1 ELSE 0
          /\ \A i \in 1 .. len - 1 + 1 : SubSeq(buf, 1, len)[i] = buf[1 + i - 1]
      BY <3>1, <1>1, SubSeqProperties
    <3>4. Len(SubSeq(w, 1, len)) = len /\ Len(SubSeq(buf, 1, len)) = len
      BY <3>2, <3>3, <1>1
    <3>5. \A i \in 1 .. len : SubSeq(w, 1, len)[i] = SubSeq(buf, 1, len)[i]
      BY <3>1, <3>2, <3>3, <1>1
    <3> QED
      BY <3>2, <3>3, <3>4, <3>5, SeqEqual
  <2> DEFINE m == w[len][1]
  <2>2. msg' = Bytes(m) /\ m \in Message
    BY <1>3, <1>9, <2>1
  <2>3. Size[m] \in Nat /\ Size[m] >= 1
    BY <2>2, FramingAssumption
  <2>4. Bytes(m)[1] = <<m, Size[m] - 1>> /\ Bytes(m) # <<>>
    BY <2>3 DEF Bytes
  <2>5. Delivered' = m
    <3> HIDE DEF m
    <3>1. msg' # <<>> /\ msg'[1][1] = m /\ m \in Message /\ msg' = Bytes(m)
      BY <2>2, <2>4
    <3> QED
      BY <3>1 DEF Delivered
  <2> QED
    BY <1>7, <2>5
<1>11. back \o rest = v
  <2>1. n - len \in 0 .. MAX_RECV_BUFFER_SIZE /\ n <= MAX_RECV_BUFFER_SIZE
    BY <1>1, FramingAssumption
  <2>2. received' \in [BufferIndex -> Byte]
    BY HandOutFacts
  <2>3. /\ back \in Seq(Byte) /\ Len(back) = n - len
        /\ \A i \in 1 .. n - len : back[i] = received'[i]
    <3>1. n - len \in -1 .. MAX_RECV_BUFFER_SIZE /\ n - len # -1
      BY <2>1, FramingAssumption
    <3> QED
      BY <1>3, <2>2, <3>1, Buffered
  <2>4. \A i \in 1 .. n - len : received'[i] = buf[i + len]
    <3>1. TAKE i \in 1 .. n - len
    <3>2. len # MAX_RECV_BUFFER_SIZE /\ i \in BufferIndex /\ i <= n - len
      BY <1>1, <2>1, FramingAssumption DEF BufferIndex
    <3> QED
      BY <1>3, <3>2 DEF MovedUp
  <2> HIDE DEF back
  <2>5. /\ back \o rest \in Seq(Byte)
        /\ Len(back \o rest) = Len(back) + Len(rest)
        /\ \A i \in 1 .. Len(back) + Len(rest) :
             (back \o rest)[i] = IF i <= Len(back) THEN back[i] ELSE rest[i - Len(back)]
    BY <2>3, ConcatProperties
  <2>6. Len(back \o rest) = Len(v) /\ Len(v) = (n - len) + Len(rest) /\ Len(w) - len = Len(v)
    BY <1>1, <1>4, <1>7, <2>3, <2>5
  <2>7. \A i \in 1 .. Len(v) : (back \o rest)[i] = v[i]
    <3>1. TAKE i \in 1 .. Len(v)
    <3>2. i + len \in 1 .. n + Len(rest) /\ i \in 1 .. Len(back) + Len(rest) /\ i \in 1 .. Len(w) - len
      BY <1>1, <1>4, <2>3, <2>6
    <3>3. v[i] = w[i + len]
      BY <1>7, <3>2
    <3>4. CASE i <= n - len
      <4>1. i \in 1 .. n - len /\ i + len \in 1 .. n /\ i <= Len(back)
        BY <1>1, <2>3, <3>2, <3>4
      <4> QED
        BY <1>5, <2>3, <2>4, <2>5, <3>2, <3>3, <4>1
    <3>5. CASE ~(i <= n - len)
      <4>1. ~(i <= Len(back)) /\ ~(i + len <= n) /\ i - Len(back) = (i + len) - n
        BY <1>1, <2>3, <3>2, <3>5
      <4> QED
        BY <1>4, <2>5, <3>2, <3>3, <4>1
    <3> QED
      BY <3>4, <3>5
  <2> QED
    BY <1>7, <2>5, <2>6, <2>7, SeqEqual
<1>12. v # <<>> => w # <<>> /\ v[Len(v)] = w[Len(w)]
  <2> SUFFICES ASSUME v # <<>> PROVE w # <<>> /\ v[Len(v)] = w[Len(w)]
    OBVIOUS
  <2>1. Len(v) # 0 /\ Len(v) \in Nat
    BY <1>7, EmptySeq, LenProperties
  <2>2. Len(v) \in 1 .. Len(w) - len /\ Len(v) + len = Len(w) /\ Len(w) # 0
    BY <1>1, <1>4, <1>7, <2>1
  <2> QED
    BY <1>7, <2>2
<1> QED
  BY <1>7, <1>8, <1>10, <1>11, <1>12 DEF w, front

(* What is on its way, in its three parts. *)
LEMMA PartsOfStream ==
  ASSUME IInv
  PROVE  /\ SubSeq(received, 1, bytes_received) \in Seq(Byte)
         /\ Len(SubSeq(received, 1, bytes_received))
              = IF bytes_received = -1 THEN 0 ELSE bytes_received
         /\ Ends(SubSeq(received, 1, bytes_received)) = EndsIn(received, bytes_received)
         /\ stream \in Seq(Byte) /\ sending \in Seq(Byte)
         /\ stream \o sending \in Seq(Byte)
         /\ OnTheWay \in Seq(Byte)
         /\ OnTheWay = SubSeq(received, 1, bytes_received) \o (stream \o sending)
<1>1. /\ received \in [BufferIndex -> Byte] /\ bytes_received \in -1 .. MAX_RECV_BUFFER_SIZE
      /\ stream \in Seq(Byte) /\ sending \in Seq(Byte)
  BY DEF IInv, TypeOK
<1> DEFINE r == SubSeq(received, 1, bytes_received)
<1>2. /\ r \in Seq(Byte) /\ Len(r) = IF bytes_received = -1 THEN 0 ELSE bytes_received
      /\ Ends(r) = EndsIn(received, bytes_received)
  BY <1>1, Buffered
<1> HIDE DEF r
<1>3. stream \o sending \in Seq(Byte)
  BY <1>1, ConcatProperties
<1>4. r \o (stream \o sending) \in Seq(Byte)
  BY <1>2, <1>3, ConcatProperties
<1>5. (r \o stream) \o sending = r \o (stream \o sending)
  BY <1>1, <1>2, ConcatAssociative
<1>6. OnTheWay = (r \o stream) \o sending
  BY DEF OnTheWay, r
<1> QED
  BY <1>1, <1>2, <1>3, <1>4, <1>5, <1>6 DEF r

(* With nothing to come from TCP, and no end in the buffer, all is read. *)
LEMMA AllRead ==
  ASSUME IInv, stream = <<>>, sending = <<>>, ~HaveMessage
  PROVE  /\ Unread = <<>>
         /\ OnTheWay = SubSeq(received, 1, bytes_received)
<1> DEFINE r == SubSeq(received, 1, bytes_received)
<1>1. r \in Seq(Byte) /\ Ends(r) = EndsIn(received, bytes_received)
  BY PartsOfStream
<1>2. OnTheWay = r \o (stream \o sending)
  BY PartsOfStream
<1>3. stream \o sending = <<>>
  <2>1. stream \in Seq(Byte)
    BY DEF IInv, TypeOK
  <2> QED
    BY <2>1, ConcatEmptySeq
<1> HIDE DEF r
<1>4. OnTheWay = r
  BY <1>1, <1>2, <1>3, ConcatEmptySeq
<1>5. Ends(r) = {}
  BY <1>1 DEF HaveMessage, is_message_complete
<1>6. MessagesIn(r) = <<>>
  BY <1>1, <1>5, NoneLeft
<1> QED
  BY <1>4, <1>6 DEF Unread, r

(* Steps that move no bytes. *)
LEMMA NoBytesMove ==
  ASSUME StreamInv, UNCHANGED <<received, bytes_received, msg, status, sending, stream, link>>
  PROVE  Streams
<1>1. UNCHANGED <<OnTheWay, HaveMessage, Unread, Delivered>>
  BY DEF OnTheWay, HaveMessage, Unread, Delivered
<1>2. WholeMessages'
  BY <1>1 DEF StreamInv, WholeMessages
<1>3. LastSaid'
  BY <1>1 DEF StreamInv, LastSaid
<1>4. UNCHANGED Stream!streamVars
  BY <1>1 DEF Stream!streamVars
<1> QED
  BY <1>2, <1>3, <1>4 DEF Streams

LEMMA StreamsTakeBuffered ==
  ASSUME StreamInv, TakeBuffered
  PROVE  Streams
<1>1. /\ received \in [BufferIndex -> Byte] /\ bytes_received \in -1 .. MAX_RECV_BUFFER_SIZE
      /\ is_message_complete(received, bytes_received)
      /\ HandOut(received, bytes_received)
      /\ UNCHANGED <<sending, stream, link>>
      /\ IInv
  BY DEF StreamInv, IInv, TypeOK, TakeBuffered, HaveMessage, sender
<1> DEFINE rest == stream \o sending
           w == SubSeq(received, 1, bytes_received) \o rest
           v == SubSeq(received', 1, bytes_received') \o rest
<1>2. rest \in Seq(Byte) /\ OnTheWay = w
  BY <1>1, PartsOfStream
<1>3. WellCut(w)
  BY <1>2 DEF StreamInv, WholeMessages
<1>4. /\ MessagesIn(w) # <<>>
      /\ Delivered' = Head(MessagesIn(w))
      /\ MessagesIn(v) = Tail(MessagesIn(w))
      /\ WellCut(v)
      /\ v # <<>> => w # <<>> /\ v[Len(v)] = w[Len(w)]
  <2> HIDE DEF rest
  <2> QED
    BY <1>1, <1>2, <1>3, HandOutDelivers
<1>5. /\ bytes_received' \in 0 .. MAX_RECV_BUFFER_SIZE
      /\ status' \in {"single", "multiple"}
      /\ received' \in [BufferIndex -> Byte]
  BY <1>1, HandOutFacts
<1>6. OnTheWay' = v
  <2> DEFINE back == SubSeq(received', 1, bytes_received')
  <2>1. back \in Seq(Byte)
    <3>1. bytes_received' \in -1 .. MAX_RECV_BUFFER_SIZE
      BY <1>5, FramingAssumption
    <3> QED
      BY <1>5, <3>1, Buffered
  <2>2. stream \in Seq(Byte) /\ sending \in Seq(Byte)
    BY <1>1 DEF IInv, TypeOK
  <2>3. OnTheWay' = (back \o stream) \o sending
    BY <1>1 DEF OnTheWay
  <2> HIDE DEF back
  <2>4. (back \o stream) \o sending = back \o (stream \o sending)
    BY <2>1, <2>2, ConcatAssociative
  <2> QED
    BY <2>3, <2>4 DEF back
<1> HIDE DEF w, v
<1>7. WholeMessages'
  BY <1>1, <1>2, <1>4, <1>6 DEF StreamInv, WholeMessages
<1>8. status # "disconnected" /\ link # "failed" /\ LastSaid'
  <2>1. status # "disconnected" /\ link # "failed"
    BY <1>1 DEF StreamInv, LastSaid, HaveMessage
  <2> QED
    BY <1>1, <1>5, <2>1 DEF StreamInv, LastSaid
<1>9. Stream!Deliver
  <2>1. Unread = MessagesIn(w) /\ Unread' = MessagesIn(v)
    BY <1>2, <1>6 DEF Unread
  <2> QED
    BY <1>1, <1>4, <1>5, <1>8, <2>1 DEF Stream!Deliver
<1> QED
  BY <1>7, <1>8, <1>9 DEF Streams, Stream!StreamNext

LEMMA StreamsRecv ==
  ASSUME StreamInv, Recv
  PROVE  Streams
<1> USE FramingAssumption
<1>1. PICK k \in 1 .. Len(stream) :
        /\ k <= Room
        /\ stream' = SubSeq(stream, k + 1, Len(stream))
        /\ IF is_message_complete(Filled(k), bytes_received + k)
             THEN HandOut(Filled(k), bytes_received + k)
             ELSE /\ received' = Filled(k)
                  /\ bytes_received' = bytes_received + k
                  /\ Incomplete
  BY DEF Recv
<1>2. /\ received \in [BufferIndex -> Byte] /\ bytes_received \in -1 .. MAX_RECV_BUFFER_SIZE
      /\ stream \in Seq(Byte) /\ sending \in Seq(Byte) /\ Len(stream) \in Nat
      /\ UNCHANGED <<sending, link>> /\ ~HaveMessage /\ IInv
  BY LenProperties DEF StreamInv, IInv, TypeOK, Recv, sender
<1>3. stream # <<>> /\ link # "failed" /\ bytes_received >= 0
  BY <1>1, <1>2 DEF StreamInv, LastSaid, IInv, CountIsNatural
<1>4. status # "disconnected"
  BY <1>3 DEF StreamInv, LastSaid
<1> DEFINE n == bytes_received + k
           r == SubSeq(received, 1, bytes_received)
           s1 == SubSeq(stream, 1, k)
           s2 == SubSeq(stream, k + 1, Len(stream))
           full == SubSeq(Filled(k), 1, n)
           rest == s2 \o sending
<1>5. n \in -1 .. MAX_RECV_BUFFER_SIZE /\ n # -1 /\ n \in Nat
  BY <1>1, <1>2, <1>3 DEF Room
<1>6. Filled(k) \in [BufferIndex -> Byte]
  <2>1. \A i \in BufferIndex :
          i \in bytes_received + 1 .. bytes_received + k => stream[i - bytes_received] \in Byte
    BY <1>1, <1>2, ElementOfSeq DEF BufferIndex
  <2> QED
    BY <1>2, <2>1 DEF Filled
<1>7. /\ r \in Seq(Byte) /\ Len(r) = bytes_received
      /\ \A i \in 1 .. bytes_received : r[i] = received[i]
  BY <1>2, <1>3, Buffered
<1>8. /\ s1 \in Seq(Byte) /\ Len(s1) = k /\ \A i \in 1 .. k : s1[i] = stream[i]
      /\ s2 \in Seq(Byte) /\ s1 \o s2 = stream
  <2>1. \A i \in 1 .. Len(stream) : stream[i] \in Byte
    BY <1>2, ElementOfSeq
  <2>2. /\ s1 \in Seq(Byte) /\ Len(s1) = IF 1 <= k THEN k - 1 + 1 ELSE 0
        /\ \A i \in 1 .. k - 1 + 1 : s1[i] = stream[1 + i - 1]
    <3>1. \A i \in 1 .. k : stream[i] \in Byte
      BY <2>1, <1>2
    <3> QED
      BY <3>1, SubSeqProperties
  <2>3. s2 \in Seq(Byte)
    <3>1. \A i \in k + 1 .. Len(stream) : stream[i] \in Byte
      BY <2>1, <1>2
    <3> QED
      BY <3>1, <1>2, SubSeqProperties
  <2>4. s1 \o s2 = SubSeq(stream, 1, Len(stream))
    <3>1. 1 \in 1 .. Len(stream) + 1 /\ k \in 1 - 1 .. Len(stream) /\ Len(stream) \in k .. Len(stream)
      BY <1>2
    <3> QED
      BY <1>2, <3>1, ConcatAdjacentSubSeq
  <2>5. SubSeq(stream, 1, Len(stream)) = stream
    BY <1>2, SubSeqFull
  <2>6. Len(s1) = k /\ \A i \in 1 .. k : s1[i] = stream[i]
    <3>1. \A i \in 1 .. k : i \in 1 .. k - 1 + 1 /\ 1 + i - 1 = i
      OBVIOUS
    <3>2. k \in Nat /\ 1 <= k /\ k - 1 + 1 = k
      BY <1>2
    <3> HIDE DEF s1
    <3> QED
      BY <2>2, <3>1, <3>2
  <2>7. s1 \o s2 = stream
    BY <2>4, <2>5
  <2> HIDE DEF s1, s2
  <2> QED
    BY <2>2, <2>3, <2>6, <2>7
<1> HIDE DEF s1, s2
<1>9. full = r \o s1
  <2>1. /\ full \in Seq(Byte) /\ Len(full) = n
        /\ \A i \in 1 .. n : full[i] = Filled(k)[i]
    BY <1>5, <1>6, Buffered
  <2> HIDE DEF full, r
  <2>2. /\ r \o s1 \in Seq(Byte) /\ Len(r \o s1) = Len(r) + Len(s1)
        /\ \A i \in 1 .. Len(r) + Len(s1) :
             (r \o s1)[i] = IF i <= Len(r) THEN r[i] ELSE s1[i - Len(r)]
    <3>1. r \in Seq(Byte) /\ s1 \in Seq(Byte)
      BY <1>7, <1>8
    <3> QED
      BY ONLY <3>1, ConcatProperties
  <2>3. \A i \in 1 .. n : full[i] = (r \o s1)[i]
    <3>1. TAKE i \in 1 .. n
    <3>2. i \in BufferIndex /\ i \in 1 .. Len(r) + Len(s1)
      BY <1>2, <1>3, <1>5, <1>7, <1>8 DEF BufferIndex
    <3>3. CASE i <= bytes_received
      <4>1. i \in 1 .. bytes_received /\ i \notin bytes_received + 1 .. bytes_received + k
        BY <1>2, <3>3
      <4>2. Filled(k)[i] = received[i]
        BY <3>2, <4>1 DEF Filled
      <4> QED
        BY <1>7, <2>1, <2>2, <3>2, <3>3, <4>1, <4>2
    <3>4. CASE ~(i <= bytes_received)
      <4>1. i \in bytes_received + 1 .. bytes_received + k /\ i - bytes_received \in 1 .. k
        BY <1>2, <3>4
      <4>2. Filled(k)[i] = stream[i - bytes_received]
        BY <3>2, <4>1 DEF Filled
      <4> QED
        BY <1>7, <1>8, <2>1, <2>2, <3>2, <3>4, <4>1, <4>2
    <3> QED
      BY <3>3, <3>4
  <2>4. Len(full) = Len(r \o s1)
    BY <1>2, <1>7, <1>8, <2>1, <2>2
  <2> QED
    BY <2>1, <2>2, <2>3, <2>4, SeqEqual
<1>10. rest \in Seq(Byte) /\ OnTheWay = full \o rest
  <2> HIDE DEF r, full
  <2>1. s2 \o sending \in Seq(Byte)
    BY <1>2, <1>8, ConcatProperties
  <2>2. OnTheWay = (r \o (s1 \o s2)) \o sending
    BY <1>8 DEF OnTheWay, r
  <2>3. r \o (s1 \o s2) = (r \o s1) \o s2
    <3>1. r \in Seq(Byte) /\ s1 \in Seq(Byte) /\ s2 \in Seq(Byte)
      BY <1>7, <1>8
    <3> QED
      BY ONLY <3>1, ConcatAssociative, SMTT(30)
  <2>4. r \o s1 \in Seq(Byte)
    BY <1>7, <1>8, ConcatProperties
  <2>5. ((r \o s1) \o s2) \o sending = (r \o s1) \o (s2 \o sending)
    <3> DEFINE q == r \o s1
    <3>1. q \in Seq(Byte) /\ s2 \in Seq(Byte) /\ sending \in Seq(Byte)
      BY <1>2, <1>8, <2>4
    <3> HIDE DEF q
    <3>2. (q \o s2) \o sending = q \o (s2 \o sending)
      BY ONLY <3>1, ConcatAssociative, SMTT(30)
    <3> QED
      BY <3>2 DEF q
  <2> QED
    BY <1>9, <2>1, <2>2, <2>3, <2>5
<1>11. stream' = s2
  BY <1>1 DEF s2
<1>12. WellCut(full \o rest)
  BY <1>10 DEF StreamInv, WholeMessages
<1>13. CASE is_message_complete(Filled(k), n)
  <2> DEFINE w == full \o rest
             back == SubSeq(received', 1, bytes_received')
             v == back \o rest
  <2>1. HandOut(Filled(k), n)
    BY <1>1, <1>13
  <2>2. /\ MessagesIn(w) # <<>>
        /\ Delivered' = Head(MessagesIn(w))
        /\ MessagesIn(v) = Tail(MessagesIn(w))
        /\ WellCut(v)
        /\ v # <<>> => w # <<>> /\ v[Len(v)] = w[Len(w)]
    <3> HIDE DEF rest, n
    <3> QED
      BY <1>5, <1>6, <1>10, <1>12, <1>13, <2>1, HandOutDelivers
  <2>3. /\ bytes_received' \in 0 .. MAX_RECV_BUFFER_SIZE
        /\ status' \in {"single", "multiple"}
        /\ received' \in [BufferIndex -> Byte]
    BY <1>5, <1>6, <1>13, <2>1, HandOutFacts
  <2>4. OnTheWay' = v
    <3>1. back \in Seq(Byte)
      <4>1. bytes_received' \in -1 .. MAX_RECV_BUFFER_SIZE
        BY <2>3
      <4> QED
        BY <2>3, <4>1, Buffered
    <3>2. OnTheWay' = (back \o s2) \o sending
      BY <1>2, <1>11 DEF OnTheWay
    <3> HIDE DEF back
    <3>3. (back \o s2) \o sending = back \o (s2 \o sending)
      <4>1. back \in Seq(Byte) /\ s2 \in Seq(Byte) /\ sending \in Seq(Byte)
        BY <1>2, <1>8, <3>1
      <4> QED
        BY ONLY <4>1, ConcatAssociative, SMTT(30)
    <3> QED
      BY <3>2, <3>3 DEF back
  <2> HIDE DEF w, v, back
  <2>5. WholeMessages'
    BY <1>2, <1>10, <2>2, <2>4 DEF StreamInv, WholeMessages, w
  <2>6. LastSaid'
    BY <1>2, <1>3, <2>3 DEF StreamInv, LastSaid
  <2>7. Stream!Deliver
    <3>1. Unread = MessagesIn(w) /\ Unread' = MessagesIn(v)
      BY <1>10, <2>4 DEF Unread, w
    <3> QED
      BY <1>2, <1>4, <2>2, <2>3, <3>1 DEF Stream!Deliver
  <2> QED
    BY <2>5, <2>6, <2>7 DEF Streams, Stream!StreamNext
<1>14. CASE ~is_message_complete(Filled(k), n)
  <2>1. received' = Filled(k) /\ bytes_received' = n /\ status' = "incomplete" /\ msg' = msg
    BY <1>1, <1>14 DEF Incomplete
  <2>2. OnTheWay' = OnTheWay
    <3>1. OnTheWay' = (full \o s2) \o sending
      BY <1>2, <1>11, <2>1 DEF OnTheWay
    <3>2. full \in Seq(Byte)
      BY <1>5, <1>6, Buffered
    <3> HIDE DEF full
    <3>3. (full \o s2) \o sending = full \o (s2 \o sending)
      <4>1. full \in Seq(Byte) /\ s2 \in Seq(Byte) /\ sending \in Seq(Byte)
        BY <1>2, <1>8, <3>2
      <4> QED
        BY ONLY <4>1, ConcatAssociative, SMTT(30)
    <3> QED
      BY <1>10, <3>1, <3>3
  <2>3. WholeMessages'
    BY <1>2, <2>2 DEF StreamInv, WholeMessages
  <2>4. LastSaid'
    BY <1>2, <1>3, <2>1 DEF StreamInv, LastSaid
  <2>5. UNCHANGED Stream!streamVars
    <3>1. UNCHANGED <<Unread, Delivered>>
      BY <2>1, <2>2 DEF Unread, Delivered
    <3> QED
      BY <1>2, <1>4, <2>1, <3>1 DEF Stream!streamVars
  <2> QED
    BY <2>3, <2>4, <2>5 DEF Streams
<1> QED
  BY <1>13, <1>14

LEMMA StreamsRecvEnd ==
  ASSUME StreamInv, RecvEnd
  PROVE  Streams
<1>1. /\ ~HaveMessage /\ stream = <<>> /\ link \in {"ended", "failed"} /\ link # "open"
      /\ status' = "disconnected"
      /\ UNCHANGED <<received, bytes_received, msg, sending, stream, link>>
      /\ sending = <<>> /\ IInv
  BY DEF StreamInv, LastSaid, RecvEnd, buffer, sender
<1>2. Unread = <<>>
  BY <1>1, AllRead
<1>3. UNCHANGED <<OnTheWay, HaveMessage, Unread, Delivered>>
  BY <1>1 DEF OnTheWay, HaveMessage, Unread, Delivered
<1>4. WholeMessages' /\ LastSaid'
  BY <1>1, <1>3 DEF StreamInv, WholeMessages, LastSaid
<1>5. Stream!Report
  BY <1>1, <1>2, <1>3 DEF Stream!Report
<1> QED
  BY <1>4, <1>5 DEF Streams, Stream!StreamNext

(* The byte that a failed recv() takes off the count is none of a whole    *)
(* message.                                                                *)
LEMMA StreamsRecvFails ==
  ASSUME StreamInv, RecvFails
  PROVE  Streams
<1> USE FramingAssumption
<1> DEFINE n == bytes_received
           r == SubSeq(received, 1, n)
           r2 == SubSeq(received, 1, n - 1)
<1>1. /\ ~HaveMessage /\ stream = <<>> /\ link = "reset" /\ link' = "failed"
      /\ bytes_received' = n - 1 /\ status' = "incomplete"
      /\ UNCHANGED <<received, msg, sending, stream>>
      /\ sending = <<>> /\ IInv /\ status # "disconnected"
      /\ received \in [BufferIndex -> Byte] /\ n \in -1 .. MAX_RECV_BUFFER_SIZE /\ n >= 0
  BY DEF StreamInv, LastSaid, RecvFails, Incomplete, sender, IInv, TypeOK, CountIsNatural
<1>2. Unread = <<>> /\ OnTheWay = r
  BY <1>1, AllRead
<1>3. n - 1 \in -1 .. MAX_RECV_BUFFER_SIZE
  BY <1>1
<1>4. ~is_message_complete(received, n - 1)
  <2>1. EndsIn(received, n - 1) \in SUBSET EndsIn(received, n)
    <3>1. \A i \in BufferIndex : i <= n - 1 => i <= n
      BY <1>1 DEF BufferIndex
    <3> QED
      BY <1>1, <3>1 DEF EndsIn
  <2> QED
    BY <1>1, <2>1 DEF HaveMessage, is_message_complete
<1>5. /\ r2 \in Seq(Byte) /\ Len(r2) = IF n - 1 = -1 THEN 0 ELSE n - 1
      /\ \A i \in 1 .. n - 1 : r2[i] = received[i]
      /\ Ends(r2) = EndsIn(received, n - 1)
  <2> HIDE DEF n
  <2> QED
    BY <1>1, <1>3, Buffered DEF n
<1>6. r \in Seq(Byte) /\ Len(r) = n /\ \A i \in 1 .. n : r[i] = received[i]
  BY <1>1, Buffered
<1>7. Ends(r2) = {} /\ MessagesIn(r2) = <<>>
  BY <1>4, <1>5, NoneLeft DEF is_message_complete
<1>8. OnTheWay' = r2
  <2>1. OnTheWay' = (r2 \o <<>>) \o <<>>
    BY <1>1 DEF OnTheWay
  <2> HIDE DEF r2
  <2> QED
    BY <1>5, <2>1, ConcatEmptySeq
<1>9. WellCut(r)
  BY <1>2 DEF StreamInv, WholeMessages
<1> HIDE DEF r, r2, n
<1>10. WellCut(r2)
  <2>1. r2 # <<>> => Begins(r2[1])
    <3> SUFFICES ASSUME r2 # <<>> PROVE Begins(r2[1])
      OBVIOUS
    <3>1. Len(r2) # 0
      BY <1>5, EmptySeq
    <3>2. 1 \in 1 .. n - 1 /\ 1 \in 1 .. n /\ Len(r) # 0
      BY <1>1, <1>5, <1>6, <3>1
    <3>3. r # <<>>
      BY <3>2
    <3> QED
      BY <1>5, <1>6, <1>9, <3>2, <3>3 DEF WellCut
  <2>2. ASSUME NEW i \in 1 .. Len(r2) - 1
        PROVE  IF IsEnd(r2[i]) THEN Begins(r2[i + 1])
               ELSE r2[i + 1] = <<r2[i][1], r2[i][2] - 1>>
    <3>1. /\ i \in 1 .. n - 1 /\ i + 1 \in 1 .. n - 1 /\ i \in 1 .. n /\ i + 1 \in 1 .. n
          /\ i \in 1 .. Len(r) - 1
      BY <1>1, <1>5, <1>6
    <3>2. r2[i] = r[i] /\ r2[i + 1] = r[i + 1]
      BY <1>5, <1>6, <3>1
    <3> QED
      BY <1>9, <3>1, <3>2 DEF WellCut
  <2> QED
    BY <2>1, <2>2 DEF WellCut
<1>11. WholeMessages'
  BY <1>1, <1>8, <1>10 DEF WholeMessages
<1>12. LastSaid'
  <2>1. ~HaveMessage'
    BY <1>1, <1>4 DEF HaveMessage
  <2> QED
    BY <1>1, <2>1 DEF LastSaid
<1>13. UNCHANGED Stream!streamVars
  <2>1. Unread' = Unread /\ Delivered' = Delivered
    BY <1>1, <1>2, <1>7, <1>8 DEF Unread, Delivered
  <2> QED
    BY <1>1, <2>1 DEF Stream!streamVars
<1> QED
  BY <1>11, <1>12, <1>13 DEF Streams

LEMMA StreamsStartSend ==
  ASSUME StreamInv, NEW m \in Message, StartSend(m)
  PROVE  Streams
<1> DEFINE r == SubSeq(received, 1, bytes_received)
           w == r \o stream
<1>1. /\ link = "open" /\ sending = <<>> /\ sending' = Bytes(m)
      /\ UNCHANGED <<received, bytes_received, msg, status, stream, link>> /\ IInv
  BY DEF StartSend, buffer, StreamInv
<1>2. r \in Seq(Byte) /\ stream \in Seq(Byte)
  BY <1>1, PartsOfStream
<1>3. w \in Seq(Byte)
  <2> HIDE DEF r
  <2> QED
    BY <1>2, ConcatProperties
<1>4. OnTheWay = w
  <2>1. OnTheWay = w \o <<>>
    BY <1>1 DEF OnTheWay
  <2> HIDE DEF w
  <2> QED
    BY <1>3, <2>1, ConcatEmptySeq
<1>5. OnTheWay' = w \o Bytes(m)
  BY <1>1 DEF OnTheWay
<1>6. WellCut(w) /\ (w # <<>> => IsEnd(w[Len(w)]))
  BY <1>1, <1>4 DEF StreamInv, WholeMessages
<1> HIDE DEF w, r
<1>7. WellCut(w \o Bytes(m)) /\ IsEnd((w \o Bytes(m))[Len(w \o Bytes(m))])
  BY <1>3, <1>6, WellCutAppend
<1>8. MessagesIn(w \o Bytes(m)) = Append(MessagesIn(w), m)
  BY <1>3, AppendedMessage
<1>9. WholeMessages'
  BY <1>5, <1>7 DEF WholeMessages
<1>10. LastSaid'
  <2>1. status # "disconnected"
    BY <1>1 DEF StreamInv, LastSaid
  <2> QED
    BY <1>1, <2>1 DEF LastSaid
<1>11. Stream!Offer(m)
  <2>1. Unread' = Append(Unread, m) /\ Delivered' = Delivered
    BY <1>1, <1>4, <1>5, <1>8 DEF Unread, Delivered
  <2> QED
    BY <1>1, <2>1 DEF Stream!Offer
<1> QED
  BY <1>9, <1>10, <1>11 DEF Streams, Stream!StreamNext

LEMMA StreamsSendSome ==
  ASSUME StreamInv, SendSome
  PROVE  Streams
<1>1. PICK k \in 1 .. Len(sending) :
        /\ stream' = stream \o SubSeq(sending, 1, k)
        /\ sending' = SubSeq(sending, k + 1, Len(sending))
  BY DEF SendSome
<1>2. /\ link = "open" /\ IInv
      /\ UNCHANGED <<received, bytes_received, msg, status, link>>
  BY DEF SendSome, buffer, StreamInv
<1> DEFINE r == SubSeq(received, 1, bytes_received)
           s1 == SubSeq(sending, 1, k)
           s2 == SubSeq(sending, k + 1, Len(sending))
<1>3. r \in Seq(Byte) /\ stream \in Seq(Byte) /\ sending \in Seq(Byte)
  BY <1>2, PartsOfStream
<1>4. s1 \in Seq(Byte) /\ s2 \in Seq(Byte) /\ s1 \o s2 = sending
  <2>1. Len(sending) \in Nat /\ \A i \in 1 .. Len(sending) : sending[i] \in Byte
    BY <1>3, LenProperties, ElementOfSeq
  <2>2. s1 \in Seq(Byte)
    <3>1. \A i \in 1 .. k : sending[i] \in Byte
      BY <2>1
    <3> QED
      BY <3>1, <2>1, SubSeqProperties
  <2>3. s2 \in Seq(Byte)
    <3>1. \A i \in k + 1 .. Len(sending) : sending[i] \in Byte
      BY <2>1
    <3> QED
      BY <3>1, <2>1, SubSeqProperties
  <2>4. s1 \o s2 = SubSeq(sending, 1, Len(sending))
    <3>1. /\ 1 \in 1 .. Len(sending) + 1 /\ k \in 1 - 1 .. Len(sending)
          /\ Len(sending) \in k .. Len(sending)
      BY <2>1
    <3> QED
      BY <1>3, <3>1, ConcatAdjacentSubSeq
  <2>5. SubSeq(sending, 1, Len(sending)) = sending
    BY <1>3, SubSeqFull
  <2>6. s1 \o s2 = sending
    BY <2>4, <2>5
  <2> HIDE DEF s1, s2
  <2> QED
    BY <2>2, <2>3, <2>6
<1>5. OnTheWay' = (r \o (stream \o s1)) \o s2
  BY <1>1, <1>2 DEF OnTheWay
<1> HIDE DEF s1, s2
<1>6. OnTheWay = r \o (stream \o sending)
  BY <1>2, PartsOfStream
<1> HIDE DEF r
<1>7. OnTheWay' = OnTheWay
  <2>1. stream \o s1 \in Seq(Byte)
    BY <1>3, <1>4, ConcatProperties
  <2>2. (r \o (stream \o s1)) \o s2 = r \o ((stream \o s1) \o s2)
    <3> DEFINE q == stream \o s1
    <3>1. r \in Seq(Byte) /\ q \in Seq(Byte) /\ s2 \in Seq(Byte)
      BY <1>3, <1>4, <2>1
    <3> HIDE DEF q
    <3>2. (r \o q) \o s2 = r \o (q \o s2)
      BY ONLY <3>1, ConcatAssociative, SMTT(30)
    <3> QED
      BY <3>2 DEF q
  <2>3. (stream \o s1) \o s2 = stream \o (s1 \o s2)
    <3>1. stream \in Seq(Byte) /\ s1 \in Seq(Byte) /\ s2 \in Seq(Byte)
      BY <1>3, <1>4
    <3> QED
      BY ONLY <3>1, ConcatAssociative, SMTT(30)
  <2> QED
    BY <1>4, <1>5, <1>6, <2>2, <2>3
<1>8. WholeMessages'
  BY <1>2, <1>7 DEF StreamInv, WholeMessages
<1>9. LastSaid'
  <2>1. status # "disconnected"
    BY <1>2 DEF StreamInv, LastSaid
  <2> QED
    BY <1>2, <2>1 DEF LastSaid
<1>10. UNCHANGED Stream!streamVars
  <2>1. UNCHANGED <<Unread, Delivered>>
    BY <1>2, <1>7 DEF Unread, Delivered
  <2> QED
    BY <1>2, <2>1 DEF Stream!streamVars
<1> QED
  BY <1>8, <1>9, <1>10 DEF Streams

(* The end of the connection cuts off what was still to be sent, and a     *)
(* reset also what TCP held.                                               *)
LEMMA StreamsClose ==
  ASSUME StreamInv, link = "open", link' \in {"ended", "reset"}, sending' = <<>>,
         UNCHANGED <<received, bytes_received, msg, status>>,
         NEW n \in 0 .. Len(stream), stream' = SubSeq(stream, 1, n)
  PROVE  Streams
<1> DEFINE r == SubSeq(received, 1, bytes_received)
           s1 == SubSeq(stream, 1, n)
           s2 == SubSeq(stream, n + 1, Len(stream))
<1>1. IInv /\ r \in Seq(Byte) /\ stream \in Seq(Byte) /\ sending \in Seq(Byte)
  BY PartsOfStream DEF StreamInv
<1>2. s1 \in Seq(Byte) /\ s2 \in Seq(Byte) /\ s1 \o s2 = stream
  <2>1. Len(stream) \in Nat /\ \A i \in 1 .. Len(stream) : stream[i] \in Byte
    BY <1>1, LenProperties, ElementOfSeq
  <2>2. s1 \in Seq(Byte)
    <3>1. \A i \in 1 .. n : stream[i] \in Byte
      BY <2>1
    <3> QED
      BY <3>1, <2>1, SubSeqProperties
  <2>3. s2 \in Seq(Byte)
    <3>1. \A i \in n + 1 .. Len(stream) : stream[i] \in Byte
      BY <2>1
    <3> QED
      BY <3>1, <2>1, SubSeqProperties
  <2>4. s1 \o s2 = SubSeq(stream, 1, Len(stream))
    <3>1. /\ 1 \in 1 .. Len(stream) + 1 /\ n \in 1 - 1 .. Len(stream)
          /\ Len(stream) \in n .. Len(stream)
      BY <2>1
    <3> QED
      BY <1>1, <3>1, ConcatAdjacentSubSeq
  <2>5. SubSeq(stream, 1, Len(stream)) = stream
    BY <1>1, SubSeqFull
  <2>6. s1 \o s2 = stream
    BY <2>4, <2>5
  <2> HIDE DEF s1, s2
  <2> QED
    BY <2>2, <2>3, <2>6
<1>3. OnTheWay' = (r \o s1) \o <<>>
  BY DEF OnTheWay
<1> HIDE DEF s1, s2
<1>4. OnTheWay = (r \o (s1 \o s2)) \o sending
  BY <1>2 DEF OnTheWay
<1> HIDE DEF r
<1> DEFINE a == r \o s1
           b == s2 \o sending
<1>5. a \in Seq(Byte) /\ b \in Seq(Byte)
  BY <1>1, <1>2, ConcatProperties
<1>6. OnTheWay = a \o b
  <2>1. (r \o s1) \o s2 = r \o (s1 \o s2)
    <3>1. r \in Seq(Byte) /\ s1 \in Seq(Byte) /\ s2 \in Seq(Byte)
      BY <1>1, <1>2
    <3> QED
      BY ONLY <3>1, ConcatAssociative, SMTT(30)
  <2>2. ((r \o s1) \o s2) \o sending = (r \o s1) \o (s2 \o sending)
    <3> DEFINE q == r \o s1
    <3>1. q \in Seq(Byte) /\ s2 \in Seq(Byte) /\ sending \in Seq(Byte)
      BY <1>1, <1>2, <1>5
    <3> HIDE DEF q
    <3>2. (q \o s2) \o sending = q \o (s2 \o sending)
      BY ONLY <3>1, ConcatAssociative, SMTT(30)
    <3> QED
      BY <3>2 DEF q
  <2> QED
    BY <1>4, <2>1, <2>2
<1>7. OnTheWay' = a
  <2> HIDE DEF a
  <2> QED
    BY <1>3, <1>5, ConcatEmptySeq DEF a
<1> HIDE DEF a, b
<1>8. WellCut(a \o b)
  BY <1>6 DEF StreamInv, WholeMessages
<1>9. /\ WellCut(a)
      /\ \E i \in 0 .. Len(MessagesIn(a \o b)) :
           MessagesIn(a) = SubSeq(MessagesIn(a \o b), 1, i)
  BY <1>5, <1>8, CutShort
<1>10. WholeMessages'
  BY <1>7, <1>9 DEF WholeMessages
<1>11. status # "disconnected" /\ LastSaid'
  <2>1. status # "disconnected"
    BY DEF StreamInv, LastSaid
  <2> QED
    BY <2>1 DEF LastSaid
<1>12. Stream!Close
  <2>1. Unread = MessagesIn(a \o b) /\ Unread' = MessagesIn(a) /\ Delivered' = Delivered
    BY <1>6, <1>7 DEF Unread, Delivered
  <2>2. Unread' \in {SubSeq(Unread, 1, i) : i \in 0 .. Len(Unread)}
    BY <1>9, <2>1
  <2> QED
    BY <1>11, <2>1, <2>2 DEF Stream!Close
<1> QED
  BY <1>10, <1>11, <1>12 DEF Streams, Stream!StreamNext

LEMMA StreamsNext ==
  ASSUME StreamInv, [Next]_vars
  PROVE  Streams
<1>1. CASE RecvEnd
  BY <1>1, StreamsRecvEnd
<1>2. CASE Wake \/ Process \/ Greeted \/ SubmitName \/ UNCHANGED vars
  <2>1. UNCHANGED <<received, bytes_received, msg, status, sending, stream, link>>
    BY <1>2 DEF Wake, Process, Greeted, SubmitName, vars, buffer, sender
  <2> QED
    BY <2>1, NoBytesMove
<1>3. CASE PeerEnds
  <2>1. /\ link = "open" /\ link' = "ended" /\ sending' = <<>> /\ stream' = stream
        /\ UNCHANGED <<received, bytes_received, msg, status>>
    BY <1>3 DEF PeerEnds, buffer
  <2>2. stream \in Seq(Byte)
    BY DEF StreamInv, IInv, TypeOK
  <2>3. Len(stream) \in 0 .. Len(stream) /\ stream' = SubSeq(stream, 1, Len(stream))
    BY <2>1, <2>2, LenProperties, SubSeqFull
  <2>4. link' \in {"ended", "reset"}
    BY <2>1
  <2> QED
    BY <2>1, <2>3, <2>4, StreamsClose
<1>4. CASE PeerResets
  <2>1. /\ link = "open" /\ link' = "reset" /\ sending' = <<>>
        /\ UNCHANGED <<received, bytes_received, msg, status>>
        /\ \E n \in 0 .. Len(stream) : stream' = SubSeq(stream, 1, n)
    BY <1>4 DEF PeerResets, buffer
  <2>2. PICK n \in 0 .. Len(stream) : stream' = SubSeq(stream, 1, n)
    BY <2>1
  <2>3. link' \in {"ended", "reset"}
    BY <2>1
  <2> QED
    BY <2>1, <2>2, <2>3, StreamsClose
<1>5. CASE TakeBuffered
  BY <1>5, StreamsTakeBuffered
<1>6. CASE Recv
  BY <1>6, StreamsRecv
<1>7. CASE RecvFails
  BY <1>7, StreamsRecvFails
<1>8. CASE SendSome
  BY <1>8, StreamsSendSome
<1>9. ASSUME NEW m \in Message, StartSend(m) PROVE Streams
  BY <1>9, StreamsStartSend
<1> QED
  BY <1>1, <1>2, <1>3, <1>4, <1>5, <1>6, <1>7, <1>8, <1>9 DEF Next, Reader

LEMMA StreamsInit ==
  ASSUME Init
  PROVE  WholeMessages /\ LastSaid /\ Stream!StreamInit
<1>1. /\ IInv /\ bytes_received = 0 /\ stream = <<>> /\ sending = <<>> /\ msg = <<>>
      /\ link = "open" /\ status = "incomplete"
  BY InitIInv DEF Init
<1>2. ~HaveMessage
  <2>1. \A i \in BufferIndex : ~(i <= 0)
    BY FramingAssumption DEF BufferIndex
  <2>2. DOMAIN received = BufferIndex
    BY DEF Init
  <2> QED
    BY <1>1, <2>1, <2>2 DEF HaveMessage, is_message_complete, EndsIn
<1>3. Unread = <<>> /\ OnTheWay = SubSeq(received, 1, bytes_received)
  BY <1>1, <1>2, AllRead
<1>4. OnTheWay = <<>>
  BY <1>1, <1>3, SubSeqEmpty
<1>5. WellCut(<<>>)
  BY DEF WellCut
<1>6. WholeMessages
  BY <1>4, <1>5 DEF WholeMessages
<1>7. LastSaid
  BY <1>1 DEF LastSaid
<1>8. Stream!StreamInit
  BY <1>1, <1>3 DEF Stream!StreamInit, Delivered
<1> QED
  BY <1>6, <1>7, <1>8

(* The bytes between send_to_sock() and recv_from_sock() implement the     *)
(* stream of messages: however TCP cuts and joins them and whenever the    *)
(* connection ends or breaks, each is handed out once, whole and in order, *)
(* and the peer is reported gone only after the last.                      *)
THEOREM FramingImplementsStream == Spec => ImplementsStream
<1>1. Init => IInv /\ WholeMessages /\ LastSaid /\ Stream!StreamInit
  BY InitIInv, StreamsInit
<1>2. /\ (IInv /\ WholeMessages /\ LastSaid) /\ [Next]_vars
        => IInv' /\ WholeMessages' /\ LastSaid'
      /\ (IInv /\ WholeMessages /\ LastSaid) /\ [Next]_vars
        => [Stream!StreamNext]_(Stream!streamVars)
  BY StepIInv, StreamsNext DEF StreamInv, Streams
<1> QED
  BY <1>1, <1>2, PTL DEF Spec, ImplementsStream, Stream!StreamSpec
=============================================================================
