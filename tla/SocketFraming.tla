---------------------------- MODULE SocketFraming ----------------------------
(***************************************************************************)
(* One direction of a connection, byte by byte: send_to_sock() at one end, *)
(* TCP between, and at the other end recv_from_sock() with its buffer,     *)
(* called from the read loop that server_networking.c and client.c share.  *)
(* The reader is the server, or a client, which before its loop reads one  *)
(* message, asks for a name and sends it.                                  *)
(***************************************************************************)
EXTENDS Integers, FiniteSets, Sequences

CONSTANTS
  Message,
  Size,                  \* bytes of a message, MSG_END included
  Refusals,              \* the messages that are N_GAME_FULL
  MAX_RECV_BUFFER_SIZE,
  StreamSize             \* bytes TCP holds before send() waits

NoMessage == "none"

ASSUME FramingAssumption ==
  /\ MAX_RECV_BUFFER_SIZE \in Nat
  /\ Size \in [Message -> 1 .. MAX_RECV_BUFFER_SIZE]
  /\ Refusals \subseteq Message
  /\ NoMessage \notin Message
  /\ StreamSize \in Nat \ {0}

VARIABLES
  received,        \* struct receive_buffer ...
  bytes_received,  \* ... -1 after a recv() that failed on an empty buffer
  msg,             \* the bytes last copied to the caller
  status,          \* what recv_from_sock() last returned
  reader,          \* where the reader stands
  sending,         \* what send_to_sock() has still to send
  name_answered,   \* FALSE from the client's name until the server's next message
  stream,          \* external: bytes on their way
  link             \* external: the connection, seen from the reader

buffer == <<received, bytes_received>>
sender == <<sending, name_answered>>
vars == <<buffer, msg, status, reader, sender, stream, link>>

(* A byte: its message and how many bytes of it follow.  MSG_END is the    *)
(* byte that nothing follows, and no other byte of a message is MSG_END.   *)
Byte == (Message \cup {NoMessage}) \X (0 .. MAX_RECV_BUFFER_SIZE)
Bytes(m) == [k \in 1 .. Size[m] |-> <<m, Size[m] - k>>]
IsEnd(byte) == byte[2] = 0
Zero == <<NoMessage, 1>>

BufferIndex == 1 .. MAX_RECV_BUFFER_SIZE

Init ==
  /\ received = [i \in BufferIndex |-> Zero]
  /\ bytes_received = 0
  /\ msg = <<>>
  /\ status = "incomplete"
  /\ reader \in {"greet", "select"}
  /\ sending = <<>>
  /\ name_answered = TRUE
  /\ stream = <<>>
  /\ link = "open"

----------------------------------------------------------------------------
(* recv_from_sock() *)

EndsIn(buf, n) == {i \in DOMAIN buf : i <= n /\ IsEnd(buf[i])}

is_message_complete(buf, n) == EndsIn(buf, n) # {}

get_msg_len(buf) ==
  CHOOSE i \in DOMAIN buf : IsEnd(buf[i]) /\ \A j \in 1 .. i - 1 : ~IsEnd(buf[j])

\* MUTANT: the message handed out is counted off but not moved out.
NotMoved(buf, n, len) == buf

(* memmove() and memset(), which a message of the whole buffer skips.      *)
MovedUp(buf, n, len) ==
  IF len = MAX_RECV_BUFFER_SIZE
    THEN buf
    ELSE [i \in BufferIndex |-> IF i <= n - len THEN buf[i + len] ELSE Zero]

\* MUTANT: some bytes left are taken for a message left.
MultipleIfAnyLeft(buf, n) == IF n > 0 THEN "multiple" ELSE "single"

\* MUTANT: the caller is never told of a second message.
AlwaysSingle(buf, n) == "single"

StatusWith(buf, n) == IF is_message_complete(buf, n) THEN "multiple" ELSE "single"

\* MUTANT: MSG_END is taken off the count twice.
EndCountedTwice(n, len) == n - len - 1

CountLeft(n, len) == n - len

(* Copy the first of n bytes' messages to the caller. *)
HandOut(buf, n) ==
  LET len == get_msg_len(buf)
  IN  /\ msg' = SubSeq(buf, 1, len)
      /\ received' = MovedUp(buf, n, len)
      /\ bytes_received' = CountLeft(n, len)
      /\ status' = StatusWith(MovedUp(buf, n, len), CountLeft(n, len))
      /\ reader' = IF reader = "greet" THEN "hello" ELSE "process"

(* The greeting loop calls again, the read loop goes back to select().     *)
Incomplete ==
  /\ status' = "incomplete"
  /\ reader' = IF reader = "greet" THEN "greet" ELSE "select"
  /\ UNCHANGED msg

Calling == reader \in {"greet", "recv"}

HaveMessage == is_message_complete(received, bytes_received)

TakeBuffered ==
  /\ Calling
  /\ HaveMessage
  /\ HandOut(received, bytes_received)
  /\ UNCHANGED <<sender, stream, link>>

Room == MAX_RECV_BUFFER_SIZE - bytes_received

Filled(k) ==
  [i \in BufferIndex |->
     IF i \in bytes_received + 1 .. bytes_received + k
       THEN stream[i - bytes_received] ELSE received[i]]

Recv ==
  /\ Calling
  /\ ~HaveMessage
  /\ \E k \in 1 .. Len(stream) :
       /\ k <= Room
       /\ stream' = SubSeq(stream, k + 1, Len(stream))
       /\ IF is_message_complete(Filled(k), bytes_received + k)
            THEN HandOut(Filled(k), bytes_received + k)
            ELSE /\ received' = Filled(k)
                 /\ bytes_received' = bytes_received + k
                 /\ Incomplete
  /\ UNCHANGED <<sender, link>>

(* recv() returns 0.  A client that is still to be greeted looks at a      *)
(* buffer nobody wrote to, and goes on or ends.                            *)
RecvEnd ==
  /\ Calling
  /\ ~HaveMessage
  /\ stream = <<>>
  /\ link \in {"ended", "failed"}
  /\ status' = "disconnected"
  /\ reader' \in IF reader = "greet" THEN {"naming", "gone"} ELSE {"gone"}
  /\ UNCHANGED <<buffer, msg, sender, stream, link>>

(* recv() returns -1, once, and the -1 is added to the count. *)
RecvFails ==
  /\ Calling
  /\ ~HaveMessage
  /\ stream = <<>>
  /\ link = "reset"
  /\ link' = "failed"
  /\ bytes_received' = bytes_received - 1
  /\ Incomplete
  /\ UNCHANGED <<received, sender, stream>>

----------------------------------------------------------------------------
(* The callers of recv_from_sock() *)

Wake ==
  /\ reader = "select"
  /\ stream # <<>> \/ link # "open"
  /\ reader' = "recv"
  /\ UNCHANGED <<buffer, msg, status, sender, stream, link>>

(* One message is processed, and the loop goes round if there is another.  *)
Process ==
  /\ reader = "process"
  /\ reader' = IF status = "single" THEN "select" ELSE "recv"
  /\ UNCHANGED <<buffer, msg, status, sender, stream, link>>

Greeted ==
  /\ reader = "hello"
  /\ reader' = IF msg[1][1] \in Refusals THEN "gone" ELSE "naming"
  /\ UNCHANGED <<buffer, msg, status, sender, stream, link>>

(* The name goes to the server, which will answer it. *)
SubmitName ==
  /\ reader = "naming"
  /\ reader' = "select"
  /\ name_answered' = FALSE
  /\ UNCHANGED <<buffer, msg, status, sending, stream, link>>

----------------------------------------------------------------------------
(* send_to_sock() at the other end, and the connection *)

StartSend(m) ==
  /\ link = "open"
  /\ sending = <<>>
  /\ sending' = Bytes(m)
  /\ name_answered' = TRUE
  /\ UNCHANGED <<buffer, msg, status, reader, stream, link>>

SendSome ==
  /\ link = "open"
  /\ \E k \in 1 .. Len(sending) :
       /\ k <= StreamSize - Len(stream)
       /\ stream' = stream \o SubSeq(sending, 1, k)
       /\ sending' = SubSeq(sending, k + 1, Len(sending))
  /\ UNCHANGED <<buffer, msg, status, reader, name_answered, link>>

(* The other end is closed, even in the middle of a message ... *)
PeerEnds ==
  /\ link = "open"
  /\ link' = "ended"
  /\ sending' = <<>>
  /\ UNCHANGED <<buffer, msg, status, reader, name_answered, stream>>

(* ... or breaks, with what was on its way. *)
PeerResets ==
  /\ link = "open"
  /\ link' = "reset"
  /\ sending' = <<>>
  /\ stream' \in {SubSeq(stream, 1, n) : n \in 0 .. Len(stream)}
  /\ UNCHANGED <<buffer, msg, status, reader, name_answered>>

----------------------------------------------------------------------------
Reader ==
  \/ TakeBuffered \/ Recv \/ RecvEnd \/ RecvFails
  \/ Wake \/ Process \/ Greeted \/ SubmitName

Next ==
  \/ Reader
  \/ \E m \in Message : StartSend(m)
  \/ SendSome
  \/ PeerEnds
  \/ PeerResets

(* The reader goes on, names included; a send that can go on does; and the *)
(* server answers a name, to all clients.                                  *)
Fairness ==
  /\ WF_vars(Reader)
  /\ WF_vars(SendSome)
  /\ WF_vars(~name_answered /\ \E m \in Message : StartSend(m))

Spec == Init /\ [][Next]_vars /\ Fairness

----------------------------------------------------------------------------
(* Every variable has its type; the count stays within the buffer but for  *)
(* the -1 of a broken connection.                                          *)
TypeOK ==
  /\ received \in [BufferIndex -> Byte]
  /\ bytes_received \in -1 .. MAX_RECV_BUFFER_SIZE
  /\ msg \in Seq(Byte)
  /\ status \in {"incomplete", "single", "multiple", "disconnected"}
  /\ reader \in {"greet", "hello", "naming", "select", "recv", "process", "gone"}
  /\ sending \in Seq(Byte)
  /\ name_answered \in BOOLEAN
  /\ stream \in Seq(Byte) /\ Len(stream) <= StreamSize
  /\ link \in {"open", "ended", "reset", "failed"}

(* network_handler.c: "This function assumes that the socket is ready to   *)
(* be read from".  A loop that called once too often would wait in recv()  *)
(* for this one peer, and the server for all of its clients.               *)
RecvNeverBlocks ==
  reader = "recv" => HaveMessage \/ stream # <<>> \/ link # "open"

(* However TCP cuts and joins them, messages come out once, whole and in   *)
(* order, and a peer is reported gone only after its last message.         *)
OnTheWay == SubSeq(received, 1, bytes_received) \o stream \o sending

Ends(bytes) == {i \in 1 .. Len(bytes) : IsEnd(bytes[i])}

NthEnd(bytes, n) ==
  CHOOSE j \in Ends(bytes) : Cardinality({i \in Ends(bytes) : i < j}) = n - 1

MessagesIn(bytes) ==
  [n \in 1 .. Cardinality(Ends(bytes)) |-> bytes[NthEnd(bytes, n)][1]]

Unread == MessagesIn(OnTheWay)

Delivered ==
  IF msg = <<>> THEN NoMessage
  ELSE IF msg[1][1] \in Message /\ msg = Bytes(msg[1][1])
         THEN msg[1][1] ELSE "garbled"

Stream ==
  INSTANCE MessageStream
    WITH unread <- Unread,
         delivered <- Delivered,
         closed <- link # "open",
         reported <- status = "disconnected"
ImplementsStream == Stream!StreamSpec

(* No message waits for ever: not in the buffer while the reader sleeps in *)
(* select(), and not behind the client's greeting, which leaves messages   *)
(* in the buffer that only the answer to its name brings out.              *)
WaitingIsDelivered ==
  Unread # <<>> ~> reader \in {"hello", "process", "gone"}
=============================================================================
