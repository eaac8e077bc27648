--------------------------- MODULE WordPartyProofs ---------------------------
(***************************************************************************)
(* Proofs about WordParty, the whole program, for any number of clients,   *)
(* any queues and any number of starts, words and departures.              *)
(***************************************************************************)
EXTENDS WordParty, GameLogicProofs

(* What travels from the networking thread to the logic thread. *)
LogicMsg ==
  {<<"T_PLAYER_JOIN", id>> : id \in Id} \cup {<<"T_PLAYER_LEFT", id>> : id \in Id}
    \cup {<<"T_SEND_WORD", id, word>> : id \in Id, word \in Word}

Joins(k, id) == to_logic[k] = <<"T_PLAYER_JOIN", id>>

Leaves(k, id) == to_logic[k] = <<"T_PLAYER_LEFT", id>>

(* The logic thread knows of the client before it handles message k. *)
KnownBefore(k, id) == id \in connected \/ \E j \in 1 .. k - 1 : Joins(j, id)

(* A client is reported once, before anything else about it, and nothing   *)
(* about it follows its departure.                                         *)
QueueInOrder ==
  \A k \in 1 .. Len(to_logic) :
    IF to_logic[k][1] = "T_PLAYER_JOIN"
      THEN /\ to_logic[k][2] \notin connected
           /\ \A j \in 1 .. k - 1 : to_logic[j][2] # to_logic[k][2]
      ELSE /\ KnownBefore(k, to_logic[k][2])
           /\ \A j \in 1 .. k - 1 : ~Leaves(j, to_logic[k][2])

(* Nobody is heard of before it is let in. *)
StrangersAreUnknown ==
  \A id \in Stranger :
    /\ id \notin Range(list)
    /\ id \notin connected
    /\ \A k \in 1 .. Len(to_logic) : to_logic[k][2] # id

(* Whom the networking thread has in its list, the logic thread knows or   *)
(* will know, unless a message was lost.                                   *)
ListIsReported ==
  ~lost =>
    \A id \in Range(list) :
      /\ KnownBefore(Len(to_logic) + 1, id)
      /\ \A k \in 1 .. Len(to_logic) : ~Leaves(k, id)

IsSeq(s) == Len(s) \in Nat /\ s = [k \in 1 .. Len(s) |-> s[k]]

PartyTypes ==
  /\ to_logic \in Seq(LogicMsg) /\ Len(to_logic) <= QUEUE_ROOM
  /\ IsSeq(to_net) /\ Len(to_net) <= QUEUE_ROOM
  /\ pc \in {"select", "thread", "accept", "clients"}
  /\ list \in Seq(Id) /\ IsInjective(list)
  /\ \A id \in Id : "phase" \in DOMAIN client[id] /\ client[id].phase \in C!Phase
  /\ outbox \in [Id -> Seq(Word)]

----------------------------------------------------------------------------
(* Sequences of any elements: putting in at the end, taking out in front.  *)
LEMMA SeqOps ==
  ASSUME NEW s, IsSeq(s), NEW m
  PROVE  /\ IsSeq(Append(s, m)) /\ Len(Append(s, m)) = Len(s) + 1
         /\ \A k \in 1 .. Len(s) : Append(s, m)[k] = s[k]
         /\ Append(s, m)[Len(s) + 1] = m
         /\ s # <<>> => /\ IsSeq(Tail(s)) /\ Len(Tail(s)) = Len(s) - 1
                        /\ \A k \in 1 .. Len(s) - 1 : Tail(s)[k] = s[k + 1]
                        /\ Head(s) = s[1] /\ Len(s) > 0
<1> DEFINE T == {s[k] : k \in 1 .. Len(s)} \cup {m}
<1>1. s \in Seq(T) /\ m \in T
  <2>1. s \in [1 .. Len(s) -> T] /\ Len(s) \in Nat
    BY DEF IsSeq
  <2>2. QED
    BY <2>1
<1>2. ASSUME NEW t \in Seq(T) PROVE IsSeq(t)
  BY DEF IsSeq
<1> HIDE DEF T
<1>3. /\ Append(s, m) \in Seq(T) /\ Len(Append(s, m)) = Len(s) + 1
      /\ \A k \in 1 .. Len(s) : Append(s, m)[k] = s[k]
      /\ Append(s, m)[Len(s) + 1] = m
  BY <1>1, AppendProperties
<1>4. ASSUME s # <<>>
      PROVE  /\ Tail(s) \in Seq(T) /\ Len(Tail(s)) = Len(s) - 1
             /\ \A k \in 1 .. Len(s) - 1 : Tail(s)[k] = s[k + 1]
             /\ Head(s) = s[1] /\ Len(s) > 0
  BY <1>1, <1>4
<1>5. QED
  BY <1>2, <1>3, <1>4

(* A message says what it is about and whom. *)
LEMMA MsgShape ==
  ASSUME NEW m \in LogicMsg
  PROVE  /\ m[2] \in Id
         /\ \/ m[1] = "T_PLAYER_JOIN" /\ m = <<"T_PLAYER_JOIN", m[2]>>
            \/ m[1] = "T_PLAYER_LEFT" /\ m = <<"T_PLAYER_LEFT", m[2]>>
            \/ m[1] = "T_SEND_WORD" /\ m[3] \in Word
BY DEF LogicMsg

(* No message and no drawing of the screen makes a client a stranger.      *)
LEMMA PhaseKept ==
  ASSUME NEW cl, "phase" \in DOMAIN cl, NEW msg
  PROVE  /\ "phase" \in DOMAIN C!process_server_command(cl, msg)
         /\ C!process_server_command(cl, msg).phase \in {cl.phase, "exited", "crashed"}
         /\ "phase" \in DOMAIN C!display_ui(cl)
         /\ C!display_ui(cl).phase \in {cl.phase, "crashed"}
<1>1. /\ "phase" \in DOMAIN C!Crashed(cl)
      /\ C!Crashed(cl).phase = "crashed"
  BY DEF C!Crashed
<1>2. \A id, name :
        /\ "phase" \in DOMAIN C!create_player(cl, id, name)
        /\ C!create_player(cl, id, name).phase = cl.phase
  BY DEF C!create_player
<1>3. \A id :
        /\ "phase" \in DOMAIN C!remove_player(cl, id)
        /\ C!remove_player(cl, id).phase \in {cl.phase, "crashed"}
  BY <1>1 DEF C!remove_player
<1>4. \A id, name :
        /\ "phase" \in DOMAIN C!change_name(cl, id, name)
        /\ C!change_name(cl, id, name).phase \in {cl.phase, "crashed"}
  BY <1>1 DEF C!change_name
<1>5. \A id :
        /\ "phase" \in DOMAIN C!lose_heart(cl, id)
        /\ C!lose_heart(cl, id).phase \in {cl.phase, "crashed"}
  BY <1>1 DEF C!lose_heart
<1>6. \A id :
        /\ "phase" \in DOMAIN C!naming_alert(cl, id)
        /\ C!naming_alert(cl, id).phase \in {cl.phase, "crashed"}
  BY <1>1 DEF C!naming_alert
<1>7. /\ "phase" \in DOMAIN C!restart_game(cl)
      /\ C!restart_game(cl).phase = cl.phase
  BY DEF C!restart_game
<1>8. /\ "phase" \in DOMAIN C!process_server_command(cl, msg)
      /\ C!process_server_command(cl, msg).phase \in {cl.phase, "exited", "crashed"}
  BY <1>2, <1>3, <1>4, <1>5, <1>6, <1>7 DEF C!process_server_command
<1>9. QED
  BY <1>1, <1>8 DEF C!display_ui

(* Taking one element out of a sequence. *)
LEMMA TakenOut ==
  ASSUME NEW S, NEW s \in Seq(S), NEW i \in 1 .. Len(s)
  PROVE  /\ RemoveAt(s, i) \in Seq(S)
         /\ Len(RemoveAt(s, i)) = Len(s) - 1
         /\ \A k \in 1 .. Len(s) - 1 :
              RemoveAt(s, i)[k] = IF k < i THEN s[k] ELSE s[k + 1]
<1>1. RemoveAt(s, i) = SubSeq(s, 1, i - 1) \o SubSeq(s, i + 1, Len(s))
  BY DEF RemoveAt
<1>2. /\ SubSeq(s, 1, i - 1) \in Seq(S) /\ Len(SubSeq(s, 1, i - 1)) = i - 1
      /\ \A k \in 1 .. i - 1 : SubSeq(s, 1, i - 1)[k] = s[k]
  BY SubSeqProperties
<1>3. /\ SubSeq(s, i + 1, Len(s)) \in Seq(S) /\ Len(SubSeq(s, i + 1, Len(s))) = Len(s) - i
      /\ \A k \in 1 .. Len(s) - i : SubSeq(s, i + 1, Len(s))[k] = s[i + k]
  BY SubSeqProperties
<1>4. ASSUME NEW a \in Seq(S), NEW b \in Seq(S)
      PROVE  /\ a \o b \in Seq(S) /\ Len(a \o b) = Len(a) + Len(b)
             /\ \A k \in 1 .. Len(a) + Len(b) :
                  (a \o b)[k] = IF k <= Len(a) THEN a[k] ELSE b[k - Len(a)]
  BY ConcatProperties
<1> DEFINE r == RemoveAt(s, i)
           a == SubSeq(s, 1, i - 1)
           b == SubSeq(s, i + 1, Len(s))
<1>5. /\ r \in Seq(S) /\ Len(r) = Len(s) - 1
      /\ \A k \in 1 .. Len(s) - 1 : r[k] = IF k <= i - 1 THEN a[k] ELSE b[k - (i - 1)]
  <2>1. /\ a \in Seq(S) /\ b \in Seq(S) /\ r = a \o b
        /\ Len(a) = i - 1 /\ Len(b) = Len(s) - i
    BY <1>1, <1>2, <1>3
  <2>2. /\ a \o b \in Seq(S) /\ Len(a \o b) = Len(a) + Len(b)
        /\ \A k \in 1 .. Len(a) + Len(b) :
             (a \o b)[k] = IF k <= Len(a) THEN a[k] ELSE b[k - Len(a)]
    BY <1>4, <2>1
  <2> HIDE DEF r, a, b
  <2>3. Len(a) + Len(b) = Len(s) - 1
    BY <2>1
  <2>4. QED
    BY ONLY <2>1, <2>2, <2>3
<1>6. \A k \in 1 .. Len(s) - 1 : r[k] = IF k < i THEN s[k] ELSE s[k + 1]
  <2> TAKE k \in 1 .. Len(s) - 1
  <2> HIDE DEF r
  <2>1. CASE k < i
    BY <1>2, <1>5, <2>1
  <2>2. CASE ~(k < i)
    <3>1. k - (i - 1) \in 1 .. Len(s) - i /\ i + (k - (i - 1)) = k + 1
      BY <2>2
    <3>2. SubSeq(s, i + 1, Len(s))[k - (i - 1)] = s[k + 1]
      BY <1>3, <3>1
    <3>3. QED
      BY <1>5, <2>2, <3>2
  <2>3. QED
    BY <2>1, <2>2
<1>7. QED
  BY <1>5, <1>6

(* Taking a client off a list in which it stands once. *)
LEMMA OffTheList ==
  ASSUME NEW S, NEW s \in Seq(S), IsInjective(s), NEW i \in 1 .. Len(s)
  PROVE  /\ RemoveFirst(s, s[i]) \in Seq(S)
         /\ Len(RemoveFirst(s, s[i])) = Len(s) - 1
         /\ \A k \in 1 .. Len(s) - 1 :
              RemoveFirst(s, s[i])[k] = IF k < i THEN s[k] ELSE s[k + 1]
<1> DEFINE I == {k \in 1 .. Len(s) : s[k] = s[i]}
<1>1. I = {i}
  BY DEF IsInjective
<1>2. Min(I) = i
  BY <1>1 DEF Min
<1>3. SelectInSeq(s, LAMBDA v : v = s[i]) = i
  BY <1>1, <1>2 DEF SelectInSeq
<1>4. RemoveFirst(s, s[i]) = RemoveAt(s, i)
  BY <1>3 DEF RemoveFirst
<1>5. QED
  BY <1>4, TakenOut

(* What a client is told, or draws, makes nobody a stranger. *)
LEMMA Told ==
  ASSUME NEW ids, NEW msg, Tell(ids, msg), PartyTypes
  PROVE  /\ \A id \in Id : "phase" \in DOMAIN client'[id] /\ client'[id].phase \in C!Phase
         /\ Stranger' \subseteq Stranger
         /\ \A id \in Id : Ended(id) => Ended(id)'
         /\ \A id \in Id : client'[id].phase = "naming" => client[id].phase = "naming"
<1> DEFINE now == [id \in Id |-> IF id \in ids /\ client[id].phase = "main"
                                   THEN C!process_server_command(client[id], msg)
                                   ELSE client[id]]
           drawn == [id \in Id |-> IF id \in ids /\ now[id].phase = "main"
                                     THEN C!display_ui(now[id]) ELSE now[id]]
<1>1. PICK draw \in SUBSET {id \in Id : drawn[id] # now[id]} :
        client' = [id \in Id |-> IF id \in draw THEN drawn[id] ELSE now[id]]
  BY DEF Tell
<1>2. ASSUME NEW id \in Id
      PROVE  /\ "phase" \in DOMAIN client'[id] /\ client'[id].phase \in C!Phase
             /\ client'[id].phase = "greet" => client[id].phase = "greet"
             /\ client'[id].phase = "naming" => client[id].phase = "naming"
             /\ Ended(id) => client'[id].phase = client[id].phase
  <2>1. "phase" \in DOMAIN client[id] /\ client[id].phase \in C!Phase
    BY DEF PartyTypes
  <2>2. /\ "phase" \in DOMAIN now[id]
        /\ now[id].phase \in {client[id].phase, "exited", "crashed"}
        /\ client[id].phase # "main" => now[id] = client[id]
    <3>1. CASE id \in ids /\ client[id].phase = "main"
      <4>1. now[id] = C!process_server_command(client[id], msg)
        BY <3>1
      <4> HIDE DEF now
      <4>2. QED
        BY <2>1, <3>1, <4>1, PhaseKept
    <3>2. CASE ~(id \in ids /\ client[id].phase = "main")
      BY <2>1, <3>2
    <3>3. QED
      BY <3>1, <3>2
  <2>3. /\ "phase" \in DOMAIN drawn[id]
        /\ drawn[id].phase \in {now[id].phase, "crashed"}
        /\ now[id].phase # "main" => drawn[id] = now[id]
    <3>1. CASE id \in ids /\ now[id].phase = "main"
      <4>1. drawn[id] = C!display_ui(now[id])
        BY <3>1
      <4> HIDE DEF now, drawn
      <4>2. QED
        BY <2>2, <3>1, <4>1, PhaseKept
    <3>2. CASE ~(id \in ids /\ now[id].phase = "main")
      <4>1. drawn[id] = now[id]
        BY <3>2
      <4>2. QED
        BY <2>2, <4>1
    <3>3. QED
      BY <3>1, <3>2
  <2>4. client'[id] \in {drawn[id], now[id]}
    BY <1>1
  <2> HIDE DEF now, drawn
  <2>5. QED
    BY <2>1, <2>2, <2>3, <2>4 DEF C!Phase, Ended
<1>3. QED
  BY <1>2 DEF Stranger, Ended

(* A message that enters the queue to the logic thread, or is lost. *)
LEMMA Enqueued ==
  ASSUME NEW msg \in LogicMsg, Enqueue(msg), PartyTypes
  PROVE  /\ to_logic' \in Seq(LogicMsg) /\ Len(to_logic') <= QUEUE_ROOM
         /\ \/ lost' /\ to_logic' = to_logic
            \/ /\ lost' = lost
               /\ Len(to_logic') = Len(to_logic) + 1
               /\ \A k \in 1 .. Len(to_logic) : to_logic'[k] = to_logic[k]
               /\ to_logic'[Len(to_logic) + 1] = msg
<1>1. to_logic \in Seq(LogicMsg) /\ Len(to_logic) <= QUEUE_ROOM
  BY DEF PartyTypes
<1>2. CASE Len(to_logic) < QUEUE_ROOM
  <2>1. to_logic' = Append(to_logic, msg) /\ lost' = lost
    BY <1>2 DEF Enqueue
  <2>2. /\ to_logic' \in Seq(LogicMsg)
        /\ Len(to_logic') = Len(to_logic) + 1
        /\ \A k \in 1 .. Len(to_logic) : to_logic'[k] = to_logic[k]
        /\ to_logic'[Len(to_logic) + 1] = msg
    BY <1>1, <2>1, AppendProperties
  <2>3. Len(to_logic') <= QUEUE_ROOM
    BY <1>1, <1>2, <2>2, PartyAssumption
  <2>4. QED
    BY <2>1, <2>2, <2>3
<1>3. CASE ~(Len(to_logic) < QUEUE_ROOM)
  BY <1>1, <1>3 DEF Enqueue
<1>4. QED
  BY <1>2, <1>3

(* What a message about somebody the logic thread knows, or a newcomer's   *)
(* report, does to the order of the queue.                                 *)
LEMMA QueueGrows ==
  ASSUME NEW msg \in LogicMsg, Enqueue(msg), PartyTypes, QueueInOrder, connected' = connected,
         IF msg[1] = "T_PLAYER_JOIN"
           THEN /\ msg[2] \notin connected
                /\ \A j \in 1 .. Len(to_logic) : to_logic[j][2] # msg[2]
           ELSE /\ KnownBefore(Len(to_logic) + 1, msg[2])
                /\ \A j \in 1 .. Len(to_logic) : ~Leaves(j, msg[2])
  PROVE  /\ QueueInOrder'
         /\ ~lost' =>
              \A id \in Id :
                /\ \/ KnownBefore(Len(to_logic) + 1, id)
                   \/ msg = <<"T_PLAYER_JOIN", id>>
                   => KnownBefore(Len(to_logic) + 1, id)'
                /\ /\ \A k \in 1 .. Len(to_logic) : ~Leaves(k, id)
                   /\ msg # <<"T_PLAYER_LEFT", id>>
                   => \A k \in 1 .. Len(to_logic') : ~Leaves(k, id)'
<1> DEFINE n == Len(to_logic)
<1>1. n \in Nat
  BY DEF PartyTypes
<1>2. CASE lost' /\ to_logic' = to_logic
  BY <1>2 DEF QueueInOrder, KnownBefore, Joins, Leaves
<1>3. CASE /\ lost' = lost
           /\ Len(to_logic') = n + 1
           /\ \A k \in 1 .. n : to_logic'[k] = to_logic[k]
           /\ to_logic'[n + 1] = msg
  <2> HIDE DEF n
  <2>1. ASSUME NEW k \in 1 .. n + 1, NEW id
        PROVE  /\ KnownBefore(k, id)' <=> KnownBefore(k, id)
               /\ (\A j \in 1 .. k - 1 : ~Leaves(j, id)) <=> (\A j \in 1 .. k - 1 : ~Leaves(j, id)')
    <3>1. \A j \in 1 .. k - 1 : to_logic'[j] = to_logic[j]
      BY <1>1, <1>3
    <3>2. QED
      BY <3>1 DEF KnownBefore, Joins, Leaves
  <2>2. ASSUME NEW k \in 1 .. n + 1, NEW m, m = to_logic'[k]
        PROVE  IF m[1] = "T_PLAYER_JOIN"
                 THEN /\ m[2] \notin connected'
                      /\ \A j \in 1 .. k - 1 : to_logic'[j][2] # m[2]
                 ELSE /\ KnownBefore(k, m[2])'
                      /\ \A j \in 1 .. k - 1 : ~Leaves(j, m[2])'
    <3>1. \A j \in 1 .. k - 1 : to_logic'[j] = to_logic[j]
      BY <1>1, <1>3
    <3>2. IF m[1] = "T_PLAYER_JOIN"
            THEN /\ m[2] \notin connected
                 /\ \A j \in 1 .. k - 1 : to_logic[j][2] # m[2]
            ELSE /\ KnownBefore(k, m[2])
                 /\ \A j \in 1 .. k - 1 : ~Leaves(j, m[2])
      <4>1. CASE k \in 1 .. n
        <5>1. m = to_logic[k]
          BY <1>3, <2>2, <4>1
        <5>2. QED
          BY <4>1, <5>1 DEF QueueInOrder, n
      <4>2. CASE k = n + 1
        <5>1. m = msg /\ k - 1 = n
          BY <1>1, <1>3, <2>2, <4>2
        <5>2. QED
          BY <4>2, <5>1 DEF n
      <4>3. QED
        BY <1>1, <4>1, <4>2
    <3>3. /\ KnownBefore(k, m[2])' <=> KnownBefore(k, m[2])
          /\ (\A j \in 1 .. k - 1 : ~Leaves(j, m[2]))
               <=> (\A j \in 1 .. k - 1 : ~Leaves(j, m[2])')
      BY <2>1
    <3>4. QED
      BY <3>1, <3>2, <3>3
  <2>6. QueueInOrder'
    BY <1>3, <2>2 DEF QueueInOrder
  <2>3. ASSUME NEW id \in Id, KnownBefore(n + 1, id) \/ msg = <<"T_PLAYER_JOIN", id>>
        PROVE  KnownBefore(n + 1, id)'
    <3>1. (n + 1)' - 1 = n + 1 /\ n + 1 \in 1 .. n + 1
      BY <1>1, <1>3 DEF n
    <3>2. CASE KnownBefore(n + 1, id)
      <4>1. id \in connected' \/ \E j \in 1 .. n : to_logic'[j] = <<"T_PLAYER_JOIN", id>>
        BY <1>1, <1>3, <3>2 DEF KnownBefore, Joins
      <4>2. QED
        BY <1>1, <3>1, <4>1 DEF KnownBefore, Joins
    <3>3. CASE msg = <<"T_PLAYER_JOIN", id>>
      BY <1>3, <3>1, <3>3 DEF KnownBefore, Joins
    <3>4. QED
      BY <2>3, <3>2, <3>3
  <2>4. ASSUME NEW id \in Id, \A k \in 1 .. n : ~Leaves(k, id), msg # <<"T_PLAYER_LEFT", id>>
        PROVE  \A k \in 1 .. Len(to_logic') : ~Leaves(k, id)'
    <3>1. \A k \in 1 .. n + 1 : k \in 1 .. n \/ k = n + 1
      BY <1>1
    <3>2. \A k \in 1 .. n + 1 : to_logic'[k] # <<"T_PLAYER_LEFT", id>>
      BY <1>3, <2>4, <3>1 DEF Leaves
    <3>3. QED
      BY <1>3, <3>2 DEF Leaves
  <2>5. QED
    BY <2>6, <2>3, <2>4 DEF n
<1>4. QED
  BY <1>2, <1>3, Enqueued

----------------------------------------------------------------------------
(* What the logic thread keeps; sent, which the queue takes, is not its.   *)
logicState == <<playing, clocks, step, fault, clients>>

(* Handling the queue's first message is one of the steps of GameLogic, and *)
(* changes who is connected as that message says.                           *)
LEMMA HandledStep ==
  ASSUME NEW msg \in LogicMsg, Handle(msg)
  PROVE  /\ Next
         /\ \/ /\ msg = <<"T_PLAYER_JOIN", msg[2]>>
               /\ connected' = connected \cup {msg[2]}
            \/ /\ msg = <<"T_PLAYER_LEFT", msg[2]>>
               /\ connected' = connected \ {msg[2]}
            \/ msg[1] = "T_SEND_WORD" /\ connected' = connected
<1>1. /\ msg[2] \in Id
      /\ \/ msg[1] = "T_PLAYER_JOIN" /\ msg = <<"T_PLAYER_JOIN", msg[2]>>
         \/ msg[1] = "T_PLAYER_LEFT" /\ msg = <<"T_PLAYER_LEFT", msg[2]>>
         \/ msg[1] = "T_SEND_WORD" /\ msg[3] \in Word
  BY MsgShape
<1>2. CASE msg[1] = "T_PLAYER_JOIN"
  <2>1. Join(msg[2]) \/ JoinRefused(msg[2])
    BY <1>2 DEF Handle
  <2>2. connected' = connected \cup {msg[2]}
    BY <2>1 DEF Join, JoinRefused
  <2>3. Next
    BY <1>1, <2>1 DEF Next, Message
  <2>4. QED
    BY <1>1, <1>2, <2>2, <2>3
<1>3. CASE msg[1] = "T_PLAYER_LEFT"
  <2>1. Left(msg[2])
    BY <1>3 DEF Handle
  <2>2. connected' = connected \ {msg[2]}
    BY <2>1 DEF Left
  <2>3. Next
    BY <1>1, <2>1 DEF Next, Message
  <2>4. QED
    BY <1>1, <1>3, <2>2, <2>3
<1>4. CASE msg[1] = "T_SEND_WORD"
  <2>1. \/ WordWithoutTurn(msg[2])
        \/ WordOutOfTurn(msg[2])
        \/ WordWrong(msg[2], msg[3])
        \/ WordRight(msg[2], msg[3])
    BY <1>4 DEF Handle
  <2>2. connected' = connected
    BY <2>1 DEF WordWithoutTurn, WordOutOfTurn, WordWrong, WordRight, PassTurn, Die, clients
  <2>3. Next
    BY <1>1, <1>4, <2>1 DEF Next, Message
  <2>4. QED
    BY <1>4, <2>2, <2>3
<1>5. QED
  BY <1>1, <1>2, <1>3, <1>4

(* Every step of the program is a step of GameLogic, or leaves what the    *)
(* logic thread keeps alone.                                               *)
LEMMA LogicIsGameLogic ==
  ASSUME PartyTypes, [PartyNext]_partyVars
  PROVE  Next \/ UNCHANGED logicState
<1>1. CASE SendNext
  BY <1>1 DEF SendNext, logicState
<1>2. CASE OwnStep \/ StartTyped \/ AllHandled
  BY <1>2 DEF OwnStep, StartTyped, AllHandled, LogicStep, Next, Terminal
<1>3. CASE HandleNext
  <2>1. to_logic # <<>> /\ to_logic \in Seq(LogicMsg)
    BY <1>3 DEF HandleNext, PartyTypes
  <2>2. Head(to_logic) \in LogicMsg
    BY <2>1
  <2>3. Handle(Head(to_logic))
    BY <1>3 DEF HandleNext, LogicStep
  <2>4. QED
    BY <2>2, <2>3, HandledStep
<1>4. CASE NetworkThread
  BY <1>4 DEF NetworkThread, Select, Relay, RelayDone, Accept, ServeWord, ServeEnd, Serving,
              ClientsDone, NetStep, vars, logicState
<1>5. CASE People \/ Over \/ UNCHANGED partyVars
  BY <1>5 DEF People, Over, partyVars, vars, logicState
<1>6. QED
  BY <1>1, <1>2, <1>3, <1>4, <1>5 DEF PartyNext, LogicThread

(* So whatever GameLogic keeps true of itself stays true in the program.   *)
LEMMA LogicKeepsIInv ==
  ASSUME PartyTypes, IInv, [PartyNext]_partyVars
  PROVE  IInv'
<1>1. CASE Next
  BY <1>1, NextIInv
<1>2. CASE UNCHANGED logicState
  <2>1. /\ UNCHANGED <<playing, clocks, fault>>
        /\ step' = step /\ connected' = connected /\ told' = told
    BY <1>2 DEF logicState, clients
  <2>2. step \in {"terminal", "messages", "clock"} /\ connected \subseteq Id /\ told \subseteq connected
    BY DEF IInv, TypeOK
  <2>3. QED
    BY <2>1, <2>2, QuietStep
<1>3. QED
  BY <1>1, <1>2, LogicIsGameLogic

(* The rest of the invariant, which is about the two threads.              *)
Threads == PartyTypes /\ QueueInOrder /\ StrangersAreUnknown /\ ListIsReported

(* A step that touches neither the list, the queue to the logic thread nor *)
(* who is connected, and makes no stranger.                                *)
LEMMA ThreadsUntouched ==
  ASSUME Threads, PartyTypes',
         UNCHANGED <<to_logic, list, connected>>, lost => lost',
         Stranger' \subseteq Stranger
  PROVE  Threads'
<1>1. QueueInOrder'
  BY DEF Threads, QueueInOrder, KnownBefore, Joins, Leaves
<1>2. StrangersAreUnknown'
  BY DEF Threads, StrangersAreUnknown
<1>3. ListIsReported'
  BY DEF Threads, ListIsReported, KnownBefore, Joins, Leaves
<1>4. QED
  BY <1>1, <1>2, <1>3 DEF Threads

LEMMA HandleNextThreads ==
  ASSUME Threads, HandleNext
  PROVE  Threads'
<1> DEFINE n == Len(to_logic)
           msg == Head(to_logic)
<1>1. /\ to_logic # <<>> /\ Handle(msg) /\ to_logic' = Tail(to_logic)
      /\ UNCHANGED <<to_net, lost, pc, reads, list, client, outbox>>
  BY DEF HandleNext, LogicStep, network, outside
<1>2. /\ to_logic \in Seq(LogicMsg) /\ n <= QUEUE_ROOM
  BY DEF Threads, PartyTypes
<1>3. /\ n \in Nat \ {0} /\ msg \in LogicMsg /\ msg = to_logic[1]
      /\ to_logic' \in Seq(LogicMsg) /\ Len(to_logic') = n - 1
      /\ \A k \in 1 .. n - 1 : to_logic'[k] = to_logic[k + 1]
  BY <1>1, <1>2
<1>4. \/ /\ msg = <<"T_PLAYER_JOIN", msg[2]>>
         /\ connected' = connected \cup {msg[2]}
      \/ /\ msg = <<"T_PLAYER_LEFT", msg[2]>>
         /\ connected' = connected \ {msg[2]}
      \/ msg[1] = "T_SEND_WORD" /\ connected' = connected
  BY <1>1, <1>3, HandledStep
<1>5. PartyTypes'
  <2>1. Len(to_logic') <= QUEUE_ROOM
    BY <1>2, <1>3, PartyAssumption
  <2>2. QED
    BY <1>1, <1>3, <2>1 DEF Threads, PartyTypes, IsSeq
<1> HIDE DEF n, msg
<1>6. ASSUME NEW k \in 0 .. n - 1, NEW id, KnownBefore(k + 2, id), \A j \in 1 .. k + 1 : ~Leaves(j, id)
      PROVE  KnownBefore(k + 1, id)' /\ \A j \in 1 .. k : ~Leaves(j, id)'
  <2>1. \A j \in 1 .. k : to_logic'[j] = to_logic[j + 1]
    BY <1>3
  <2>2. \A j \in 1 .. k : ~Leaves(j, id)'
    BY <1>6, <2>1 DEF Leaves
  <2>3. msg # <<"T_PLAYER_LEFT", id>>
    BY <1>3, <1>6 DEF Leaves
  <2>4. CASE id \in connected
    <3>1. msg = <<"T_PLAYER_LEFT", msg[2]>> => msg[2] # id
      BY <2>3
    <3>2. id \in connected'
      BY <1>4, <2>4, <3>1
    <3>3. QED
      BY <2>2, <3>2 DEF KnownBefore
  <2>5. CASE msg = <<"T_PLAYER_JOIN", id>>
    <3>1. msg[1] = "T_PLAYER_JOIN" /\ msg[2] = id
      BY <2>5
    <3>2. msg # <<"T_PLAYER_LEFT", msg[2]>>
      BY <3>1
    <3>3. id \in connected'
      BY <1>4, <3>1, <3>2
    <3>4. QED
      BY <2>2, <3>3 DEF KnownBefore
  <2>6. ASSUME NEW j \in 2 .. k + 1, Joins(j, id)
        PROVE  KnownBefore(k + 1, id)'
    <3>1. j - 1 \in 1 .. k /\ to_logic'[j - 1] = to_logic[j]
      BY <1>3, <2>1
    <3>2. Joins(j - 1, id)'
      BY <2>6, <3>1 DEF Joins
    <3>3. QED
      BY <3>1, <3>2 DEF KnownBefore
  <2>7. id \in connected \/ \E j \in 1 .. k + 1 : Joins(j, id)
    BY <1>6 DEF KnownBefore
  <2>8. \A j \in 1 .. k + 1 : j = 1 \/ j \in 2 .. k + 1
    OBVIOUS
  <2>9. Joins(1, id) => msg = <<"T_PLAYER_JOIN", id>>
    BY <1>3 DEF Joins
  <2>10. QED
    BY <2>2, <2>4, <2>5, <2>6, <2>7, <2>8, <2>9
<1>7. QueueInOrder'
  <2>1. ASSUME NEW k \in 1 .. n - 1, NEW m, m = to_logic'[k]
        PROVE  IF m[1] = "T_PLAYER_JOIN"
                 THEN /\ m[2] \notin connected'
                      /\ \A j \in 1 .. k - 1 : to_logic'[j][2] # m[2]
                 ELSE /\ KnownBefore(k, m[2])'
                      /\ \A j \in 1 .. k - 1 : ~Leaves(j, m[2])'
    <3>1. m = to_logic[k + 1] /\ k + 1 \in 1 .. n /\ (k + 1) - 1 = k
      BY <1>3, <2>1
    <3>2. IF m[1] = "T_PLAYER_JOIN"
            THEN /\ m[2] \notin connected
                 /\ \A j \in 1 .. k : to_logic[j][2] # m[2]
            ELSE /\ KnownBefore(k + 1, m[2])
                 /\ \A j \in 1 .. k : ~Leaves(j, m[2])
      BY <3>1 DEF Threads, QueueInOrder, n
    <3>3. CASE m[1] = "T_PLAYER_JOIN"
      <4>1. msg[2] # m[2]
        BY <1>3, <3>2, <3>3
      <4>2. m[2] \notin connected'
        BY <1>4, <3>2, <3>3, <4>1
      <4>3. \A j \in 1 .. k - 1 : to_logic'[j] = to_logic[j + 1] /\ j + 1 \in 1 .. k
        BY <1>3
      <4>4. QED
        BY <3>2, <3>3, <4>2, <4>3
    <3>4. CASE m[1] # "T_PLAYER_JOIN"
      <4>1. k - 1 \in 0 .. n - 1 /\ (k - 1) + 2 = k + 1 /\ (k - 1) + 1 = k
        BY <1>3
      <4>2. KnownBefore((k - 1) + 1, m[2])' /\ \A j \in 1 .. k - 1 : ~Leaves(j, m[2])'
        BY <1>6, <3>2, <3>4, <4>1
      <4>3. QED
        BY <3>4, <4>1, <4>2
    <3>5. QED
      BY <3>3, <3>4
  <2>2. QED
    BY <1>3, <2>1 DEF QueueInOrder
<1>8. StrangersAreUnknown'
  <2>1. Stranger' = Stranger /\ Range(list)' = Range(list)
    BY <1>1 DEF Stranger
  <2>2. ASSUME NEW id \in Stranger
        PROVE  /\ id \notin Range(list)
               /\ id \notin connected'
               /\ \A k \in 1 .. Len(to_logic') : to_logic'[k][2] # id
    <3>1. /\ id \notin Range(list) /\ id \notin connected
          /\ \A k \in 1 .. n : to_logic[k][2] # id
      BY DEF Threads, StrangersAreUnknown, n
    <3>2. msg[2] # id
      BY <1>3, <3>1
    <3>3. id \notin connected'
      BY <1>4, <3>1, <3>2
    <3>4. \A k \in 1 .. n - 1 : to_logic'[k] = to_logic[k + 1] /\ k + 1 \in 1 .. n
      BY <1>3
    <3>5. QED
      BY <1>3, <3>1, <3>3, <3>4
  <2>3. QED
    BY <2>1, <2>2 DEF StrangersAreUnknown
<1>9. ListIsReported'
  <2>1. Range(list)' = Range(list)
    BY <1>1
  <2>2. ASSUME ~lost', NEW id \in Range(list), NEW k \in Nat, k = Len(to_logic')
        PROVE  KnownBefore(k + 1, id)' /\ \A j \in 1 .. k : ~Leaves(j, id)'
    <3>1. KnownBefore(n + 1, id) /\ \A j \in 1 .. n : ~Leaves(j, id)
      BY <1>1, <2>2 DEF Threads, ListIsReported, n
    <3>2. k \in 0 .. n - 1 /\ k + 2 = n + 1 /\ k + 1 = n
      BY <1>3, <2>2
    <3>3. QED
      BY <1>6, <3>1, <3>2
  <2>3. Len(to_logic') \in Nat
    BY <1>3
  <2>4. QED
    BY <2>1, <2>2, <2>3 DEF ListIsReported
<1>10. QED
  BY <1>5, <1>7, <1>8, <1>9 DEF Threads

LEMMA OwnThreads ==
  ASSUME Threads, OwnStep \/ StartTyped \/ AllHandled
  PROVE  Threads'
<1>1. UNCHANGED <<to_logic, to_net, lost, pc, reads, list, client, outbox>>
  BY DEF OwnStep, StartTyped, AllHandled, LogicStep, network, outside
<1>2. connected' = connected
  <2>1. \/ NoLine \/ StartRefused \/ Clock
        \/ Start \/ StartThroughFreed
        \/ NoMoreMessages
    BY DEF OwnStep, StartTyped, AllHandled, LogicStep
  <2>2. QED
    BY <2>1 DEF NoLine, StartRefused, Clock, Lobby, Countdown, TimeOut, TimeOutThroughFreed,
                EndFrame, Die, Start, PassTurn, StartThroughFreed, NoMoreMessages, clients
<1>3. PartyTypes'
  BY <1>1 DEF Threads, PartyTypes, IsSeq
<1>4. Stranger' = Stranger
  BY <1>1 DEF Stranger
<1>5. QED
  BY <1>1, <1>2, <1>3, <1>4, ThreadsUntouched

LEMMA SendNextThreads ==
  ASSUME Threads, SendNext
  PROVE  Threads'
<1>1. /\ UNCHANGED <<to_logic, pc, reads, list, client, outbox, connected>>
      /\ lost => lost'
  BY DEF SendNext, network, outside, clients
<1>2. IsSeq(to_net') /\ Len(to_net') <= QUEUE_ROOM
  <2>1. IsSeq(to_net) /\ Len(to_net) <= QUEUE_ROOM
    BY DEF Threads, PartyTypes
  <2>2. CASE to_net' = to_net
    BY <2>1, <2>2
  <2>3. CASE to_net' = Append(to_net, Head(sent)) /\ Len(to_net) < QUEUE_ROOM
    <3>1. IsSeq(to_net') /\ Len(to_net') = Len(to_net) + 1 /\ Len(to_net) \in Nat
      BY <2>1, <2>3, SeqOps DEF IsSeq
    <3>2. QED
      BY <2>3, <3>1, PartyAssumption
  <2>4. QED
    BY <2>2, <2>3 DEF SendNext
<1>3. PartyTypes'
  BY <1>1, <1>2 DEF Threads, PartyTypes, IsSeq
<1>4. Stranger' = Stranger
  BY <1>1 DEF Stranger
<1>5. QED
  BY <1>1, <1>3, <1>4, ThreadsUntouched

LEMMA PeopleThreads ==
  ASSUME Threads, People
  PROVE  Threads'
<1>1. /\ UNCHANGED <<to_logic, to_net, lost, pc, reads, list, connected>>
      /\ \E id \in Id : Quit(id) \/ \E word \in Word : Type(id, word)
  BY DEF People, vars, clients, network
<1>2. ASSUME NEW id \in Id, Quit(id)
      PROVE  PartyTypes' /\ Stranger' \subseteq Stranger
  <2>1. /\ client' = [client EXCEPT ![id].phase = "exited"]
        /\ outbox' = outbox
        /\ \A other \in Id : "phase" \in DOMAIN client[other] /\ client[other].phase \in C!Phase
    BY <1>2 DEF Quit, Threads, PartyTypes
  <2>2. ASSUME NEW other \in Id
        PROVE  /\ "phase" \in DOMAIN client'[other]
               /\ client'[other].phase \in {client[other].phase, "exited"}
               /\ other # id => client'[other] = client[other]
    BY <2>1
  <2>3. "exited" \in C!Phase
    BY DEF C!Phase
  <2>4. PartyTypes'
    BY <1>1, <2>1, <2>2, <2>3 DEF Threads, PartyTypes, IsSeq
  <2>5. QED
    BY <2>2, <2>4 DEF Stranger
<1>3. ASSUME NEW id \in Id, NEW word \in Word, Type(id, word)
      PROVE  PartyTypes' /\ Stranger' \subseteq Stranger
  <2>1. /\ client' = client
        /\ outbox' = [outbox EXCEPT ![id] = <<word>>]
        /\ outbox \in [Id -> Seq(Word)]
    BY <1>3 DEF Type, Threads, PartyTypes
  <2>2. outbox' \in [Id -> Seq(Word)]
    BY <2>1
  <2>3. QED
    BY <1>1, <2>1, <2>2 DEF Threads, PartyTypes, IsSeq, Stranger
<1>4. QED
  BY <1>1, <1>2, <1>3, ThreadsUntouched

LEMMA LoopThreads ==
  ASSUME Threads, Select \/ RelayDone \/ ClientsDone
  PROVE  Threads'
<1>1. /\ UNCHANGED <<to_logic, to_net, lost, list, client, outbox, connected>>
      /\ pc' \in {"select", "thread", "accept", "clients"}
  BY DEF Select, RelayDone, ClientsDone, NetStep, vars, clients
<1>2. PartyTypes'
  BY <1>1 DEF Threads, PartyTypes, IsSeq
<1>3. QED
  BY <1>1, <1>2, ThreadsUntouched DEF Stranger

LEMMA RelayThreads ==
  ASSUME Threads, Relay
  PROVE  Threads'
<1>1. /\ UNCHANGED <<to_logic, lost, pc, list, outbox, connected>>
      /\ to_net # <<>> /\ to_net' = Tail(to_net)
  BY DEF Relay, NetStep, network, vars, clients
<1>2. \E ids, msg : Tell(ids, msg)
  BY DEF Relay
<1>3. /\ \A id \in Id : "phase" \in DOMAIN client'[id] /\ client'[id].phase \in C!Phase
      /\ Stranger' \subseteq Stranger
  BY <1>2, Told DEF Threads
<1>4. IsSeq(to_net') /\ Len(to_net') <= QUEUE_ROOM
  <2>1. IsSeq(to_net) /\ Len(to_net) <= QUEUE_ROOM
    BY DEF Threads, PartyTypes
  <2>2. IsSeq(to_net') /\ Len(to_net') = Len(to_net) - 1 /\ Len(to_net) \in Nat
    BY <1>1, <2>1, SeqOps DEF IsSeq
  <2>3. QED
    BY <2>1, <2>2, PartyAssumption
<1>5. PartyTypes'
  BY <1>1, <1>3, <1>4 DEF Threads, PartyTypes
<1>6. QED
  BY <1>1, <1>3, <1>5, ThreadsUntouched

(* Letting somebody in: the list, the queue and the clients change at once. *)
LEMMA AcceptThreads ==
  ASSUME Threads, Accept
  PROVE  Threads'
<1>1. PICK id \in Stranger :
        /\ Enqueue(<<"T_PLAYER_JOIN", id>>)
        /\ list' = Append(list, id)
        /\ client' = [other \in Id |->
                        IF other = id THEN Welcomed(id)
                        ELSE IF other \in Range(list) /\ ~Ended(other)
                          THEN C!create_player(client[other], id, <<>>)
                        ELSE client[other]]
  BY DEF Accept, ReportJoin
<1>2. /\ UNCHANGED <<to_net, outbox, connected>> /\ pc' = "clients" /\ Running
  BY DEF Accept, NetStep, vars, clients
<1>3. /\ id \in Id /\ id \notin Range(list) /\ id \notin connected
      /\ \A k \in 1 .. Len(to_logic) : to_logic[k][2] # id
  BY DEF Threads, StrangersAreUnknown, Stranger
<1> DEFINE msg == <<"T_PLAYER_JOIN", id>>
<1>4. msg \in LogicMsg /\ msg[1] = "T_PLAYER_JOIN" /\ msg[2] = id
  BY <1>3 DEF LogicMsg
<1>5. /\ list \in Seq(Id) /\ IsInjective(list)
  BY DEF Threads, PartyTypes
<1>6. /\ list' \in Seq(Id) /\ Len(list') = Len(list) + 1
      /\ \A k \in 1 .. Len(list) : list'[k] = list[k]
      /\ list'[Len(list) + 1] = id
  BY <1>1, <1>3, <1>5, AppendProperties
<1>7. Range(list') = Range(list) \cup {id} /\ IsInjective(list')
  <2>1. DOMAIN list = 1 .. Len(list) /\ DOMAIN list' = 1 .. Len(list) + 1 /\ Len(list) \in Nat
    BY <1>5, <1>6
  <2>2. \A k \in 1 .. Len(list) + 1 : k \in 1 .. Len(list) \/ k = Len(list) + 1
    BY <2>1
  <2>3. Range(list') = Range(list) \cup {id}
    BY <1>6, <2>1, <2>2 DEF Range
  <2>4. \A k \in 1 .. Len(list) : list[k] # id
    BY <1>3, <2>1 DEF Range
  <2>5. ASSUME NEW a \in 1 .. Len(list) + 1, NEW b \in 1 .. Len(list) + 1, list'[a] = list'[b]
        PROVE  a = b
    <3>1. CASE a \in 1 .. Len(list) /\ b \in 1 .. Len(list)
      BY <1>5, <1>6, <2>1, <2>5, <3>1 DEF IsInjective
    <3>2. CASE ~(a \in 1 .. Len(list)) \/ ~(b \in 1 .. Len(list))
      BY <1>6, <2>2, <2>4, <2>5, <3>2
    <3>3. QED
      BY <3>1, <3>2
  <2>6. QED
    BY <2>1, <2>3, <2>5 DEF IsInjective
<1>8. /\ to_logic' \in Seq(LogicMsg) /\ Len(to_logic') <= QUEUE_ROOM
      /\ \/ lost' /\ to_logic' = to_logic
         \/ /\ lost' = lost
            /\ Len(to_logic') = Len(to_logic) + 1
            /\ \A k \in 1 .. Len(to_logic) : to_logic'[k] = to_logic[k]
            /\ to_logic'[Len(to_logic) + 1] = msg
  BY <1>1, <1>4, Enqueued DEF Threads
<1>9. ASSUME NEW other \in Id
      PROVE  /\ "phase" \in DOMAIN client'[other] /\ client'[other].phase \in C!Phase
             /\ client'[other].phase = "greet" <=> other # id /\ client[other].phase = "greet"
  <2>1. /\ "phase" \in DOMAIN client[other] /\ client[other].phase \in C!Phase
    BY DEF Threads, PartyTypes
  <2>2. CASE other = id
    <3>1. client'[other] = Welcomed(id)
      BY <1>1, <2>2
    <3>2. "phase" \in DOMAIN Welcomed(id) /\ Welcomed(id).phase = "main"
      BY DEF Welcomed, C!NewClient
    <3>3. QED
      BY <2>2, <3>1, <3>2 DEF C!Phase
  <2>3. CASE other # id
    <3>1. client'[other] \in {client[other], C!create_player(client[other], id, <<>>)}
      BY <1>1, <2>3
    <3>2. /\ "phase" \in DOMAIN C!create_player(client[other], id, <<>>)
          /\ C!create_player(client[other], id, <<>>).phase = client[other].phase
      BY <2>1 DEF C!create_player
    <3>3. QED
      BY <2>1, <2>3, <3>1, <3>2
  <2>4. QED
    BY <2>2, <2>3
<1>10. PartyTypes'
  BY <1>2, <1>6, <1>7, <1>8, <1>9 DEF Threads, PartyTypes
<1>11. Stranger' = Stranger \ {id}
  BY <1>9 DEF Stranger
<1>12. /\ QueueInOrder'
       /\ ~lost' =>
            \A other \in Id :
              /\ \/ KnownBefore(Len(to_logic) + 1, other)
                 \/ msg = <<"T_PLAYER_JOIN", other>>
                 => KnownBefore(Len(to_logic) + 1, other)'
              /\ /\ \A k \in 1 .. Len(to_logic) : ~Leaves(k, other)
                 /\ msg # <<"T_PLAYER_LEFT", other>>
                 => \A k \in 1 .. Len(to_logic') : ~Leaves(k, other)'
  BY <1>1, <1>2, <1>3, <1>4, QueueGrows DEF Threads
<1>13. StrangersAreUnknown'
  <2>1. ASSUME NEW other \in Stranger, other # id
        PROVE  /\ other \notin Range(list') /\ other \notin connected'
               /\ \A k \in 1 .. Len(to_logic') : to_logic'[k][2] # other
    <3>1. /\ other \notin Range(list) /\ other \notin connected
          /\ \A k \in 1 .. Len(to_logic) : to_logic[k][2] # other
      BY DEF Threads, StrangersAreUnknown
    <3>2. other \notin Range(list') /\ other \notin connected'
      BY <1>2, <1>7, <2>1, <3>1
    <3>3. \A k \in 1 .. Len(to_logic) + 1 : k \in 1 .. Len(to_logic) \/ k = Len(to_logic) + 1
      BY DEF Threads, PartyTypes
    <3>4. \A k \in 1 .. Len(to_logic') : to_logic'[k][2] # other
      BY <1>4, <1>8, <2>1, <3>1, <3>3
    <3>5. QED
      BY <3>2, <3>4
  <2>2. QED
    BY <1>11, <2>1 DEF StrangersAreUnknown
<1>14. ListIsReported'
  <2>1. ASSUME ~lost', NEW other \in Range(list')
        PROVE  KnownBefore(Len(to_logic) + 1, other)' /\ \A k \in 1 .. Len(to_logic') : ~Leaves(k, other)'
    <3>1. other \in Id
      BY <1>6, <2>1 DEF Range
    <3>2. msg # <<"T_PLAYER_LEFT", other>>
      BY <1>4
    <3>3. CASE other \in Range(list)
      <4>1. ~lost
        BY <1>2 DEF Running
      <4>2. /\ KnownBefore(Len(to_logic) + 1, other)
            /\ \A k \in 1 .. Len(to_logic) : ~Leaves(k, other)
        BY <3>3, <4>1 DEF Threads, ListIsReported
      <4>3. QED
        BY <1>12, <2>1, <3>1, <3>2, <4>2
    <3>4. CASE other = id
      <4>1. \A k \in 1 .. Len(to_logic) : ~Leaves(k, other)
        BY <1>3, <3>4 DEF Leaves
      <4>2. QED
        BY <1>12, <2>1, <3>1, <3>2, <3>4, <4>1
    <3>5. QED
      BY <1>7, <2>1, <3>3, <3>4
  <2>2. QED
    BY <2>1 DEF ListIsReported
<1>15. QED
  BY <1>10, <1>12, <1>13, <1>14 DEF Threads

(* What the thread reads of a client is from one in its list, which the    *)
(* logic thread has heard of.                                              *)
LEMMA Served ==
  ASSUME Threads, NEW id \in Id, Serving(id)
  PROVE  /\ UNCHANGED connected /\ ~lost
         /\ \E i \in 1 .. Len(list) : list[i] = id
         /\ KnownBefore(Len(to_logic) + 1, id)
         /\ \A k \in 1 .. Len(to_logic) : ~Leaves(k, id)
<1>1. UNCHANGED connected /\ ~lost /\ \E i \in 1 .. Len(list) : list[i] = id
  BY DEF Serving, NetStep, Running, vars, clients
<1>2. id \in Range(list)
  BY <1>1 DEF Threads, PartyTypes, Range
<1>3. QED
  BY <1>1, <1>2 DEF Threads, ListIsReported

LEMMA ServeWordThreads ==
  ASSUME Threads, NEW id \in Id, ServeWord(id)
  PROVE  Threads'
<1>1. /\ Serving(id) /\ outbox[id] # <<>>
      /\ Enqueue(<<"T_SEND_WORD", id, Head(outbox[id])>>)
      /\ outbox' = [outbox EXCEPT ![id] = Tail(@)]
      /\ UNCHANGED <<to_net, pc, list, client>>
  BY DEF ServeWord
<1>2. /\ outbox \in [Id -> Seq(Word)] /\ outbox[id] \in Seq(Word)
  BY DEF Threads, PartyTypes
<1>3. Head(outbox[id]) \in Word /\ Tail(outbox[id]) \in Seq(Word)
  BY <1>1, <1>2
<1> DEFINE msg == <<"T_SEND_WORD", id, Head(outbox[id])>>
<1>4. msg \in LogicMsg /\ msg[1] = "T_SEND_WORD" /\ msg[2] = id
  BY <1>3 DEF LogicMsg
<1>5. /\ UNCHANGED connected /\ ~lost
      /\ KnownBefore(Len(to_logic) + 1, id)
      /\ \A k \in 1 .. Len(to_logic) : ~Leaves(k, id)
  BY <1>1, Served
<1>6. /\ to_logic' \in Seq(LogicMsg) /\ Len(to_logic') <= QUEUE_ROOM
      /\ \/ lost' /\ to_logic' = to_logic
         \/ /\ lost' = lost
            /\ Len(to_logic') = Len(to_logic) + 1
            /\ \A k \in 1 .. Len(to_logic) : to_logic'[k] = to_logic[k]
            /\ to_logic'[Len(to_logic) + 1] = msg
  BY <1>1, <1>4, Enqueued DEF Threads
<1>7. outbox' \in [Id -> Seq(Word)]
  BY <1>1, <1>2, <1>3
<1>8. PartyTypes'
  BY <1>1, <1>6, <1>7 DEF Threads, PartyTypes, IsSeq
<1>9. /\ QueueInOrder'
      /\ ~lost' =>
           \A other \in Id :
             /\ \/ KnownBefore(Len(to_logic) + 1, other)
                \/ msg = <<"T_PLAYER_JOIN", other>>
                => KnownBefore(Len(to_logic) + 1, other)'
             /\ /\ \A k \in 1 .. Len(to_logic) : ~Leaves(k, other)
                /\ msg # <<"T_PLAYER_LEFT", other>>
                => \A k \in 1 .. Len(to_logic') : ~Leaves(k, other)'
  BY <1>1, <1>4, <1>5, QueueGrows DEF Threads
<1>10. \A other \in Range(list) : other \in Id
  BY DEF Threads, PartyTypes, Range
<1>11. Range(list)' = Range(list) /\ Stranger' = Stranger
  BY <1>1 DEF Stranger
<1>12. StrangersAreUnknown'
  <2>1. id \notin Stranger
    BY <1>1 DEF Serving, Threads, StrangersAreUnknown, PartyTypes, Range
  <2>2. ASSUME NEW other \in Stranger
        PROVE  /\ other \notin Range(list) /\ other \notin connected'
               /\ \A k \in 1 .. Len(to_logic') : to_logic'[k][2] # other
    <3>1. /\ other \notin Range(list) /\ other \notin connected /\ other # id
          /\ \A k \in 1 .. Len(to_logic) : to_logic[k][2] # other
      BY <2>1 DEF Threads, StrangersAreUnknown
    <3>2. \A k \in 1 .. Len(to_logic) + 1 : k \in 1 .. Len(to_logic) \/ k = Len(to_logic) + 1
      BY DEF Threads, PartyTypes
    <3>3. QED
      BY <1>4, <1>5, <1>6, <3>1, <3>2
  <2>3. QED
    BY <1>11, <2>2 DEF StrangersAreUnknown
<1>13. ListIsReported'
  <2>1. ASSUME ~lost', NEW other \in Range(list)
        PROVE  KnownBefore(Len(to_logic) + 1, other)' /\ \A k \in 1 .. Len(to_logic') : ~Leaves(k, other)'
    <3>1. msg # <<"T_PLAYER_LEFT", other>>
      BY <1>4
    <3>2. /\ KnownBefore(Len(to_logic) + 1, other)
          /\ \A k \in 1 .. Len(to_logic) : ~Leaves(k, other)
      BY <1>5 DEF Threads, ListIsReported
    <3>3. QED
      BY <1>9, <1>10, <2>1, <3>1, <3>2
  <2>2. QED
    BY <1>11, <2>1 DEF ListIsReported
<1>14. QED
  BY <1>8, <1>9, <1>12, <1>13 DEF Threads

LEMMA ServeEndThreads ==
  ASSUME Threads, NEW id \in Id, ServeEnd(id)
  PROVE  Threads'
<1>1. /\ Serving(id)
      /\ Tell(Range(list) \ {id}, <<"N_PLAYER_LEFT", id>>)
      /\ Enqueue(<<"T_PLAYER_LEFT", id>>)
      /\ list' = RemoveFirst(list, id)
      /\ UNCHANGED <<to_net, pc, outbox>>
  BY DEF ServeEnd
<1> DEFINE msg == <<"T_PLAYER_LEFT", id>>
<1>2. msg \in LogicMsg /\ msg[1] = "T_PLAYER_LEFT" /\ msg[2] = id
  BY DEF LogicMsg
<1>3. /\ UNCHANGED connected /\ ~lost
      /\ \E i \in 1 .. Len(list) : list[i] = id
      /\ KnownBefore(Len(to_logic) + 1, id)
      /\ \A k \in 1 .. Len(to_logic) : ~Leaves(k, id)
  BY <1>1, Served
<1>4. /\ \A other \in Id : "phase" \in DOMAIN client'[other] /\ client'[other].phase \in C!Phase
      /\ Stranger' \subseteq Stranger
  BY <1>1, Told DEF Threads
<1>5. /\ list' \in Seq(Id) /\ IsInjective(list')
      /\ Range(list') = Range(list) \ {id}
  <2>1. PICK i \in 1 .. Len(list) : list[i] = id
    BY <1>3
  <2>2. list \in Seq(Id) /\ IsInjective(list)
    BY DEF Threads, PartyTypes
  <2>3. /\ list' \in Seq(Id) /\ Len(list') = Len(list) - 1
        /\ \A k \in 1 .. Len(list) - 1 : list'[k] = IF k < i THEN list[k] ELSE list[k + 1]
    BY <1>1, <2>1, <2>2, OffTheList
  <2>4. DOMAIN list = 1 .. Len(list) /\ DOMAIN list' = 1 .. Len(list) - 1 /\ Len(list) \in Nat
    BY <2>2, <2>3
  <2>5. IsInjective(list')
    <3>1. ASSUME NEW a \in 1 .. Len(list) - 1, NEW b \in 1 .. Len(list) - 1, list'[a] = list'[b]
          PROVE  a = b
      <4> DEFINE from(k) == IF k < i THEN k ELSE k + 1
      <4>1. /\ from(a) \in 1 .. Len(list) /\ list'[a] = list[from(a)]
            /\ from(b) \in 1 .. Len(list) /\ list'[b] = list[from(b)]
        BY <2>3, <2>4
      <4>2. from(a) = from(b)
        <5> HIDE DEF from
        <5> QED
          BY <2>2, <2>4, <3>1, <4>1 DEF IsInjective
      <4>3. QED
        BY <2>4, <4>2
    <3>2. QED
      BY <2>4, <3>1 DEF IsInjective
  <2>6. ASSUME NEW k \in 1 .. Len(list) - 1
        PROVE  \E j \in 1 .. Len(list) : j # i /\ list'[k] = list[j]
    <3>1. CASE k < i
      BY <2>3, <3>1
    <3>2. CASE ~(k < i)
      BY <2>3, <3>2
    <3>3. QED
      BY <3>1, <3>2
  <2>7. ASSUME NEW j \in 1 .. Len(list), j # i
        PROVE  \E k \in 1 .. Len(list) - 1 : list'[k] = list[j]
    <3>1. CASE j < i
      BY <2>3, <3>1
    <3>2. CASE j > i
      <4>1. j - 1 \in 1 .. Len(list) - 1 /\ ~(j - 1 < i) /\ (j - 1) + 1 = j
        BY <3>2
      <4>2. list'[j - 1] = list[j]
        BY <2>3, <4>1
      <4>3. QED
        BY <4>1, <4>2
    <3>3. QED
      BY <2>7, <3>1, <3>2
  <2>8. \A j \in 1 .. Len(list) : list[j] = id => j = i
    BY <2>1, <2>2, <2>4 DEF IsInjective
  <2>9. \A x : x \in Range(list') <=> \E k \in 1 .. Len(list) - 1 : list'[k] = x
    BY <2>4 DEF Range
  <2>10. \A x : x \in Range(list) <=> \E k \in 1 .. Len(list) : list[k] = x
    BY <2>4 DEF Range
  <2>11. \A x : x \in Range(list') => x \in Range(list) /\ x # id
    BY <2>6, <2>8, <2>9, <2>10
  <2>12. \A x : x \in Range(list) /\ x # id => x \in Range(list')
    BY <2>1, <2>7, <2>9, <2>10
  <2>13. QED
    BY <2>3, <2>5, <2>11, <2>12
<1>6. /\ to_logic' \in Seq(LogicMsg) /\ Len(to_logic') <= QUEUE_ROOM
      /\ \/ lost' /\ to_logic' = to_logic
         \/ /\ lost' = lost
            /\ Len(to_logic') = Len(to_logic) + 1
            /\ \A k \in 1 .. Len(to_logic) : to_logic'[k] = to_logic[k]
            /\ to_logic'[Len(to_logic) + 1] = msg
  BY <1>1, <1>2, Enqueued DEF Threads
<1>7. PartyTypes'
  BY <1>1, <1>4, <1>5, <1>6 DEF Threads, PartyTypes, IsSeq
<1>8. /\ QueueInOrder'
      /\ ~lost' =>
           \A other \in Id :
             /\ \/ KnownBefore(Len(to_logic) + 1, other)
                \/ msg = <<"T_PLAYER_JOIN", other>>
                => KnownBefore(Len(to_logic) + 1, other)'
             /\ /\ \A k \in 1 .. Len(to_logic) : ~Leaves(k, other)
                /\ msg # <<"T_PLAYER_LEFT", other>>
                => \A k \in 1 .. Len(to_logic') : ~Leaves(k, other)'
  BY <1>1, <1>2, <1>3, QueueGrows DEF Threads
<1>9. StrangersAreUnknown'
  <2>1. id \notin Stranger
    BY <1>3 DEF Threads, StrangersAreUnknown, PartyTypes, Range
  <2>2. ASSUME NEW other \in Stranger
        PROVE  /\ other \notin Range(list') /\ other \notin connected'
               /\ \A k \in 1 .. Len(to_logic') : to_logic'[k][2] # other
    <3>1. /\ other \notin Range(list) /\ other \notin connected /\ other # id
          /\ \A k \in 1 .. Len(to_logic) : to_logic[k][2] # other
      BY <2>1 DEF Threads, StrangersAreUnknown
    <3>2. \A k \in 1 .. Len(to_logic) + 1 : k \in 1 .. Len(to_logic) \/ k = Len(to_logic) + 1
      BY DEF Threads, PartyTypes
    <3>3. QED
      BY <1>2, <1>3, <1>5, <1>6, <3>1, <3>2
  <2>3. QED
    BY <1>4, <2>2 DEF StrangersAreUnknown
<1>10. ListIsReported'
  <2>1. ASSUME ~lost', NEW other \in Range(list')
        PROVE  KnownBefore(Len(to_logic) + 1, other)' /\ \A k \in 1 .. Len(to_logic') : ~Leaves(k, other)'
    <3>1. other \in Range(list) /\ other # id /\ other \in Id
      <4>1. other \in Range(list) /\ other # id
        BY <1>5, <2>1
      <4>2. list \in Seq(Id)
        BY DEF Threads, PartyTypes
      <4>3. QED
        BY <4>1, <4>2 DEF Range
    <3>2. msg # <<"T_PLAYER_LEFT", other>>
      BY <3>1
    <3>3. /\ KnownBefore(Len(to_logic) + 1, other)
          /\ \A k \in 1 .. Len(to_logic) : ~Leaves(k, other)
      BY <1>3, <3>1 DEF Threads, ListIsReported
    <3>4. QED
      BY <1>8, <2>1, <3>1, <3>2, <3>3
  <2>2. QED
    BY <2>1 DEF ListIsReported
<1>11. QED
  BY <1>7, <1>8, <1>9, <1>10 DEF Threads

(* Before anybody comes both queues are empty and nobody is known. *)
LEMMA InitThreads == PartyInit => IInv /\ Threads
<1> SUFFICES ASSUME PartyInit PROVE IInv /\ Threads
  OBVIOUS
<1>1. IInv
  BY InitIInv DEF PartyInit
<1>2. to_logic = <<>> /\ to_net = <<>> /\ list = <<>> /\ connected = {}
  BY DEF PartyInit, Init
<1>3. Len(to_logic) = 0 /\ to_logic \in Seq(LogicMsg) /\ Len(list) = 0 /\ list \in Seq(Id)
  BY <1>2
<1>4. PartyTypes
  <2>1. IsSeq(to_net) /\ Len(to_net) = 0
    BY <1>2 DEF IsSeq
  <2>2. IsInjective(list)
    BY <1>3 DEF IsInjective
  <2>3. \A id \in Id : client[id] = C!NewClient
    BY DEF PartyInit
  <2>4. "phase" \in DOMAIN C!NewClient /\ C!NewClient.phase \in C!Phase
    BY DEF C!NewClient, C!Phase
  <2>5. outbox \in [Id -> Seq(Word)] /\ pc = "select"
    BY DEF PartyInit
  <2>6. QED
    BY <1>3, <2>1, <2>2, <2>3, <2>4, <2>5, PartyAssumption DEF PartyTypes
<1>5. QueueInOrder
  BY <1>3 DEF QueueInOrder
<1>6. Range(list) = {}
  BY <1>3 DEF Range
<1>7. StrangersAreUnknown /\ ListIsReported
  BY <1>2, <1>3, <1>6 DEF StrangersAreUnknown, ListIsReported
<1>8. QED
  BY <1>1, <1>4, <1>5, <1>7 DEF Threads

LEMMA NextThreads == IInv /\ Threads /\ [PartyNext]_partyVars => (IInv /\ Threads)'
<1> SUFFICES ASSUME IInv, Threads, [PartyNext]_partyVars PROVE (IInv /\ Threads)'
  OBVIOUS
<1>1. IInv'
  BY LogicKeepsIInv DEF Threads
<1>2. CASE LogicThread
  BY <1>1, <1>2, OwnThreads, SendNextThreads, HandleNextThreads DEF LogicThread
<1>3. CASE NetworkThread
  BY <1>1, <1>3, LoopThreads, RelayThreads, AcceptThreads, ServeWordThreads, ServeEndThreads
     DEF NetworkThread
<1>4. CASE People
  BY <1>1, <1>4, PeopleThreads
<1>5. CASE Over \/ UNCHANGED partyVars
  <2>1. UNCHANGED <<to_logic, to_net, lost, pc, list, client, outbox, connected>>
    BY <1>5 DEF Over, partyVars, vars, clients, network, outside
  <2>2. PartyTypes' /\ Stranger' = Stranger
    BY <2>1 DEF Threads, PartyTypes, IsSeq, Stranger
  <2>3. QED
    BY <1>1, <2>1, <2>2, ThreadsUntouched
<1>6. QED
  BY <1>1, <1>2, <1>3, <1>4, <1>5 DEF PartyNext

LEMMA AlwaysThreads == PartySpec => [](IInv /\ Threads)
BY InitThreads, NextThreads, PTL DEF PartySpec

----------------------------------------------------------------------------
(* Every variable of the whole program keeps its type; no queue ever holds *)
(* more than it has room for, and no client is listed twice.               *)
THEOREM PartyTypeCorrect == PartySpec => []PartyTypeOK
<1>1. IInv /\ Threads => PartyTypeOK
  BY DEF IInv, Threads, PartyTypes, PartyTypeOK
<1>2. QED
  BY <1>1, AlwaysThreads, PTL

(* The networking thread and the queue keep what GameLogic assumes of its  *)
(* environment: no client joins twice, and none is heard of before it      *)
(* joined or after it left, even when messages are lost.                   *)
THEOREM EnvironmentIsAsAssumed == PartySpec => []EnvironmentAsAssumed
<1>1. IInv /\ Threads => EnvironmentAsAssumed
  <2> SUFFICES ASSUME Threads, to_logic # <<>>
               PROVE  LET msg == Head(to_logic)
                      IN  IF msg[1] = "T_PLAYER_JOIN" THEN msg[2] \notin connected
                                                      ELSE msg[2] \in connected
    BY DEF EnvironmentAsAssumed
  <2>1. to_logic \in Seq(LogicMsg)
    BY DEF Threads, PartyTypes
  <2>2. Head(to_logic) = to_logic[1] /\ 1 \in 1 .. Len(to_logic)
    BY <2>1
  <2>3. IF to_logic[1][1] = "T_PLAYER_JOIN" THEN to_logic[1][2] \notin connected
                                            ELSE KnownBefore(1, to_logic[1][2])
    BY <2>2 DEF Threads, QueueInOrder
  <2>4. QED
    BY <2>2, <2>3 DEF KnownBefore
<1>2. QED
  BY <1>1, AlwaysThreads, PTL

(* The logic thread of the whole program is that of GameLogic: it starts   *)
(* as GameLogic does, and every step of the program is one of GameLogic's  *)
(* or leaves all that the logic thread keeps as it was.                    *)
THEOREM LogicThreadIsGameLogic == PartySpec => Init /\ [][Next]_logicState
<1>1. PartyInit => Init
  BY DEF PartyInit
<1>2. IInv /\ Threads /\ [PartyNext]_partyVars => [Next]_logicState
  BY LogicIsGameLogic DEF Threads
<1>3. QED
  BY <1>1, <1>2, AlwaysThreads, PTL DEF PartySpec

(* So its theorems hold in the program: while a game runs the turn is with *)
(* a player who has hearts, no game leaves anything behind for the next,   *)
(* and unless somebody leaves at the wrong moment nothing but a word that  *)
(* comes when it is nobody's turn can stop the server.                     *)
THEOREM GameLogicHoldsInTheProgram ==
  PartySpec => [](TurnHolderAlive /\ LobbyIsFresh /\ OnlyLateWordsStop)
<1>1. IInv => TurnHolderAlive /\ LobbyIsFresh /\ OnlyLateWordsStop
  BY DEF IInv
<1>2. QED
  BY <1>1, AlwaysThreads, PTL

----------------------------------------------------------------------------
(* The two lists of clients: while messages are on their way the threads   *)
(* differ by just what is on its way.                                      *)
Plays(id) == \E i \in 1 .. Len(players) : players[i].id = id

Comes(id) == \E k \in 1 .. Len(to_logic) : Joins(k, id)

Goes(id) == \E k \in 1 .. Len(to_logic) : Leaves(k, id)

Refusal(id) == <<"T_GAME_STARTED_NO_JOINING", id>>

Refusing(id) ==
  \/ \E k \in 1 .. Len(to_net) : to_net[k] = Refusal(id)
  \/ \E k \in 1 .. Len(sent) : sent[k] = Refusal(id)

PlayersAreListed ==
  \A id \in Id : Plays(id) \/ Comes(id) => id \in Range(list) \/ Goes(id)

ListedPlay ==
  \A id \in Range(list) : Plays(id) \/ Comes(id) \/ Refusing(id) \/ Ended(id)

Ahead(s, x, y) == \E a, b \in 1 .. Len(s) : a < b /\ s[a] = x /\ s[b] = y

(* Who is before another in one list is so in the other, and those still   *)
(* to join come last, in the order of the queue.                           *)
SameOrder ==
  \A x, y \in Id :
    Ahead(list, x, y) =>
      /\ ~Ahead(Seats, y, x)
      /\ Comes(x) => ~Plays(y)
      /\ \A k, l \in 1 .. Len(to_logic) : Joins(k, x) /\ Joins(l, y) => k < l

Agreement ==
  /\ IsSeq(sent)
  /\ \A id \in Id : client[id].phase # "naming"
  /\ Running => PlayersAreListed /\ ListedPlay /\ SameOrder

(* Whose places the list of players holds. *)
LEMMA SeatsArePlayers ==
  ASSUME IInv
  PROVE  /\ Len(Seats) = Len(players) /\ Len(players) \in Nat
         /\ \A i \in 1 .. Len(players) : Seats[i] = players[i].id /\ players[i].id \in Id
         /\ Seats \in Seq(Id)
         /\ \A id : Plays(id) => id \in connected
<1>1. players \in Seq(Player)
  BY DEF IInv, TypeOK, Player
<1>2. \A i \in 1 .. Len(players) : players[i].id \in Id
  <2>1. \A i \in 1 .. Len(players) : players[i] \in Player
    BY <1>1
  <2>2. QED
    BY <2>1 DEF Player
<1>3. Seats \in [1 .. Len(players) -> Id] /\ Len(players) \in Nat
  BY <1>1, <1>2 DEF Seats
<1>4. Seats \in Seq(Id) /\ Len(Seats) = Len(players)
  BY <1>3
<1>5. QED
  BY <1>2, <1>3, <1>4 DEF Seats, IInv, UniqueIds, Plays

(* Only joins and departures change who plays. *)
SamePlayers ==
  /\ Len(players') = Len(players)
  /\ \A i \in 1 .. Len(players) : players'[i].id = players[i].id

LEMMA SamePlayersSame ==
  ASSUME SamePlayers
  PROVE  Seats' = Seats /\ \A id : Plays(id)' <=> Plays(id)
BY DEF SamePlayers, Seats, Plays

LEMMA OthersKeepPlayers ==
  ASSUME IInv,
         \/ NoLine \/ StartRefused \/ Start \/ StartThroughFreed \/ NoMoreMessages \/ Clock
         \/ \E id \in Id :
              \/ JoinRefused(id) \/ WordWithoutTurn(id) \/ WordOutOfTurn(id)
              \/ \E word \in Word : WordWrong(id, word) \/ WordRight(id, word)
  PROVE  SamePlayers
<1>1. CASE players' = players
  BY <1>1 DEF SamePlayers
<1>2. ASSUME NEW deltatime \in DeltaTime, TimeOut(deltatime)
      PROVE  SamePlayers
  <2> DEFINE after == lose_hp(players, player_turn)
  <2>1. players \in Seq(Player) /\ player_turn \in AlivePlaces(players)
    BY <1>2 DEF TimeOut, IInv, TypeOK, Player, TurnHolderAlive
  <2>2. /\ after \in Seq(Player) /\ Len(after) = Len(players)
        /\ \A j \in 1 .. Len(players) : after[j].id = players[j].id
    BY <2>1, LoseHp
  <2>3. \/ players' = players \/ players' = after \/ players' = AllHearts(after)
    BY <1>2 DEF TimeOut, Die, playing
  <2> HIDE DEF after
  <2>4. /\ Len(AllHearts(after)) = Len(after)
        /\ \A j \in 1 .. Len(after) : AllHearts(after)[j].id = after[j].id
    BY <2>2, AllHeartsBack
  <2>5. QED
    BY <2>2, <2>3, <2>4 DEF SamePlayers
<1>3. players' = players \/ \E deltatime \in DeltaTime : TimeOut(deltatime)
  BY DEF NoLine, StartRefused, Start, StartThroughFreed, NoMoreMessages, Clock, Lobby,
         Countdown, TimeOutThroughFreed, JoinRefused, WordWithoutTurn, WordOutOfTurn,
         WordWrong, WordRight, PassTurn, Die, playing
<1>4. QED
  BY <1>1, <1>2, <1>3

(* A join puts the newcomer last. *)
LEMMA JoinIsLast ==
  ASSUME IInv, NEW id \in Id, Join(id)
  PROVE  /\ \A x : Plays(x)' <=> Plays(x) \/ x = id
         /\ \A x, y : Ahead(Seats, y, x)' => Ahead(Seats, y, x) \/ (x = id /\ Plays(y))
<1> DEFINE n == Len(players)
<1>1. /\ players \in Seq(Player)
      /\ [id |-> id, hp |-> MAX_HP] \in Player
  BY GameAssumption DEF IInv, TypeOK, Player
<1>2. /\ Len(players') = n + 1 /\ n \in Nat
      /\ \A i \in 1 .. n : players'[i] = players[i]
      /\ players'[n + 1].id = id
  BY <1>1, AppendProperties DEF Join
<1>3. \A i \in 1 .. n + 1 : i \in 1 .. n \/ i = n + 1
  BY <1>2
<1>4. /\ Len(Seats) = n /\ \A i \in 1 .. n : Seats[i] = players[i].id
  BY SeatsArePlayers
<1>5. /\ Len(Seats') = n + 1 /\ \A i \in 1 .. n + 1 : Seats'[i] = players'[i].id
  <2>1. Seats' = [i \in 1 .. n + 1 |-> players'[i].id]
    BY <1>2 DEF Seats
  <2>2. QED
    BY <1>2, <2>1
<1> HIDE DEF n
<1>6. ASSUME NEW x PROVE Plays(x)' <=> Plays(x) \/ x = id
  <2>1. Plays(x)' <=> \E i \in 1 .. n + 1 : players'[i].id = x
    BY <1>2 DEF Plays
  <2>2. Plays(x) <=> \E i \in 1 .. n : players[i].id = x
    BY DEF Plays, n
  <2>3. n + 1 \in 1 .. n + 1 /\ \A i \in 1 .. n : i \in 1 .. n + 1
    BY <1>2
  <2>4. QED
    BY <1>2, <1>3, <2>1, <2>2, <2>3
<1>7. ASSUME NEW x, NEW y, Ahead(Seats, y, x)'
      PROVE  Ahead(Seats, y, x) \/ (x = id /\ Plays(y))
  <2>1. PICK a, b \in 1 .. n + 1 : a < b /\ Seats'[a] = y /\ Seats'[b] = x
    BY <1>5, <1>7 DEF Ahead
  <2>2. a \in 1 .. n /\ players[a].id = y
    BY <1>2, <1>3, <1>5, <2>1
  <2>3. CASE b \in 1 .. n
    BY <1>2, <1>4, <1>5, <2>1, <2>2, <2>3 DEF Ahead
  <2>4. CASE b = n + 1
    BY <1>2, <1>5, <2>1, <2>2, <2>4 DEF Plays, n
  <2>5. QED
    BY <1>3, <2>3, <2>4
<1>8. QED
  BY <1>6, <1>7

(* A departure takes one player out, and leaves the others in order. *)
LEMMA LeftKeepsOrder ==
  ASSUME IInv, NEW id \in Id, Left(id)
  PROVE  /\ ~Plays(id)'
         /\ \A x : x # id => (Plays(x)' <=> Plays(x))
         /\ \A x, y : Ahead(Seats, y, x)' => Ahead(Seats, y, x)
<1> DEFINE n == Len(players)
<1>1. /\ n \in Nat /\ Len(Seats) = n /\ \A i \in 1 .. n : Seats[i] = players[i].id
      /\ players \in Seq(Player)
  BY SeatsArePlayers DEF IInv, TypeOK, Player
<1>2. CASE PlaceOf(players, id) = {}
  <2>1. players' = players
    BY <1>2 DEF Left
  <2>2. ~Plays(id)
    BY <1>2 DEF PlaceOf, Plays
  <2>3. QED
    BY <2>1, <2>2 DEF Plays, Seats
<1>3. CASE PlaceOf(players, id) # {}
  <2>1. PICK place \in PlaceOf(players, id) : players' = DeleteAt(players, place)
    BY <1>3 DEF Left
  <2>2. place \in 1 .. n /\ players[place].id = id
    BY <2>1 DEF PlaceOf
  <2> DEFINE from(i) == IF i < place THEN i ELSE i + 1
  <2>3. /\ Len(players') = n - 1
        /\ \A i \in 1 .. n - 1 :
             /\ players'[i] = players[from(i)]
             /\ from(i) \in 1 .. n /\ from(i) # place
             /\ \A j \in 1 .. n - 1 : i < j => from(i) < from(j)
    <3>1. /\ Len(players') = n - 1
          /\ \A i \in 1 .. n - 1 : players'[i] = IF i < place THEN players[i] ELSE players[i + 1]
      BY <1>1, <2>1, <2>2, Deleted
    <3>2. \A i \in 1 .. n - 1 : players'[i] = players[from(i)]
      BY <3>1
    <3>3. \A i \in 1 .. n - 1 :
            /\ from(i) \in 1 .. n /\ from(i) # place
            /\ \A j \in 1 .. n - 1 : i < j => from(i) < from(j)
      BY <1>1, <2>2
    <3>4. QED
      BY <3>1, <3>2, <3>3
  <2>4. ASSUME NEW j \in 1 .. n, j # place
        PROVE  \E i \in 1 .. n - 1 : from(i) = j
    <3>1. CASE j < place
      <4>1. j \in 1 .. n - 1 /\ from(j) = j
        BY <1>1, <2>2, <3>1
      <4>2. QED
        BY <4>1
    <3>2. CASE j > place
      <4>1. j - 1 \in 1 .. n - 1 /\ from(j - 1) = j
        BY <1>1, <2>2, <3>2
      <4>2. QED
        BY <4>1
    <3>3. QED
      BY <2>2, <2>4, <3>1, <3>2
  <2>5. /\ Len(Seats') = n - 1 /\ \A i \in 1 .. n - 1 : Seats'[i] = players'[i].id
    <3>1. Seats' = [i \in 1 .. n - 1 |-> players'[i].id] /\ n - 1 \in Nat
      BY <1>1, <2>2, <2>3 DEF Seats
    <3>2. QED
      BY <3>1
  <2>6. \A i, j \in 1 .. n : players[i].id = players[j].id => i = j
    BY DEF IInv, UniqueIds
  <2> HIDE DEF from, n
  <2>7. \A x : Plays(x)' <=> \E i \in 1 .. n - 1 : players[from(i)].id = x
    BY <2>3 DEF Plays
  <2>8. \A x : Plays(x) <=> \E i \in 1 .. n : players[i].id = x
    BY DEF Plays, n
  <2>9. ~Plays(id)'
    BY <2>2, <2>3, <2>6, <2>7
  <2>10. \A x : x # id => (Plays(x)' <=> Plays(x))
    BY <2>2, <2>3, <2>4, <2>7, <2>8
  <2>11. ASSUME NEW x, NEW y, Ahead(Seats, y, x)'
         PROVE  Ahead(Seats, y, x)
    <3>1. PICK a, b \in 1 .. n - 1 : a < b /\ Seats'[a] = y /\ Seats'[b] = x
      BY <2>5, <2>11 DEF Ahead
    <3>2. /\ from(a) \in 1 .. n /\ from(b) \in 1 .. n /\ from(a) < from(b)
          /\ Seats[from(a)] = y /\ Seats[from(b)] = x
      BY <1>1, <2>3, <2>5, <3>1
    <3>3. QED
      BY <1>1, <3>2 DEF Ahead
  <2>12. QED
    BY <2>9, <2>10, <2>11
<1>4. QED
  BY <1>2, <1>3

(* The queue's first message taken out, and done what it says: somebody    *)
(* joins, or is refused, or leaves, or nobody comes or goes.               *)
LEMMA HandledAgrees ==
  ASSUME Threads, PlayersAreListed, ListedPlay, SameOrder, ~lost,
         to_logic # <<>>, to_logic' = Tail(to_logic), UNCHANGED <<to_net, list, client>>,
         sent = <<>>,
         NEW msg, msg = Head(to_logic),
         \A x : Plays(x)' => Plays(x) \/ msg = <<"T_PLAYER_JOIN", x>>,
         \A x : Plays(x) => Plays(x)' \/ msg = <<"T_PLAYER_LEFT", x>>,
         \A x : msg = <<"T_PLAYER_LEFT", x>> => ~Plays(x)',
         \A x : msg = <<"T_PLAYER_JOIN", x>> => Plays(x)' \/ Refusing(x)',
         \A x, y : Ahead(Seats, y, x)'
                     => Ahead(Seats, y, x) \/ (msg = <<"T_PLAYER_JOIN", x>> /\ Plays(y))
  PROVE  (PlayersAreListed /\ ListedPlay /\ SameOrder)'
<1> DEFINE n == Len(to_logic)
<1>1. to_logic \in Seq(LogicMsg)
  BY DEF Threads, PartyTypes
<1>2. /\ n \in Nat \ {0} /\ msg = to_logic[1]
      /\ Len(to_logic') = n - 1
      /\ \A k \in 1 .. n - 1 : to_logic'[k] = to_logic[k + 1]
  BY <1>1
<1> HIDE DEF n
<1>3. \A k \in 1 .. n : k = 1 \/ (k - 1 \in 1 .. n - 1 /\ (k - 1) + 1 = k)
  BY <1>2
<1>4. ASSUME NEW x
      PROVE  /\ Comes(x) => Comes(x)' \/ msg = <<"T_PLAYER_JOIN", x>>
             /\ Goes(x) => Goes(x)' \/ msg = <<"T_PLAYER_LEFT", x>>
             /\ msg = <<"T_PLAYER_JOIN", x>> => Comes(x) /\ Joins(1, x)
             /\ msg = <<"T_PLAYER_LEFT", x>> => Goes(x)
  <2>1. /\ Comes(x) <=> \E k \in 1 .. n : to_logic[k] = <<"T_PLAYER_JOIN", x>>
        /\ Goes(x) <=> \E k \in 1 .. n : to_logic[k] = <<"T_PLAYER_LEFT", x>>
    BY DEF Comes, Goes, Joins, Leaves, n
  <2>2. /\ Comes(x)' <=> \E k \in 1 .. n - 1 : to_logic'[k] = <<"T_PLAYER_JOIN", x>>
        /\ Goes(x)' <=> \E k \in 1 .. n - 1 : to_logic'[k] = <<"T_PLAYER_LEFT", x>>
    BY <1>2 DEF Comes, Goes, Joins, Leaves
  <2>3. ASSUME NEW m, NEW k \in 1 .. n, to_logic[k] = m
        PROVE  msg = m \/ \E j \in 1 .. n - 1 : to_logic'[j] = m
    BY <1>2, <1>3, <2>3
  <2>4. 1 \in 1 .. n
    BY <1>2
  <2>5. QED
    BY <1>2, <2>1, <2>2, <2>3, <2>4 DEF Joins
<1>5. ASSUME NEW x, NEW k \in 1 .. n - 1, Joins(k, x)'
      PROVE  Joins(k + 1, x) /\ k + 1 \in 1 .. n
  BY <1>2, <1>5 DEF Joins
<1>6. ASSUME NEW x, Comes(x)'
      PROVE  Comes(x) /\ \E k \in 2 .. n : Joins(k, x)
  <2>1. PICK k \in 1 .. n - 1 : Joins(k, x)'
    BY <1>2, <1>6 DEF Comes
  <2>2. Joins(k + 1, x) /\ k + 1 \in 1 .. n /\ k + 1 \in 2 .. n
    BY <1>2, <1>5, <2>1
  <2>3. QED
    BY <2>2 DEF Comes, n
<1>7. ASSUME NEW x, Comes(x)'
      PROVE  msg # <<"T_PLAYER_LEFT", x>>
  <2>1. PICK k \in 2 .. n : Joins(k, x)
    BY <1>6, <1>7
  <2>2. to_logic[k][1] = "T_PLAYER_JOIN" /\ to_logic[k][2] = x /\ 1 \in 1 .. k - 1 /\ k \in 1 .. n
    BY <2>1 DEF Joins
  <2>3. to_logic[1][2] # x
    BY <2>2 DEF Threads, QueueInOrder, n
  <2>4. QED
    BY <1>2, <2>3
<1>8. PlayersAreListed'
  <2>1. ASSUME NEW x \in Id, Plays(x)' \/ Comes(x)'
        PROVE  x \in Range(list) \/ Goes(x)'
    <3>1. msg # <<"T_PLAYER_LEFT", x>>
      BY <1>7, <2>1
    <3>2. Plays(x) \/ Comes(x)
      BY <1>4, <1>6, <2>1
    <3>3. x \in Range(list) \/ Goes(x)
      BY <3>2 DEF PlayersAreListed
    <3>4. QED
      BY <1>4, <3>1, <3>3
  <2>2. QED
    BY <2>1 DEF PlayersAreListed
<1>9. ListedPlay'
  <2>1. ASSUME NEW x \in Range(list)
        PROVE  Plays(x)' \/ Comes(x)' \/ Refusing(x)' \/ Ended(x)
    <3>1. msg # <<"T_PLAYER_LEFT", x>>
      <4>1. ~Leaves(1, x)
        BY <1>2 DEF Threads, ListIsReported, n
      <4>2. QED
        BY <1>2, <4>1 DEF Leaves
    <3>2. Refusing(x) => Refusing(x)'
      BY DEF Refusing
    <3>3. Plays(x) \/ Comes(x) \/ Refusing(x) \/ Ended(x)
      BY DEF ListedPlay
    <3>4. QED
      BY <1>4, <3>1, <3>2, <3>3
  <2>2. QED
    BY <2>1 DEF ListedPlay, Ended
<1>10. SameOrder'
  <2>1. ASSUME NEW x \in Id, NEW y \in Id, Ahead(list, x, y)
        PROVE  /\ ~Ahead(Seats, y, x)'
               /\ Comes(x)' => ~Plays(y)'
               /\ \A k, l \in 1 .. n - 1 : Joins(k, x)' /\ Joins(l, y)' => k < l
    <3>1. /\ ~Ahead(Seats, y, x)
          /\ Comes(x) => ~Plays(y)
          /\ \A k, l \in 1 .. n : Joins(k, x) /\ Joins(l, y) => k < l
      BY <2>1 DEF SameOrder, n
    <3>2. ~Ahead(Seats, y, x)'
      BY <1>4, <3>1
    <3>3. Comes(x)' => ~Plays(y)'
      <4>1. SUFFICES ASSUME Comes(x)', Plays(y)' PROVE FALSE
        OBVIOUS
      <4>2. msg = <<"T_PLAYER_JOIN", y>>
        BY <1>6, <3>1, <4>1
      <4>3. Joins(1, y)
        BY <1>4, <4>2
      <4>4. PICK k \in 2 .. n : Joins(k, x)
        BY <1>6, <4>1
      <4>5. k < 1
        BY <1>2, <3>1, <4>3, <4>4
      <4>6. QED
        BY <4>4, <4>5
    <3>4. ASSUME NEW k \in 1 .. n - 1, NEW l \in 1 .. n - 1, Joins(k, x)', Joins(l, y)'
          PROVE  k < l
      <4>1. k + 1 < l + 1
        BY <1>5, <3>1, <3>4
      <4>2. QED
        BY <1>2, <4>1
    <3>5. QED
      BY <3>2, <3>3, <3>4
  <2>2. ASSUME NEW x, NEW y
        PROVE  Ahead(list, x, y)' <=> Ahead(list, x, y)
    BY DEF Ahead
  <2>3. QED
    BY <1>2, <2>1, <2>2 DEF SameOrder
<1>11. QED
  BY <1>8, <1>9, <1>10

(* Steps that leave the queue, the list and the players alone. *)
LEMMA AgreementUntouched ==
  ASSUME PlayersAreListed, ListedPlay, SameOrder, UNCHANGED <<to_logic, list>>, SamePlayers,
         \A id \in Range(list) : Ended(id) => Ended(id)',
         \A id \in Range(list) : Refusing(id) => Refusing(id)' \/ Ended(id)'
  PROVE  (PlayersAreListed /\ ListedPlay /\ SameOrder)'
<1>1. Seats' = Seats /\ \A id : Plays(id)' <=> Plays(id)
  BY SamePlayersSame
<1>2. \A id : (Comes(id)' <=> Comes(id)) /\ (Goes(id)' <=> Goes(id))
  BY DEF Comes, Goes, Joins, Leaves
<1>3. \A x, y : /\ Ahead(list, x, y)' <=> Ahead(list, x, y)
                /\ Ahead(Seats, y, x)' <=> Ahead(Seats, y, x)
  BY <1>1 DEF Ahead
<1>4. \A k, x : Joins(k, x)' <=> Joins(k, x)
  BY DEF Joins
<1>5. PlayersAreListed'
  BY <1>1, <1>2 DEF PlayersAreListed
<1>6. ListedPlay'
  BY <1>1, <1>2 DEF ListedPlay
<1>7. SameOrder'
  BY <1>1, <1>2, <1>3, <1>4 DEF SameOrder
<1>8. QED
  BY <1>5, <1>6, <1>7

(* A client that is refused ends itself. *)
LEMMA RefusedEnds ==
  ASSUME NEW id \in Id, Tell({id}, <<"N_GAME_STARTED_NO_JOINING">>), PartyTypes,
         client[id].phase \notin {"greet", "naming"}
  PROVE  Ended(id)'
<1> DEFINE msg == <<"N_GAME_STARTED_NO_JOINING">>
           now == [other \in Id |-> IF other \in {id} /\ client[other].phase = "main"
                                      THEN C!process_server_command(client[other], msg)
                                      ELSE client[other]]
           drawn == [other \in Id |-> IF other \in {id} /\ now[other].phase = "main"
                                        THEN C!display_ui(now[other]) ELSE now[other]]
<1>1. PICK draw \in SUBSET {other \in Id : drawn[other] # now[other]} :
        client' = [other \in Id |-> IF other \in draw THEN drawn[other] ELSE now[other]]
  BY DEF Tell
<1>2. "phase" \in DOMAIN client[id] /\ client[id].phase \in C!Phase
  BY DEF PartyTypes
<1>3. now[id].phase \in {"exited", "crashed"}
  <2>1. CASE client[id].phase = "main"
    <3>1. now[id] = C!process_server_command(client[id], msg)
      BY <2>1
    <3>2. C!process_server_command(client[id], msg) = [client[id] EXCEPT !.phase = "exited"]
      BY DEF C!process_server_command
    <3> HIDE DEF now
    <3>3. QED
      BY <1>2, <3>1, <3>2
  <2>2. CASE client[id].phase # "main"
    <3>1. now[id] = client[id]
      BY <2>2
    <3> HIDE DEF now
    <3>2. QED
      BY <1>2, <2>2, <3>1 DEF C!Phase
  <2>3. QED
    BY <2>1, <2>2
<1>4. drawn[id] = now[id]
  BY <1>3
<1>5. client'[id] = now[id]
  BY <1>1, <1>4
<1>6. QED
  BY <1>3, <1>5 DEF Ended

(* A handler sends its messages one after the other. *)
LEMMA SomeMessages ==
  /\ IsSeq(<<>>)
  /\ \A a : IsSeq(<<a>>)
  /\ \A a, b : IsSeq(<<a, b>>)
  /\ \A a, b, c : IsSeq(<<a, b, c>>)
BY DEF IsSeq

LEMMA MoreMessages ==
  ASSUME NEW s, IsSeq(s), NEW t, IsSeq(t)
  PROVE  IsSeq(s \o t)
<1> DEFINE T == {s[k] : k \in 1 .. Len(s)} \cup {t[k] : k \in 1 .. Len(t)}
<1>1. s \in [1 .. Len(s) -> T] /\ Len(s) \in Nat /\ t \in [1 .. Len(t) -> T] /\ Len(t) \in Nat
  BY DEF IsSeq
<1>2. s \in Seq(T) /\ t \in Seq(T)
  BY <1>1
<1> HIDE DEF T
<1>3. s \o t \in Seq(T)
  BY <1>2, ConcatProperties
<1>4. \A u \in Seq(T) : IsSeq(u)
  BY DEF IsSeq
<1>5. QED
  BY <1>3, <1>4

LEMMA SentInOrder ==
  ASSUME IsSeq(sent), [PartyNext]_partyVars
  PROVE  IsSeq(sent')
<1>1. \A list_, substr : IsSeq(TurnMessages(list_, substr))
  BY SomeMessages DEF TurnMessages
<1>2. ASSUME NEW before, IsSeq(before), NEW after, IsSeq(after), PassTurn(before, after)
      PROVE  IsSeq(sent')
  <2>1. sent' = <<>> \/ \E substr \in Substr : sent' = before \o TurnMessages(players, substr) \o after
    BY <1>2 DEF PassTurn, Die
  <2>2. QED
    BY <1>1, <1>2, <2>1, MoreMessages, SomeMessages
<1>3. CASE sent' = <<>> \/ sent' = sent
  BY <1>3, SomeMessages
<1>4. CASE Start
  <2>1. PassTurn(<<>>, << <<"T_GAME_START">> >>)
    BY <1>4 DEF Start
  <2>2. QED
    BY <1>2, <2>1, SomeMessages
<1>5. ASSUME NEW id, NEW word, WordRight(id, word)
      PROVE  IsSeq(sent')
  <2>1. PassTurn(<< <<"T_CORRECT_WORD", id, word>> >>, <<>>)
    BY <1>5 DEF WordRight
  <2>2. QED
    BY <1>2, <2>1, SomeMessages
<1>6. ASSUME NEW messages, IsSeq(messages), NEW deltatime, EndFrame(messages, deltatime)
      PROVE  IsSeq(sent')
  <2>1. sent' = messages \/ sent' = Append(messages, <<"T_TURN_TIME", turn_timer'>>)
    BY <1>6 DEF EndFrame
  <2>2. \A m : IsSeq(Append(messages, m))
    BY <1>6, SeqOps
  <2>3. QED
    BY <1>6, <2>1, <2>2
<1>7. ASSUME NEW deltatime, Countdown(deltatime) \/ TimeOut(deltatime)
      PROVE  IsSeq(sent')
  <2>1. CASE Countdown(deltatime)
    <3>1. EndFrame(<<>>, deltatime)
      BY <2>1 DEF Countdown
    <3>2. QED
      BY <1>6, <3>1, SomeMessages
  <2>2. CASE TimeOut(deltatime)
    <3> DEFINE after == lose_hp(players, player_turn)
               holder == NextHolder(after)
               one == << <<"T_LOSE_HP", after[player_turn].id>> >>
    <3>1. \/ sent' = <<>>
          \/ \E substr \in Substr :
               \/ EndFrame(one \o TurnMessages(after, substr)
                             \o << <<"T_PLAYER_WON", after[holder].id>>,
                                   <<"T_RESTART_GAME">> >>, deltatime)
               \/ EndFrame(one \o TurnMessages(after, substr), deltatime)
      BY <2>2 DEF TimeOut, Die
    <3>2. IsSeq(one) /\ IsSeq(<< <<"T_PLAYER_WON", after[holder].id>>, <<"T_RESTART_GAME">> >>)
      BY SomeMessages
    <3> HIDE DEF after, holder, one
    <3>3. \A substr : IsSeq(one \o TurnMessages(after, substr))
      BY <1>1, <3>2, MoreMessages
    <3>4. QED
      BY <1>6, <3>1, <3>2, <3>3, MoreMessages, SomeMessages
  <2>3. QED
    BY <1>7, <2>1, <2>2
<1>8. CASE SendNext
  <2>1. sent # <<>> /\ sent' = Tail(sent)
    BY <1>8 DEF SendNext
  <2>2. QED
    BY <2>1, SeqOps
<1>9. ASSUME NEW msg, Handle(msg)
      PROVE  IsSeq(sent')
  <2>1. \/ sent' = <<>> \/ \E m : sent' = <<m>>
        \/ WordRight(msg[2], msg[3])
    BY <1>9 DEF Handle, Join, JoinRefused, Left, WordWithoutTurn, WordOutOfTurn, WordWrong, Die
  <2>2. QED
    BY <1>5, <2>1, SomeMessages
<1>10. CASE OwnStep \/ StartTyped \/ AllHandled
  <2>1. \/ NoLine \/ StartRefused \/ Clock \/ Start \/ StartThroughFreed \/ NoMoreMessages
    BY <1>10 DEF OwnStep, StartTyped, AllHandled, LogicStep
  <2>2. \/ sent' = <<>> \/ Start
        \/ \E deltatime \in DeltaTime : Countdown(deltatime) \/ TimeOut(deltatime)
    BY <2>1 DEF NoLine, StartRefused, Clock, Lobby, TimeOutThroughFreed, Die, StartThroughFreed,
                NoMoreMessages
  <2>3. QED
    BY <1>3, <1>4, <1>7, <2>2
<1>11. CASE HandleNext
  BY <1>9, <1>11 DEF HandleNext, LogicStep
<1>12. CASE NetworkThread \/ People \/ Over \/ UNCHANGED partyVars
  <2>1. sent' = sent
    BY <1>12 DEF NetworkThread, Select, Relay, RelayDone, Accept, ServeWord, ServeEnd, Serving,
                 ClientsDone, NetStep, People, Over, vars, partyVars
  <2>2. QED
    BY <1>3, <2>1
<1>13. QED
  BY <1>8, <1>10, <1>11, <1>12 DEF PartyNext, LogicThread

(* A message that enters the queue to the logic thread, for a list of      *)
(* clients that it explains.                                               *)
LEMMA AcceptAgrees ==
  ASSUME IInv, Threads, PlayersAreListed, ListedPlay, SameOrder, Accept, Running'
  PROVE  (PlayersAreListed /\ ListedPlay /\ SameOrder)'
<1> DEFINE n == Len(to_logic)
           len == Len(list)
<1>1. PICK id \in Stranger :
        /\ Enqueue(<<"T_PLAYER_JOIN", id>>)
        /\ list' = Append(list, id)
        /\ client' = [other \in Id |->
                        IF other = id THEN Welcomed(id)
                        ELSE IF other \in Range(list) /\ ~Ended(other)
                          THEN C!create_player(client[other], id, <<>>)
                        ELSE client[other]]
  BY DEF Accept, ReportJoin
<1>2. UNCHANGED <<players, to_net, sent, connected>>
  BY DEF Accept, NetStep, vars, playing, clients
<1>3. /\ id \in Id /\ id \notin Range(list) /\ id \notin connected
      /\ \A k \in 1 .. n : to_logic[k][2] # id
  BY DEF Threads, StrangersAreUnknown, Stranger
<1> DEFINE msg == <<"T_PLAYER_JOIN", id>>
<1>4. msg \in LogicMsg /\ msg[2] = id
  BY <1>3 DEF LogicMsg
<1>5. /\ list \in Seq(Id) /\ n \in Nat /\ len \in Nat
  BY DEF Threads, PartyTypes
<1>6. /\ Len(list') = len + 1
      /\ \A k \in 1 .. len : list'[k] = list[k]
      /\ list'[len + 1] = id
      /\ DOMAIN list = 1 .. len /\ DOMAIN list' = 1 .. len + 1
  <2>1. /\ list' \in Seq(Id) /\ Len(list') = len + 1
        /\ \A k \in 1 .. len : list'[k] = list[k]
        /\ list'[len + 1] = id
    BY <1>1, <1>3, <1>5, AppendProperties
  <2>2. QED
    BY <1>5, <2>1
<1>7. /\ Len(to_logic') = n + 1
      /\ \A k \in 1 .. n : to_logic'[k] = to_logic[k]
      /\ to_logic'[n + 1] = msg
  BY <1>1, <1>4, Enqueued DEF Threads, Running
<1>8. ~Plays(id)
  BY <1>3, SeatsArePlayers
<1>9. Seats' = Seats /\ (\A x : Plays(x)' <=> Plays(x)) /\ (\A x : Refusing(x)' <=> Refusing(x))
  BY <1>2 DEF Seats, Plays, Refusing
<1> HIDE DEF n, len, msg
<1>10. \A k \in 1 .. n + 1 : k \in 1 .. n \/ k = n + 1
  BY <1>5
<1>11. \A k \in 1 .. len + 1 : k \in 1 .. len \/ k = len + 1
  BY <1>5
<1>12. \A x : x \in Range(list') <=> x \in Range(list) \/ x = id
  <2>1. \A x : x \in Range(list') <=> \E k \in 1 .. len + 1 : list'[k] = x
    BY <1>6 DEF Range
  <2>2. \A x : x \in Range(list) <=> \E k \in 1 .. len : list[k] = x
    BY <1>6 DEF Range
  <2>3. len + 1 \in 1 .. len + 1 /\ \A k \in 1 .. len : k \in 1 .. len + 1
    BY <1>5
  <2>4. QED
    BY <1>6, <1>11, <2>1, <2>2, <2>3
<1>13. ASSUME NEW x, NEW k \in 1 .. n + 1
       PROVE  /\ Joins(k, x)' <=> \/ k \in 1 .. n /\ Joins(k, x)
                                  \/ k = n + 1 /\ x = id
              /\ Joins(k, id)' => k = n + 1
  <2>1. CASE k \in 1 .. n
    <3>1. k # n + 1 /\ to_logic'[k] = to_logic[k] /\ to_logic[k][2] # id
      BY <1>3, <1>5, <1>7, <2>1 DEF n
    <3>2. QED
      BY <2>1, <3>1 DEF Joins
  <2>2. CASE k = n + 1
    BY <1>5, <1>7, <2>2 DEF Joins, msg
  <2>3. QED
    BY <1>10, <2>1, <2>2
<1>14. \A x : Comes(x)' <=> Comes(x) \/ x = id
  <2>1. \A x : Comes(x)' <=> \E k \in 1 .. n + 1 : Joins(k, x)'
    BY <1>7 DEF Comes
  <2>2. \A x : Comes(x) <=> \E k \in 1 .. n : Joins(k, x)
    BY DEF Comes, n
  <2>3. n + 1 \in 1 .. n + 1 /\ \A k \in 1 .. n : k \in 1 .. n + 1
    BY <1>5
  <2>4. QED
    BY <1>13, <2>1, <2>2, <2>3
<1>15. \A x : Goes(x) => Goes(x)'
  <2>1. \A x : Goes(x)' <=> \E k \in 1 .. n + 1 : to_logic'[k] = <<"T_PLAYER_LEFT", x>>
    BY <1>7 DEF Goes, Leaves
  <2>2. \A x : Goes(x) <=> \E k \in 1 .. n : to_logic[k] = <<"T_PLAYER_LEFT", x>>
    BY DEF Goes, Leaves, n
  <2>3. \A k \in 1 .. n : k \in 1 .. n + 1
    BY <1>5
  <2>4. QED
    BY <1>7, <2>1, <2>2, <2>3
<1>16. PlayersAreListed'
  BY <1>9, <1>12, <1>14, <1>15 DEF PlayersAreListed
<1>17. \A x \in Range(list) : Ended(x) => Ended(x)'
  <2>1. ASSUME NEW x \in Range(list), Ended(x)
        PROVE  client'[x] = client[x]
    <3>1. x \in Id /\ x # id
      BY <1>3, <1>5 DEF Range
    <3>2. QED
      BY <1>1, <2>1, <3>1
  <2>2. QED
    BY <2>1 DEF Ended
<1>18. ListedPlay'
  BY <1>9, <1>12, <1>14, <1>17 DEF ListedPlay
<1>19. SameOrder'
  <2>1. ASSUME NEW x \in Id, NEW y \in Id, Ahead(list, x, y)'
        PROVE  /\ ~Ahead(Seats, y, x)
               /\ Comes(x)' => ~Plays(y)
               /\ \A k, l \in 1 .. n + 1 : Joins(k, x)' /\ Joins(l, y)' => k < l
    <3>1. PICK a, b \in 1 .. len + 1 : a < b /\ list'[a] = x /\ list'[b] = y
      BY <1>6, <2>1 DEF Ahead
    <3>2. a \in 1 .. len /\ list[a] = x
      BY <1>5, <1>6, <1>11, <3>1
    <3>3. x # id
      BY <1>3, <1>6, <3>2 DEF Range
    <3>4. CASE b \in 1 .. len
      <4>1. list[b] = y
        BY <1>6, <3>1, <3>4
      <4>2. y # id
        BY <1>3, <1>6, <3>4, <4>1 DEF Range
      <4>3. Ahead(list, x, y)
        BY <3>1, <3>2, <3>4, <4>1 DEF Ahead, len
      <4>4. /\ ~Ahead(Seats, y, x)
            /\ Comes(x) => ~Plays(y)
            /\ \A k, l \in 1 .. n : Joins(k, x) /\ Joins(l, y) => k < l
        BY <4>3 DEF SameOrder, n
      <4>5. QED
        BY <1>13, <1>14, <3>3, <4>2, <4>4
    <3>5. CASE b = len + 1
      <4>1. y = id
        BY <1>6, <3>1, <3>5
      <4>2. ~Ahead(Seats, y, x)
        BY <1>8, <4>1, SeatsArePlayers DEF Ahead, Plays
      <4>3. ASSUME NEW k \in 1 .. n + 1, NEW l \in 1 .. n + 1, Joins(k, x)', Joins(l, y)'
            PROVE  k < l
        <5>1. k \in 1 .. n /\ l = n + 1
          BY <1>13, <3>3, <4>1, <4>3
        <5>2. QED
          BY <1>5, <5>1
      <4>4. QED
        BY <1>8, <4>1, <4>2, <4>3
    <3>6. QED
      BY <1>11, <3>4, <3>5
  <2>2. \A x, y : Ahead(Seats, y, x)' <=> Ahead(Seats, y, x)
    BY <1>9 DEF Ahead
  <2>3. QED
    BY <1>7, <1>9, <2>1, <2>2 DEF SameOrder
<1>20. QED
  BY <1>16, <1>18, <1>19

(* A word enters the queue, or the news that somebody was removed.         *)
LEMMA ReportAgrees ==
  ASSUME Threads, PlayersAreListed, ListedPlay, SameOrder, Running',
         NEW msg \in LogicMsg, msg[1] # "T_PLAYER_JOIN", Enqueue(msg),
         UNCHANGED <<players, to_net, sent>>,
         \A x \in Id : Ended(x) => Ended(x)',
         \A x \in Range(list') : x \in Range(list) /\ x \in Id,
         \A x \in Range(list) : x \in Range(list') \/ msg = <<"T_PLAYER_LEFT", x>>,
         \A x, y : Ahead(list, x, y)' => Ahead(list, x, y)
  PROVE  (PlayersAreListed /\ ListedPlay /\ SameOrder)'
<1> DEFINE n == Len(to_logic)
<1>1. /\ Len(to_logic') = n + 1
      /\ \A k \in 1 .. n : to_logic'[k] = to_logic[k]
      /\ to_logic'[n + 1] = msg
      /\ n \in Nat
  BY Enqueued DEF Threads, Running, PartyTypes
<1> HIDE DEF n
<1>2. \A k \in 1 .. n + 1 : k \in 1 .. n \/ k = n + 1
  BY <1>1
<1>3. Seats' = Seats /\ (\A x : Plays(x)' <=> Plays(x)) /\ (\A x : Refusing(x)' <=> Refusing(x))
  BY DEF Seats, Plays, Refusing
<1>4. \A x : \A k \in 1 .. n + 1 : Joins(k, x)' => k \in 1 .. n /\ Joins(k, x)
  BY <1>1, <1>2 DEF Joins
<1>5. \A x : Comes(x)' <=> Comes(x)
  <2>1. ASSUME NEW x PROVE Comes(x)' => Comes(x)
    <3>1. Comes(x)' <=> \E k \in 1 .. n + 1 : to_logic'[k] = <<"T_PLAYER_JOIN", x>>
      BY <1>1 DEF Comes, Joins
    <3>2. Comes(x) <=> \E k \in 1 .. n : to_logic[k] = <<"T_PLAYER_JOIN", x>>
      BY DEF Comes, Joins, n
    <3>3. msg # <<"T_PLAYER_JOIN", x>>
      OBVIOUS
    <3>4. QED
      BY <1>1, <1>2, <3>1, <3>2, <3>3
  <2>2. ASSUME NEW x PROVE Comes(x) => Comes(x)'
    <3>1. Comes(x) => \E k \in 1 .. n : to_logic[k] = <<"T_PLAYER_JOIN", x>>
      BY DEF Comes, Joins, n
    <3>2. \A k \in 1 .. n : k \in 1 .. n + 1 /\ to_logic'[k] = to_logic[k]
      BY <1>1
    <3>3. QED
      BY <1>1, <3>1, <3>2 DEF Comes, Joins
  <2>3. QED
    BY <2>1, <2>2
<1>6. \A x : /\ Goes(x) => Goes(x)'
             /\ msg = <<"T_PLAYER_LEFT", x>> => Goes(x)'
  <2>1. ASSUME NEW x
        PROVE  /\ Goes(x)' <=> \E k \in 1 .. n + 1 : to_logic'[k] = <<"T_PLAYER_LEFT", x>>
               /\ Goes(x) <=> \E k \in 1 .. n : to_logic[k] = <<"T_PLAYER_LEFT", x>>
    BY <1>1 DEF Goes, Leaves, n
  <2>2. n + 1 \in 1 .. n + 1 /\ \A k \in 1 .. n : k \in 1 .. n + 1
    BY <1>1
  <2>3. QED
    BY <1>1, <2>1, <2>2
<1>7. PlayersAreListed'
  BY <1>3, <1>5, <1>6 DEF PlayersAreListed
<1>8. ListedPlay'
  BY <1>3, <1>5 DEF ListedPlay
<1>9. SameOrder'
  <2>1. ASSUME NEW x \in Id, NEW y \in Id, Ahead(list, x, y)'
        PROVE  /\ ~Ahead(Seats, y, x)
               /\ Comes(x)' => ~Plays(y)
               /\ \A k, l \in 1 .. n + 1 : Joins(k, x)' /\ Joins(l, y)' => k < l
    <3>1. /\ ~Ahead(Seats, y, x)
          /\ Comes(x) => ~Plays(y)
          /\ \A k, l \in 1 .. n : Joins(k, x) /\ Joins(l, y) => k < l
      BY <2>1 DEF SameOrder, n
    <3>2. QED
      BY <1>4, <1>5, <3>1
  <2>2. \A x, y : Ahead(Seats, y, x)' <=> Ahead(Seats, y, x)
    BY <1>3 DEF Ahead
  <2>3. QED
    BY <1>1, <1>3, <2>1, <2>2 DEF SameOrder
<1>10. QED
  BY <1>7, <1>8, <1>9

LEMMA ServeAgrees ==
  ASSUME Threads, PlayersAreListed, ListedPlay, SameOrder, Running',
         NEW id \in Id, ServeWord(id) \/ ServeEnd(id)
  PROVE  (PlayersAreListed /\ ListedPlay /\ SameOrder)'
<1>1. UNCHANGED <<players, to_net, sent>>
  BY DEF ServeWord, ServeEnd, Serving, NetStep, vars, playing
<1>2. list \in Seq(Id) /\ IsInjective(list) /\ DOMAIN list = 1 .. Len(list) /\ Len(list) \in Nat
  BY DEF Threads, PartyTypes
<1>3. \A x \in Range(list) : x \in Id
  BY <1>2 DEF Range
<1>4. CASE ServeWord(id)
  <2> DEFINE msg == <<"T_SEND_WORD", id, Head(outbox[id])>>
  <2>1. Enqueue(msg) /\ UNCHANGED <<list, client>> /\ outbox[id] # <<>>
    BY <1>4 DEF ServeWord
  <2>2. outbox[id] \in Seq(Word)
    BY DEF Threads, PartyTypes
  <2>3. msg \in LogicMsg /\ msg[1] # "T_PLAYER_JOIN"
    BY <2>1, <2>2 DEF LogicMsg
  <2>4. \A x, y : Ahead(list, x, y)' => Ahead(list, x, y)
    BY <2>1 DEF Ahead
  <2>5. \A x \in Id : Ended(x) => Ended(x)'
    BY <2>1 DEF Ended
  <2> HIDE DEF msg
  <2>6. QED
    BY <1>1, <1>3, <2>1, <2>3, <2>4, <2>5, ReportAgrees
<1>5. CASE ServeEnd(id)
  <2> DEFINE msg == <<"T_PLAYER_LEFT", id>>
  <2>1. /\ Enqueue(msg) /\ Serving(id)
        /\ list' = RemoveFirst(list, id)
        /\ Tell(Range(list) \ {id}, <<"N_PLAYER_LEFT", id>>)
    BY <1>5 DEF ServeEnd
  <2>2. msg \in LogicMsg /\ msg[1] # "T_PLAYER_JOIN"
    BY DEF LogicMsg
  <2>3. \A x \in Id : Ended(x) => Ended(x)'
    BY <2>1, Told DEF Threads
  <2>4. PICK i \in 1 .. Len(list) : list[i] = id
    BY <2>1, Served
  <2>5. /\ Len(list') = Len(list) - 1 /\ DOMAIN list' = 1 .. Len(list) - 1
        /\ \A k \in 1 .. Len(list) - 1 : list'[k] = IF k < i THEN list[k] ELSE list[k + 1]
    <3>1. /\ list' \in Seq(Id) /\ Len(list') = Len(list) - 1
          /\ \A k \in 1 .. Len(list) - 1 : list'[k] = IF k < i THEN list[k] ELSE list[k + 1]
      BY <1>2, <2>1, <2>4, OffTheList
    <3>2. QED
      BY <3>1
  <2> DEFINE from(k) == IF k < i THEN k ELSE k + 1
  <2>6. \A k \in 1 .. Len(list) - 1 :
          /\ from(k) \in 1 .. Len(list) /\ list'[k] = list[from(k)]
          /\ \A m \in 1 .. Len(list) - 1 : k < m => from(k) < from(m)
    BY <1>2, <2>5
  <2>7. ASSUME NEW j \in 1 .. Len(list), j # i
        PROVE  \E k \in 1 .. Len(list) - 1 : list'[k] = list[j]
    <3>1. CASE j < i
      BY <1>2, <2>5, <3>1
    <3>2. CASE j > i
      <4>1. j - 1 \in 1 .. Len(list) - 1 /\ ~(j - 1 < i) /\ (j - 1) + 1 = j
        BY <1>2, <3>2
      <4>2. list'[j - 1] = list[j]
        BY <2>5, <4>1
      <4>3. QED
        BY <4>1, <4>2
    <3>3. QED
      BY <1>2, <2>7, <3>1, <3>2
  <2> HIDE DEF from, msg
  <2>8. \A x, y : Ahead(list, x, y)' => Ahead(list, x, y)
    BY <2>5, <2>6, SMTT(30) DEF Ahead
  <2>9. \A x \in Range(list') : x \in Range(list) /\ x \in Id
    BY <1>2, <1>3, <2>5, <2>6 DEF Range
  <2>10. \A x \in Range(list) : x \in Range(list') \/ x = id
    BY <1>2, <2>4, <2>5, <2>7 DEF Range
  <2>11. \A x \in Range(list) : x \in Range(list') \/ msg = <<"T_PLAYER_LEFT", x>>
    BY <2>10 DEF msg
  <2>12. QED
    BY <1>1, <2>1, <2>2, <2>3, <2>8, <2>9, <2>11, ReportAgrees
<1>6. QED
  BY <1>4, <1>5

LEMMA HandleNextAgrees ==
  ASSUME IInv, Threads, PlayersAreListed, ListedPlay, SameOrder, HandleNext
  PROVE  (PlayersAreListed /\ ListedPlay /\ SameOrder)'
<1> DEFINE msg == Head(to_logic)
<1>1. /\ to_logic # <<>> /\ Handle(msg) /\ to_logic' = Tail(to_logic)
      /\ UNCHANGED <<to_net, list, client>> /\ sent = <<>> /\ ~lost
  BY DEF HandleNext, LogicStep, network, outside, Running
<1>2. msg \in LogicMsg
  BY <1>1 DEF Threads, PartyTypes
<1> HIDE DEF msg
<1>3. /\ msg[2] \in Id
      /\ \/ msg[1] = "T_PLAYER_JOIN" /\ msg = <<"T_PLAYER_JOIN", msg[2]>>
         \/ msg[1] = "T_PLAYER_LEFT" /\ msg = <<"T_PLAYER_LEFT", msg[2]>>
         \/ msg[1] = "T_SEND_WORD" /\ msg[3] \in Word
  BY <1>2, MsgShape
<1>4. \A x : /\ msg = <<"T_PLAYER_JOIN", x>> => msg[1] = "T_PLAYER_JOIN" /\ msg[2] = x
             /\ msg = <<"T_PLAYER_LEFT", x>> => msg[1] = "T_PLAYER_LEFT" /\ msg[2] = x
  OBVIOUS
<1> DEFINE PlaysMore == \A x : Plays(x)' => Plays(x) \/ msg = <<"T_PLAYER_JOIN", x>>
           PlaysLess == \A x : Plays(x) => Plays(x)' \/ msg = <<"T_PLAYER_LEFT", x>>
           Gone == \A x : msg = <<"T_PLAYER_LEFT", x>> => ~Plays(x)'
           Answered == \A x : msg = <<"T_PLAYER_JOIN", x>> => Plays(x)' \/ Refusing(x)'
           Order == \A x, y : Ahead(Seats, y, x)'
                       => Ahead(Seats, y, x) \/ (msg = <<"T_PLAYER_JOIN", x>> /\ Plays(y))
<1>5. ASSUME SamePlayers PROVE PlaysMore /\ PlaysLess /\ Order
  <2>1. Seats' = Seats /\ \A x : Plays(x)' <=> Plays(x)
    BY <1>5, SamePlayersSame
  <2>2. \A x, y : Ahead(Seats, y, x)' <=> Ahead(Seats, y, x)
    BY <2>1 DEF Ahead
  <2>3. QED
    BY <2>1, <2>2
<1>6. ASSUME NEW id \in Id, msg = <<"T_PLAYER_JOIN", id>>
      PROVE  PlaysMore /\ PlaysLess /\ Gone /\ Answered /\ Order
  <2>1. msg[1] = "T_PLAYER_JOIN" /\ msg[2] = id
    BY <1>6
  <2>2. CASE Join(id)
    <3>1. /\ \A x : Plays(x)' <=> Plays(x) \/ x = id
          /\ \A x, y : Ahead(Seats, y, x)' => Ahead(Seats, y, x) \/ (x = id /\ Plays(y))
      BY <2>2, JoinIsLast
    <3>2. QED
      BY <1>4, <1>6, <2>1, <3>1
  <2>3. CASE JoinRefused(id)
    <3>1. SamePlayers
      BY <2>3, OthersKeepPlayers
    <3>2. sent' = <<Refusal(id)>>
      BY <2>3 DEF JoinRefused, Refusal
    <3>3. 1 \in 1 .. Len(sent') /\ sent'[1] = Refusal(id)
      BY <3>2
    <3>4. Refusing(id)'
      BY <3>3 DEF Refusing, Refusal
    <3>5. Gone /\ Answered
      BY <1>4, <2>1, <3>4
    <3>6. QED
      BY <1>5, <3>1, <3>5
  <2>4. QED
    BY <1>1, <2>1, <2>2, <2>3 DEF Handle
<1>7. ASSUME NEW id \in Id, msg = <<"T_PLAYER_LEFT", id>>
      PROVE  PlaysMore /\ PlaysLess /\ Gone /\ Answered /\ Order
  <2>1. msg[1] = "T_PLAYER_LEFT" /\ msg[2] = id
    BY <1>7
  <2>2. Left(id)
    BY <1>1, <2>1 DEF Handle
  <2>3. /\ ~Plays(id)'
        /\ \A x : x # id => (Plays(x)' <=> Plays(x))
        /\ \A x, y : Ahead(Seats, y, x)' => Ahead(Seats, y, x)
    BY <2>2, LeftKeepsOrder
  <2>4. QED
    BY <1>4, <1>7, <2>1, <2>3
<1>8. ASSUME msg[1] = "T_SEND_WORD", msg[3] \in Word
      PROVE  PlaysMore /\ PlaysLess /\ Gone /\ Answered /\ Order
  <2>1. SamePlayers
    BY <1>1, <1>3, <1>8, OthersKeepPlayers DEF Handle
  <2>2. PlaysMore /\ PlaysLess /\ Order
    BY <2>1, <1>5
  <2>3. Gone /\ Answered
    BY <1>4, <1>8
  <2>4. QED
    BY <2>2, <2>3
<1>9. PlaysMore /\ PlaysLess /\ Gone /\ Answered /\ Order
  BY <1>3, <1>6, <1>7, <1>8
<1>10. QED
  BY <1>1, <1>9, HandledAgrees DEF msg

LEMMA SendNextAgrees ==
  ASSUME Threads, IsSeq(sent), PlayersAreListed, ListedPlay, SameOrder, SendNext, Running'
  PROVE  (PlayersAreListed /\ ListedPlay /\ SameOrder)'
<1>1. /\ UNCHANGED <<players, to_logic, list, client>>
      /\ sent # <<>> /\ sent' = Tail(sent)
      /\ \/ Head(sent)[1] = "T_TURN_TIME" /\ to_net' = to_net
         \/ to_net' = Append(to_net, Head(sent))
  BY DEF SendNext, Running, playing, network, outside
<1>2. IsSeq(to_net)
  BY DEF Threads, PartyTypes
<1>3. /\ Len(sent') = Len(sent) - 1 /\ Len(sent) \in Nat \ {0}
      /\ \A k \in 1 .. Len(sent) - 1 : sent'[k] = sent[k + 1]
      /\ Head(sent) = sent[1]
  BY <1>1, SeqOps DEF IsSeq
<1>4. \/ to_net' = to_net /\ Head(sent)[1] = "T_TURN_TIME"
      \/ /\ Len(to_net') = Len(to_net) + 1 /\ Len(to_net) \in Nat
         /\ \A k \in 1 .. Len(to_net) : to_net'[k] = to_net[k]
         /\ to_net'[Len(to_net) + 1] = Head(sent)
  <2>1. CASE to_net' = Append(to_net, Head(sent))
    <3>1. \A m : /\ Len(Append(to_net, m)) = Len(to_net) + 1
                 /\ \A k \in 1 .. Len(to_net) : Append(to_net, m)[k] = to_net[k]
                 /\ Append(to_net, m)[Len(to_net) + 1] = m
      BY <1>2, SeqOps
    <3>2. Len(to_net) \in Nat
      BY <1>2 DEF IsSeq
    <3>3. QED
      BY <2>1, <3>1, <3>2
  <2>2. QED
    BY <1>1, <2>1
<1>5. ASSUME NEW id, Refusing(id)
      PROVE  Refusing(id)'
  <2>1. Refusal(id)[1] # "T_TURN_TIME"
    BY DEF Refusal
  <2>2. \A k : Refusal(id)' = Refusal(id)
    BY DEF Refusal
  <2>3. ASSUME NEW k \in 1 .. Len(to_net), to_net[k] = Refusal(id)
        PROVE  Refusing(id)'
    <3>1. k \in 1 .. Len(to_net') /\ to_net'[k] = Refusal(id)
      BY <1>4, <2>3
    <3>2. QED
      BY <2>2, <3>1 DEF Refusing
  <2>4. ASSUME NEW k \in 1 .. Len(sent), sent[k] = Refusal(id)
        PROVE  Refusing(id)'
    <3>1. CASE k = 1
      <4>1. Head(sent)[1] # "T_TURN_TIME" /\ Head(sent) = Refusal(id)
        BY <1>3, <2>1, <2>4, <3>1
      <4>2. Len(to_net) + 1 \in 1 .. Len(to_net') /\ to_net'[Len(to_net) + 1] = Refusal(id)
        BY <1>4, <4>1
      <4>3. PICK j \in 1 .. Len(to_net') : to_net'[j] = Refusal(id)
        BY <4>2
      <4>4. QED
        BY <2>2, <4>3 DEF Refusing
    <3>2. CASE k # 1
      <4>1. k - 1 \in 1 .. Len(sent') /\ sent'[k - 1] = Refusal(id)
        <5>1. k - 1 \in 1 .. Len(sent) - 1 /\ (k - 1) + 1 = k
          BY <1>3, <3>2
        <5>2. QED
          BY <1>3, <2>4, <5>1
      <4>2. PICK j \in 1 .. Len(sent') : sent'[j] = Refusal(id)
        BY <4>1
      <4>3. QED
        BY <2>2, <4>2 DEF Refusing
    <3>3. QED
      BY <3>1, <3>2
  <2>5. QED
    BY <1>5, <2>3, <2>4 DEF Refusing
<1>6. SamePlayers /\ \A id : Ended(id) => Ended(id)'
  BY <1>1 DEF SamePlayers, Ended
<1>7. QED
  BY <1>1, <1>5, <1>6, AgreementUntouched

LEMMA RelayAgrees ==
  ASSUME Threads, PlayersAreListed, ListedPlay, SameOrder, Relay,
         \A id \in Id : client[id].phase # "naming"
  PROVE  (PlayersAreListed /\ ListedPlay /\ SameOrder)'
<1> DEFINE msg == Head(to_net)
<1>1. /\ UNCHANGED <<players, to_logic, list, sent>>
      /\ to_net # <<>> /\ to_net' = Tail(to_net)
      /\ IF ForAll(msg) THEN Tell(Range(list), Relayed(msg))
                        ELSE Tell({msg[2]}, <<"N_GAME_STARTED_NO_JOINING">>)
  BY DEF Relay, NetStep, network, vars, playing
<1>2. IsSeq(to_net) /\ PartyTypes
  BY DEF Threads, PartyTypes
<1>3. /\ Len(to_net') = Len(to_net) - 1 /\ Len(to_net) \in Nat \ {0}
      /\ \A k \in 1 .. Len(to_net) - 1 : to_net'[k] = to_net[k + 1]
      /\ msg = to_net[1]
  BY <1>1, <1>2, SeqOps DEF IsSeq
<1> HIDE DEF msg
<1>4. \A id \in Id : Ended(id) => Ended(id)'
  BY <1>1, <1>2, Told
<1>5. list \in Seq(Id)
  BY DEF Threads, PartyTypes
<1>6. ASSUME NEW id \in Range(list), Refusing(id)
      PROVE  Refusing(id)' \/ Ended(id)'
  <2>1. id \in Id
    BY <1>5, <1>6 DEF Range
  <2>2. client[id].phase \notin {"greet", "naming"}
    BY <1>6, <2>1 DEF Threads, StrangersAreUnknown, Stranger
  <2>3. CASE msg = Refusal(id)
    <3>1. ~ForAll(msg) /\ msg[2] = id
      BY <2>3 DEF ForAll, NetCode, Refusal
    <3>2. Tell({id}, <<"N_GAME_STARTED_NO_JOINING">>)
      BY <1>1, <3>1
    <3>3. QED
      BY <1>2, <2>1, <2>2, <3>2, RefusedEnds
  <2>4. ASSUME NEW k \in 1 .. Len(to_net), to_net[k] = Refusal(id), k # 1
        PROVE  Refusing(id)'
    <3>1. k - 1 \in 1 .. Len(to_net) - 1 /\ (k - 1) + 1 = k
      BY <1>3, <2>4
    <3>2. k - 1 \in 1 .. Len(to_net') /\ to_net'[k - 1] = Refusal(id)
      BY <1>3, <2>4, <3>1
    <3>3. QED
      BY <3>2 DEF Refusing, Refusal
  <2>5. CASE \E k \in 1 .. Len(sent) : sent[k] = Refusal(id)
    BY <1>1, <2>5 DEF Refusing, Refusal
  <2>6. QED
    BY <1>3, <1>6, <2>3, <2>4, <2>5 DEF Refusing
<1>7. \A id \in Range(list) : Ended(id) => Ended(id)'
  BY <1>4, <1>5 DEF Range
<1>8. SamePlayers
  BY <1>1 DEF SamePlayers
<1>9. QED
  BY <1>1, <1>6, <1>7, <1>8, AgreementUntouched

(* Steps in which neither a client nor a queue changes but that people end *)
(* their clients or type.                                                  *)
LEMMA OtherStepsAgree ==
  ASSUME IInv, Threads, PlayersAreListed, ListedPlay, SameOrder,
         \/ OwnStep \/ StartTyped \/ AllHandled
         \/ Select \/ RelayDone \/ ClientsDone
         \/ People \/ Over \/ UNCHANGED partyVars
  PROVE  (PlayersAreListed /\ ListedPlay /\ SameOrder)'
<1>1. list \in Seq(Id) /\ \A id \in Range(list) : id \in Id
  BY DEF Threads, PartyTypes, Range
<1>2. CASE OwnStep \/ StartTyped \/ AllHandled
  <2>1. UNCHANGED <<to_logic, to_net, list, client>> /\ sent = <<>>
    BY <1>2 DEF OwnStep, StartTyped, AllHandled, LogicStep, network, outside
  <2>2. \/ NoLine \/ StartRefused \/ Clock \/ Start \/ StartThroughFreed \/ NoMoreMessages
    BY <1>2 DEF OwnStep, StartTyped, AllHandled, LogicStep
  <2>3. SamePlayers
    BY <2>2, OthersKeepPlayers
  <2>4. \A id : (Ended(id) => Ended(id)') /\ (Refusing(id) => Refusing(id)')
    BY <2>1 DEF Ended, Refusing, Refusal
  <2>5. QED
    BY <2>1, <2>3, <2>4, AgreementUntouched
<1>3. CASE Select \/ RelayDone \/ ClientsDone \/ Over \/ UNCHANGED partyVars
  <2>1. UNCHANGED <<to_logic, to_net, list, client, players, sent>>
    BY <1>3 DEF Select, RelayDone, ClientsDone, NetStep, Over, partyVars, vars, playing, network,
                outside
  <2>2. SamePlayers /\ \A id : (Ended(id) => Ended(id)') /\ (Refusing(id) => Refusing(id)')
    BY <2>1 DEF SamePlayers, Ended, Refusing, Refusal
  <2>3. QED
    BY <2>1, <2>2, AgreementUntouched
<1>4. CASE People
  <2>1. /\ UNCHANGED <<to_logic, to_net, list, players, sent>>
        /\ \E id \in Id : Quit(id) \/ \E word \in Word : Type(id, word)
    BY <1>4 DEF People, vars, playing, network
  <2>2. \A id \in Id : "phase" \in DOMAIN client[id]
    BY DEF Threads, PartyTypes
  <2>3. \A id \in Id : Ended(id) => Ended(id)'
    <3>1. ASSUME NEW id \in Id, Quit(id)
          PROVE  \A other \in Id : client'[other].phase \in {client[other].phase, "exited"}
      BY <2>2, <3>1 DEF Quit
    <3>2. ASSUME NEW id \in Id, NEW word \in Word, Type(id, word)
          PROVE  client' = client
      BY <3>2 DEF Type
    <3>3. QED
      BY <2>1, <3>1, <3>2 DEF Ended
  <2>4. SamePlayers /\ \A id : Refusing(id) => Refusing(id)'
    BY <2>1 DEF SamePlayers, Refusing, Refusal
  <2>5. QED
    BY <1>1, <2>1, <2>3, <2>4, AgreementUntouched
<1>5. QED
  BY <1>2, <1>3, <1>4

(* No client of this model stays at its name prompt. *)
LEMMA NobodyNames ==
  ASSUME Threads, [PartyNext]_partyVars, \A id \in Id : client[id].phase # "naming"
  PROVE  \A id \in Id : client'[id].phase # "naming"
<1>1. \A id \in Id : "phase" \in DOMAIN client[id]
  BY DEF Threads, PartyTypes
<1>2. CASE client' = client
  BY <1>2
<1>3. ASSUME NEW ids, NEW msg, Tell(ids, msg)
      PROVE  \A id \in Id : client'[id].phase # "naming"
  BY <1>3, Told DEF Threads
<1>4. CASE Accept
  <2>1. PICK id \in Stranger :
          client' = [other \in Id |->
                       IF other = id THEN Welcomed(id)
                       ELSE IF other \in Range(list) /\ ~Ended(other)
                         THEN C!create_player(client[other], id, <<>>)
                       ELSE client[other]]
    BY <1>4 DEF Accept
  <2>2. Welcomed(id).phase = "main"
    BY DEF Welcomed, C!NewClient
  <2>3. \A other \in Id : C!create_player(client[other], id, <<>>).phase = client[other].phase
    BY <1>1 DEF C!create_player
  <2>4. QED
    BY <2>1, <2>2, <2>3
<1>5. CASE People
  <2>1. \E id \in Id : Quit(id) \/ \E word \in Word : Type(id, word)
    BY <1>5 DEF People
  <2>2. ASSUME NEW id \in Id, Quit(id)
        PROVE  \A other \in Id : client'[other].phase \in {client[other].phase, "exited"}
    BY <1>1, <2>2 DEF Quit
  <2>3. ASSUME NEW id \in Id, NEW word \in Word, Type(id, word)
        PROVE  client' = client
    BY <2>3 DEF Type
  <2>4. QED
    BY <2>1, <2>2, <2>3
<1>6. CASE Relay \/ \E id \in Id : ServeEnd(id)
  BY <1>3, <1>6 DEF Relay, ServeEnd
<1>7. \/ client' = client \/ Accept \/ People \/ Relay \/ \E id \in Id : ServeEnd(id)
  BY DEF PartyNext, LogicThread, SendNext, OwnStep, StartTyped, HandleNext, AllHandled, LogicStep,
         NetworkThread, Select, RelayDone, ServeWord, ClientsDone, Over, partyVars, outside
<1>8. QED
  BY <1>2, <1>4, <1>5, <1>6, <1>7

LEMMA InitAgreement == PartyInit => Agreement
<1> SUFFICES ASSUME PartyInit PROVE Agreement
  OBVIOUS
<1>1. sent = <<>> /\ list = <<>> /\ players = <<>> /\ to_logic = <<>>
  BY DEF PartyInit, Init
<1>2. IsSeq(sent)
  BY <1>1, SomeMessages
<1>3. \A id \in Id : client[id].phase # "naming"
  BY DEF PartyInit, C!NewClient
<1>4. Range(list) = {} /\ \A x, y : ~Ahead(list, x, y)
  BY <1>1 DEF Range, Ahead
<1>5. \A id : ~Plays(id) /\ ~Comes(id)
  BY <1>1 DEF Plays, Comes
<1>6. QED
  BY <1>2, <1>3, <1>4, <1>5 DEF Agreement, PlayersAreListed, ListedPlay, SameOrder

LEMMA NextAgreement ==
  IInv /\ Threads /\ Agreement /\ [PartyNext]_partyVars => Agreement'
<1> SUFFICES ASSUME IInv, Threads, Agreement, [PartyNext]_partyVars PROVE Agreement'
  OBVIOUS
<1>1. IsSeq(sent)' /\ \A id \in Id : client'[id].phase # "naming"
  BY SentInOrder, NobodyNames DEF Agreement
<1>2. SUFFICES ASSUME Running' PROVE (PlayersAreListed /\ ListedPlay /\ SameOrder)'
  BY <1>1 DEF Agreement
<1>3. Running
  <2>1. CASE LogicThread
    BY <2>1 DEF LogicThread, SendNext, OwnStep, StartTyped, HandleNext, AllHandled, LogicStep
  <2>2. CASE NetworkThread
    BY <2>2 DEF NetworkThread, Select, Relay, RelayDone, Accept, ServeWord, ServeEnd, Serving,
                ClientsDone, NetStep
  <2>3. CASE People
    BY <2>3 DEF People
  <2>4. CASE Over \/ UNCHANGED partyVars
    BY <1>2, <2>4 DEF Over, partyVars, vars, Running
  <2>5. QED
    BY <2>1, <2>2, <2>3, <2>4 DEF PartyNext
<1>4. /\ IsSeq(sent) /\ PlayersAreListed /\ ListedPlay /\ SameOrder
      /\ \A id \in Id : client[id].phase # "naming"
  BY <1>3 DEF Agreement
<1>5. CASE SendNext
  BY <1>2, <1>4, <1>5, SendNextAgrees
<1>6. CASE HandleNext
  BY <1>4, <1>6, HandleNextAgrees
<1>7. CASE Relay
  BY <1>4, <1>7, RelayAgrees
<1>8. CASE Accept
  BY <1>2, <1>4, <1>8, AcceptAgrees
<1>9. CASE \E id \in Id : ServeWord(id) \/ ServeEnd(id)
  BY <1>2, <1>4, <1>9, ServeAgrees
<1>10. CASE \/ OwnStep \/ StartTyped \/ AllHandled
            \/ Select \/ RelayDone \/ ClientsDone
            \/ People \/ Over \/ UNCHANGED partyVars
  BY <1>4, <1>10, OtherStepsAgree
<1>11. QED
  BY <1>5, <1>6, <1>7, <1>8, <1>9, <1>10 DEF PartyNext, LogicThread, NetworkThread

LEMMA AlwaysAgreement == PartySpec => []Agreement
BY InitAgreement, NextAgreement, AlwaysThreads, PTL DEF PartySpec

(* Two lists without repetition, of the same elements in the same order,   *)
(* are the same list.                                                      *)
LEMMA SameList ==
  ASSUME NEW S, NEW s \in Seq(S), NEW t \in Seq(S), IsInjective(s), IsInjective(t),
         \A x : (\E i \in 1 .. Len(s) : s[i] = x) <=> (\E i \in 1 .. Len(t) : t[i] = x),
         \A x, y : Ahead(s, x, y) => ~Ahead(t, y, x)
  PROVE  s = t
<1> DEFINE Same(k) == k \in 1 .. Len(s) /\ k \in 1 .. Len(t) /\ s[k] = t[k]
           D == {k \in Nat : k \in 1 .. Len(s) \cup 1 .. Len(t) /\ ~Same(k)}
<1>1. /\ Len(s) \in Nat /\ Len(t) \in Nat
      /\ \A i, j \in 1 .. Len(s) : s[i] = s[j] => i = j
      /\ \A i, j \in 1 .. Len(t) : t[i] = t[j] => i = j
  BY DEF IsInjective
<1>2. ASSUME D = {} PROVE s = t
  <2>1. \A k \in 1 .. Len(s) \cup 1 .. Len(t) : Same(k)
    BY <1>1, <1>2
  <2>2. Len(s) = Len(t)
    <3>1. CASE Len(s) > Len(t)
      BY <1>1, <2>1, <3>1
    <3>2. CASE Len(t) > Len(s)
      BY <1>1, <2>1, <3>2
    <3>3. QED
      BY <1>1, <3>1, <3>2
  <2>3. \A k \in 1 .. Len(s) : s[k] = t[k]
    BY <2>1
  <2>4. QED
    BY <2>2, <2>3, SeqEqual
<1>3. ASSUME D # {} PROVE FALSE
  <2>1. PICK k \in D : \A j \in D : k <= j
    BY <1>3, LeastElement
  <2>2. /\ k \in 1 .. Len(s) \cup 1 .. Len(t) /\ ~Same(k)
        /\ \A j \in 1 .. k - 1 : Same(j)
    <3>1. \A j \in 1 .. k - 1 : j \in Nat /\ j \in 1 .. Len(s) \cup 1 .. Len(t) /\ ~(k <= j)
      BY <1>1, <2>1
    <3>2. QED
      BY <2>1, <3>1
  <2> HIDE DEF D
  <2>3. CASE k \in 1 .. Len(s)
    <3>1. PICK i \in 1 .. Len(t) : t[i] = s[k]
      BY <2>3
    <3>2. i > k
      <4>1. i # k
        BY <2>2, <2>3, <3>1
      <4>2. ~(i < k)
        <5>1. SUFFICES ASSUME i \in 1 .. k - 1 PROVE FALSE
          BY <1>1, <2>3, <3>1
        <5>2. i \in 1 .. Len(s) /\ s[i] = s[k]
          BY <2>2, <3>1, <5>1
        <5>3. QED
          BY <1>1, <2>3, <5>1, <5>2
      <4>3. QED
        BY <1>1, <2>3, <4>1, <4>2
    <3>3. k \in 1 .. Len(t)
      BY <1>1, <2>3, <3>1, <3>2
    <3>4. PICK j \in 1 .. Len(s) : s[j] = t[k]
      BY <3>3
    <3>5. j > k
      <4>1. j # k
        BY <2>2, <2>3, <3>3, <3>4
      <4>2. ~(j < k)
        <5>1. SUFFICES ASSUME j \in 1 .. k - 1 PROVE FALSE
          BY <1>1, <2>3, <3>4
        <5>2. j \in 1 .. Len(t) /\ t[j] = t[k]
          BY <2>2, <3>4, <5>1
        <5>3. QED
          BY <1>1, <3>3, <5>1, <5>2
      <4>3. QED
        BY <1>1, <2>3, <4>1, <4>2
    <3>6. Ahead(s, s[k], t[k]) /\ Ahead(t, t[k], s[k])
      BY <2>3, <3>1, <3>2, <3>3, <3>4, <3>5 DEF Ahead
    <3>7. QED
      BY <3>6
  <2>4. CASE k \notin 1 .. Len(s)
    <3>1. k \in 1 .. Len(t) /\ k > Len(s)
      BY <1>1, <2>2, <2>4
    <3>2. PICK j \in 1 .. Len(s) : s[j] = t[k]
      BY <3>1
    <3>3. j \in 1 .. k - 1
      BY <1>1, <3>1, <3>2
    <3>4. j \in 1 .. Len(t) /\ t[j] = t[k]
      BY <2>2, <3>2, <3>3
    <3>5. QED
      BY <1>1, <3>1, <3>3, <3>4
  <2>5. QED
    BY <2>3, <2>4
<1>4. QED
  BY <1>2, <1>3

(* Once nothing is on its way and everybody who is gone was removed, the   *)
(* two threads have the same list of clients, in the same order, whatever  *)
(* joined, left or was refused, and in whatever order the threads took it. *)
THEOREM ThreadsAgreeOnPlayers == PartySpec => []ListsAgree
<1>1. IInv /\ Threads /\ Agreement => ListsAgree
  <2> SUFFICES ASSUME IInv, Threads, Agreement, Quiet, \A id \in Range(list) : ~Ended(id)
               PROVE  list = Seats
    BY DEF ListsAgree, Seats
  <2>1. /\ PlayersAreListed /\ ListedPlay /\ SameOrder
        /\ Len(to_logic) = 0 /\ Len(to_net) = 0 /\ Len(sent) = 0
    BY DEF Agreement, Quiet
  <2>2. \A id : ~Comes(id) /\ ~Goes(id) /\ ~Refusing(id)
    BY <2>1 DEF Comes, Goes, Refusing
  <2>3. /\ list \in Seq(Id) /\ IsInjective(list) /\ DOMAIN list = 1 .. Len(list)
        /\ \A id \in Range(list) : id \in Id
    BY DEF Threads, PartyTypes, Range
  <2>4. /\ Seats \in Seq(Id) /\ Len(Seats) = Len(players) /\ DOMAIN Seats = 1 .. Len(players)
        /\ \A i \in 1 .. Len(players) : Seats[i] = players[i].id /\ players[i].id \in Id
    BY SeatsArePlayers
  <2>5. IsInjective(Seats)
    BY <2>4 DEF IInv, UniqueIds, IsInjective
  <2>6. \A x : Plays(x) <=> \E i \in 1 .. Len(Seats) : Seats[i] = x
    BY <2>4 DEF Plays
  <2>7. \A x : x \in Range(list) <=> \E i \in 1 .. Len(list) : list[i] = x
    BY <2>3 DEF Range
  <2>8. \A x : Plays(x) => x \in Id
    BY <2>4 DEF Plays
  <2>9. \A x : x \in Range(list) <=> Plays(x)
    BY <2>1, <2>2, <2>3, <2>8 DEF PlayersAreListed, ListedPlay
  <2>10. \A x, y : Ahead(list, x, y) => x \in Id /\ y \in Id
    BY <2>3 DEF Ahead
  <2>11. \A x, y : Ahead(list, x, y) => ~Ahead(Seats, y, x)
    BY <2>1, <2>10 DEF SameOrder
  <2>12. QED
    BY <2>3, <2>4, <2>5, <2>6, <2>7, <2>9, <2>11, SameList
<1>2. QED
  BY <1>1, AlwaysThreads, AlwaysAgreement, PTL

----------------------------------------------------------------------------
(* What a client will have learnt of the game when it has read all that is *)
(* on its way to it: one thing at a time, message by message.              *)

(* What a message of the logic thread makes of it: whether the game has    *)
(* started; whether it is x's turn; x's hearts; whether the game left a    *)
(* mark, or all marks were wiped off; and whether a client that had a turn *)
(* to show whenever it was in a game still does.                           *)
Reads(what, x, before, msg) ==
  CASE what = "started" ->
         IF msg[1] = "T_GAME_START" THEN TRUE
         ELSE IF msg[1] = "T_RESTART_GAME" THEN FALSE ELSE before
    [] what = "turn" ->
         IF msg[1] = "T_PLAYER_TURN" THEN msg[2] = x
         ELSE IF msg[1] = "T_RESTART_GAME" THEN FALSE ELSE before
    [] what = "hearts" ->
         IF msg[1] = "T_LOSE_HP" /\ msg[2] = x THEN before - 1
         ELSE IF msg[1] = "T_RESTART_GAME" THEN MAX_HP ELSE before
    [] what = "marks" ->
         IF msg[1] \in {"T_GAME_START", "T_PLAYER_TURN", "T_LOSE_HP"} THEN "marked"
         ELSE IF msg[1] = "T_RESTART_GAME" THEN "wiped" ELSE before
    [] what = "screen" ->
         IF before = "broken" THEN before
         ELSE IF msg[1] = "T_PLAYER_TURN" THEN "turn"
         ELSE IF msg[1] = "T_RESTART_GAME" THEN "lobby"
         ELSE IF msg[1] = "T_GAME_START" /\ before = "lobby" THEN "broken" ELSE before

Lore(what) ==
  CASE what \in {"started", "turn"} -> BOOLEAN
    [] what = "hearts" -> Int
    [] what = "marks" -> {"none", "marked", "wiped"}
    [] what = "screen" -> {"lobby", "turn", "broken"}

Topic == {"started", "turn", "hearts", "marks", "screen"}

Learnt(what, x, before, s) ==
  LET lesson[n \in 0 .. Len(s)] ==
        IF n = 0 THEN before ELSE Reads(what, x, lesson[n - 1], s[n])
  IN  lesson[Len(s)]

Coming(what, x, before) == Learnt(what, x, Learnt(what, x, before, to_net), sent)


Teaches(f, what, x, before, s) ==
  f = [n \in 0 .. Len(s) |-> IF n = 0 THEN before ELSE Reads(what, x, f[n - 1], s[n])]

Lessons(what, x, before, s) == CHOOSE f : Teaches(f, what, x, before, s)

LEMMA ReadsLore ==
  ASSUME NEW what \in Topic, NEW x, NEW before \in Lore(what), NEW msg
  PROVE  Reads(what, x, before, msg) \in Lore(what)
<1>1. CASE what = "started"
  BY <1>1 DEF Reads, Lore
<1>2. CASE what = "turn"
  BY <1>2 DEF Reads, Lore
<1>3. CASE what = "hearts"
  BY <1>3, GameAssumption DEF Reads, Lore
<1>4. CASE what = "marks"
  BY <1>4 DEF Reads, Lore
<1>5. CASE what = "screen"
  BY <1>5 DEF Reads, Lore
<1> QED
  BY <1>1, <1>2, <1>3, <1>4, <1>5 DEF Topic

LEMMA LessonsAre ==
  \A what, x, before, s : what \in Topic /\ before \in Lore(what) /\ Len(s) \in Nat =>
    /\ Lessons(what, x, before, s)[0] = before
    /\ \A n \in 0 .. Len(s) : Lessons(what, x, before, s)[n] \in Lore(what)
    /\ \A n \in 1 .. Len(s) :
         Lessons(what, x, before, s)[n]
           = Reads(what, x, Lessons(what, x, before, s)[n - 1], s[n])
    /\ Learnt(what, x, before, s) = Lessons(what, x, before, s)[Len(s)]
<1> TAKE what, x, before, s
<1> HAVE what \in Topic /\ before \in Lore(what) /\ Len(s) \in Nat
<1> DEFINE N == Len(s)
           D == Lore(what)
           next == [p \in (1 .. N) \X D |-> Reads(what, x, p[2], s[p[1]])]
           F == Lessons(what, x, before, s)
<1>1. N \in Nat /\ before \in D
  OBVIOUS
<1>2. \A n \in 1 .. N : \A d \in D : Reads(what, x, d, s[n]) \in D
  BY ReadsLore
<1>3. \A n \in 1 .. N : \A d \in D : next[<<n, d>>] = Reads(what, x, d, s[n])
  OBVIOUS
<1>4. Learnt(what, x, before, s) = F[Len(s)]
  BY DEF Learnt, Lessons, Teaches
<1> HIDE DEF next, D, N
<1>5. PICK f : Iterates(f, N, D, before, next)
  <2>1. \A n \in 1 .. N : \A d \in D : next[<<n, d>>] \in D
    BY <1>2, <1>3
  <2> QED
    BY <1>1, <2>1, IterationExists
<1>6. Teaches(f, what, x, before, s)
  <2>1. \A n \in 0 .. N : f[n] = IF n = 0 THEN before ELSE Reads(what, x, f[n - 1], s[n])
    <3>1. TAKE n \in 0 .. N
    <3>2. CASE n = 0
      BY <1>5, <3>2 DEF Iterates
    <3>3. CASE n # 0
      <4>1. n \in 1 .. N /\ n - 1 \in 0 .. N
        BY <1>1, <3>3
      <4>2. f[n] = next[<<n, f[n - 1]>>] /\ f[n - 1] \in D
        BY <1>5, <4>1 DEF Iterates
      <4> QED
        BY <1>3, <3>3, <4>1, <4>2
    <3> QED
      BY <3>2, <3>3
  <2>2. f = [n \in 0 .. N |-> IF n = 0 THEN before ELSE Reads(what, x, f[n - 1], s[n])]
    BY <1>5, <2>1 DEF Iterates
  <2> QED
    BY <2>2 DEF Teaches, N
<1>7. Teaches(F, what, x, before, s)
  BY <1>6 DEF Lessons
<1>8. \A n \in 0 .. N : F[n] = IF n = 0 THEN before ELSE Reads(what, x, F[n - 1], s[n])
  <2>1. F = [n \in 0 .. N |-> IF n = 0 THEN before ELSE Reads(what, x, F[n - 1], s[n])]
    BY <1>7 DEF Teaches, N
  <2> QED
    BY ONLY <2>1
<1>9. F[0] = before
  BY <1>1, <1>8
<1>10. \A n \in 1 .. N : n \in 0 .. N /\ n # 0
  BY <1>1
<1>11. \A n \in 1 .. N : F[n] = Reads(what, x, F[n - 1], s[n])
  BY <1>8, <1>10
<1>12. \A n \in 0 .. N : F[n] \in D
  <2> DEFINE T == {n \in 0 .. N : F[n] \in D}
  <2>1. 0 \in T
    BY <1>1, <1>9
  <2>2. \A n \in 1 .. N : n - 1 \in T => n \in T
    BY <1>2, <1>10, <1>11
  <2> HIDE DEF T
  <2>3. \A n \in 0 .. N : n \in T
    BY <1>1, <2>1, <2>2, Ascending
  <2> QED
    BY <2>3 DEF T
<1> QED
  BY <1>4, <1>9, <1>11, <1>12 DEF N, D

LEMMA LearntNothing ==
  \A what, x, before :
    what \in Topic /\ before \in Lore(what)
    => Learnt(what, x, before, <<>>) = before
<1> TAKE what, x, before
<1> HAVE what \in Topic /\ before \in Lore(what)
<1> DEFINE none == <<>>
<1>1. Len(none) = 0
  OBVIOUS
<1> HIDE DEF none
<1>2. Learnt(what, x, before, none) = before
  BY <1>1, LessonsAre
<1> QED
  BY <1>2 DEF none

LEMMA LearntIsLore ==
  \A what, x, before, s :
    what \in Topic /\ before \in Lore(what) /\ IsSeq(s)
    => Learnt(what, x, before, s) \in Lore(what)
<1> TAKE what, x, before, s
<1> HAVE what \in Topic /\ before \in Lore(what) /\ IsSeq(s)
<1>1. Len(s) \in Nat /\ Len(s) \in 0 .. Len(s)
  BY DEF IsSeq
<1> QED
  BY <1>1, LessonsAre

LEMMA LearntFromTwo ==
  \A what, x, before, s, t :
    what \in Topic /\ before \in Lore(what) /\ IsSeq(s) /\ IsSeq(t)
    => Learnt(what, x, before, s \o t) = Learnt(what, x, Learnt(what, x, before, s), t)
<1> TAKE what, x, before, s, t
<1> HAVE what \in Topic /\ before \in Lore(what) /\ IsSeq(s) /\ IsSeq(t)
<1> DEFINE both == s \o t
           m == Len(s)
           n == Len(t)
           mid == Learnt(what, x, before, s)
<1>1. /\ m \in Nat /\ n \in Nat /\ Len(both) = m + n
      /\ \A k \in 1 .. m : both[k] = s[k]
      /\ \A k \in 1 .. n : both[m + k] = t[k]
  <2> DEFINE S == {s[k] : k \in 1 .. Len(s)} \cup {t[k] : k \in 1 .. Len(t)}
  <2>1. s \in [1 .. Len(s) -> S] /\ Len(s) \in Nat /\ t \in [1 .. Len(t) -> S] /\ Len(t) \in Nat
    BY DEF IsSeq
  <2>2. s \in Seq(S) /\ t \in Seq(S)
    BY <2>1
  <2> HIDE DEF S
  <2>3. /\ Len(both) = Len(s) + Len(t)
        /\ \A k \in 1 .. Len(s) + Len(t) : both[k] = IF k <= Len(s) THEN s[k] ELSE t[k - Len(s)]
    BY <2>2, ConcatProperties
  <2>4. \A k \in 1 .. Len(t) : /\ Len(s) + k \in 1 .. Len(s) + Len(t) /\ ~(Len(s) + k <= Len(s))
                               /\ (Len(s) + k) - Len(s) = k
    BY <2>1
  <2>5. \A k \in 1 .. Len(s) : k \in 1 .. Len(s) + Len(t) /\ k <= Len(s)
    BY <2>1
  <2> HIDE DEF both
  <2> QED
    BY <2>1, <2>3, <2>4, <2>5
<1> HIDE DEF both, m, n, mid
<1>2. Len(s) = m /\ Len(t) = n /\ Len(both) \in Nat /\ mid \in Lore(what)
  BY <1>1, LearntIsLore DEF m, n, mid
<1> DEFINE B == Lessons(what, x, before, both)
           F == Lessons(what, x, before, s)
           G == Lessons(what, x, mid, t)
<1>3. /\ B[0] = before /\ \A k \in 1 .. m + n : B[k] = Reads(what, x, B[k - 1], both[k])
      /\ F[0] = before /\ \A k \in 1 .. m : F[k] = Reads(what, x, F[k - 1], s[k])
      /\ G[0] = mid /\ \A k \in 1 .. n : G[k] = Reads(what, x, G[k - 1], t[k])
      /\ mid = F[m]
  <2>5. what \in Topic /\ before \in Lore(what) /\ mid \in Lore(what)
    BY <1>2
  <2>6. Len(s) \in Nat /\ Len(t) \in Nat
    BY <1>1, <1>2
  <2>1. B[0] = before /\ \A k \in 1 .. Len(both) : B[k] = Reads(what, x, B[k - 1], both[k])
    BY <1>2, LessonsAre
  <2>2. F[0] = before /\ \A k \in 1 .. Len(s) : F[k] = Reads(what, x, F[k - 1], s[k])
    BY ONLY <2>5, <2>6, LessonsAre
  <2>3. G[0] = mid /\ \A k \in 1 .. Len(t) : G[k] = Reads(what, x, G[k - 1], t[k])
    BY ONLY <2>5, <2>6, LessonsAre
  <2>4. Learnt(what, x, before, s) = F[Len(s)]
    BY <1>1, <1>2, LessonsAre
  <2> HIDE DEF B, F, G
  <2> QED
    BY <1>1, <1>2, <2>1, <2>2, <2>3, <2>4 DEF mid
<1> HIDE DEF B, F, G
<1>4. \A k \in 0 .. m : B[k] = F[k]
  <2> DEFINE T == {k \in 0 .. m : B[k] = F[k]}
  <2>1. 0 \in T
    BY <1>1, <1>3
  <2>2. \A k \in 1 .. m : k - 1 \in T => k \in T
    BY <1>1, <1>3
  <2> HIDE DEF T
  <2>3. \A k \in 0 .. m : k \in T
    BY <1>1, <2>1, <2>2, Ascending
  <2> QED
    BY <2>3 DEF T
<1>5. \A k \in 0 .. n : B[m + k] = G[k]
  <2> DEFINE T == {k \in 0 .. n : B[m + k] = G[k]}
  <2>1. 0 \in T
    BY <1>1, <1>3, <1>4
  <2>2. \A k \in 1 .. n : k - 1 \in T => k \in T
    <3>1. TAKE k \in 1 .. n
    <3>2. HAVE k - 1 \in T
    <3>3. m + k \in 1 .. m + n /\ (m + k) - 1 = m + (k - 1) /\ both[m + k] = t[k]
      BY <1>1
    <3>4. B[m + k] = Reads(what, x, B[m + (k - 1)], t[k])
      BY <1>3, <3>3
    <3>5. G[k] = Reads(what, x, G[k - 1], t[k]) /\ B[m + (k - 1)] = G[k - 1]
      BY <1>3, <3>2
    <3> QED
      BY <3>4, <3>5
  <2> HIDE DEF T
  <2>3. \A k \in 0 .. n : k \in T
    BY <1>1, <2>1, <2>2, Ascending
  <2> QED
    BY <2>3 DEF T
<1>6. Learnt(what, x, before, both) = Lessons(what, x, before, both)[m + n]
  <2>1. Len(both) \in Nat /\ Len(both) = m + n /\ what \in Topic /\ before \in Lore(what)
    BY <1>1, <1>2
  <2>2. Learnt(what, x, before, both) = Lessons(what, x, before, both)[Len(both)]
    BY ONLY <2>1, LessonsAre
  <2> QED
    BY <2>1, <2>2
<1>7. Learnt(what, x, mid, t) = Lessons(what, x, mid, t)[n]
  BY <1>2, LessonsAre
<1>8. B[m + n] = G[n]
  BY <1>1, <1>5
<1> QED
  BY <1>6, <1>7, <1>8 DEF both, mid, B, G

LEMMA LearntFromOne ==
  \A what, x, before, m :
    what \in Topic /\ before \in Lore(what)
    => Learnt(what, x, before, <<m>>) = Reads(what, x, before, m)
<1> TAKE what, x, before, m
<1> HAVE what \in Topic /\ before \in Lore(what)
<1> DEFINE s == <<m>>
<1>1. Len(s) = 1 /\ s[1] = m
  OBVIOUS
<1> HIDE DEF s
<1>2. 1 \in 1 .. Len(s) /\ 1 - 1 = 0
  BY <1>1
<1>3. Lessons(what, x, before, s)[1] = Reads(what, x, before, m)
  <2>1. Lessons(what, x, before, s)[1] = Reads(what, x, Lessons(what, x, before, s)[1 - 1], s[1])
    BY <1>1, <1>2, LessonsAre
  <2>2. Lessons(what, x, before, s)[0] = before
    BY <1>1, LessonsAre
  <2> QED
    BY <1>1, <1>2, <2>1, <2>2
<1>4. Learnt(what, x, before, s) = Lessons(what, x, before, s)[1]
  BY <1>1, LessonsAre
<1> QED
  BY <1>3, <1>4 DEF s

LEMMA LearntFromMore ==
  \A what, x, before, s, m :
    what \in Topic /\ before \in Lore(what) /\ IsSeq(s)
    => Learnt(what, x, before, Append(s, m)) = Reads(what, x, Learnt(what, x, before, s), m)
<1> TAKE what, x, before, s, m
<1> HAVE what \in Topic /\ before \in Lore(what) /\ IsSeq(s)
<1>1. Append(s, m) = s \o <<m>> /\ IsSeq(<<m>>)
  <2> DEFINE T == {s[k] : k \in 1 .. Len(s)} \cup {m}
  <2>1. s \in [1 .. Len(s) -> T] /\ Len(s) \in Nat /\ m \in T
    BY DEF IsSeq
  <2>2. s \in Seq(T) /\ m \in T
    BY <2>1
  <2> HIDE DEF T
  <2>3. Append(s, m) = s \o <<m>>
    BY <2>2
  <2> QED
    BY <2>3, SomeMessages
<1>2. Learnt(what, x, before, s) \in Lore(what)
  BY LearntIsLore
<1>3. Learnt(what, x, before, s \o <<m>>) = Learnt(what, x, Learnt(what, x, before, s), <<m>>)
  BY <1>1, LearntFromTwo
<1> QED
  BY <1>1, <1>2, <1>3, LearntFromOne

LEMMA LearntFromFirst ==
  \A what, x, before, s :
    what \in Topic /\ before \in Lore(what) /\ IsSeq(s) /\ s # <<>>
    => Learnt(what, x, before, s)
         = Learnt(what, x, Reads(what, x, before, Head(s)), Tail(s))
<1> TAKE what, x, before, s
<1> HAVE what \in Topic /\ before \in Lore(what) /\ IsSeq(s) /\ s # <<>>
<1>1. IsSeq(Tail(s)) /\ IsSeq(<<Head(s)>>) /\ s = <<Head(s)>> \o Tail(s)
  <2> DEFINE T == {s[k] : k \in 1 .. Len(s)}
  <2>1. s \in [1 .. Len(s) -> T] /\ Len(s) \in Nat
    BY DEF IsSeq
  <2>2. s \in Seq(T)
    BY <2>1
  <2> HIDE DEF T
  <2>3. s = <<Head(s)>> \o Tail(s)
    BY <2>2
  <2> QED
    BY <2>3, SomeMessages, SeqOps
<1>2. Learnt(what, x, before, <<Head(s)>> \o Tail(s))
        = Learnt(what, x, Learnt(what, x, before, <<Head(s)>>), Tail(s))
  BY <1>1, LearntFromTwo
<1> QED
  BY <1>1, <1>2, LearntFromOne

(* What is to come of a queue and of messages that have not entered it. *)
LearntOf(what, x, before, q, s) == Learnt(what, x, Learnt(what, x, before, q), s)

LEMMA OthersTeachNothing ==
  \A what, x, before, msg :
    /\ what \in Topic
    /\ msg[1] \notin {"T_GAME_START", "T_RESTART_GAME", "T_PLAYER_TURN", "T_LOSE_HP"}
    => Reads(what, x, before, msg) = before
<1> TAKE what, x, before, msg
<1> HAVE /\ what \in Topic
         /\ msg[1] \notin {"T_GAME_START", "T_RESTART_GAME", "T_PLAYER_TURN", "T_LOSE_HP"}
<1>1. CASE what = "started"
  BY <1>1 DEF Reads
<1>2. CASE what = "turn"
  BY <1>2 DEF Reads
<1>3. CASE what = "hearts"
  BY <1>3 DEF Reads
<1>4. CASE what = "marks"
  BY <1>4 DEF Reads
<1>5. CASE what = "screen"
  BY <1>5 DEF Reads
<1> QED
  BY <1>1, <1>2, <1>3, <1>4, <1>5 DEF Topic

LEMMA LearntOfLore ==
  \A what, x, before, q, s :
    what \in Topic /\ before \in Lore(what) /\ IsSeq(q) /\ IsSeq(s)
    => Learnt(what, x, before, q) \in Lore(what) /\ LearntOf(what, x, before, q, s) \in Lore(what)
<1> TAKE what, x, before, q, s
<1> HAVE what \in Topic /\ before \in Lore(what) /\ IsSeq(q) /\ IsSeq(s)
<1>1. Learnt(what, x, before, q) \in Lore(what)
  BY LearntIsLore
<1>2. Learnt(what, x, Learnt(what, x, before, q), s) \in Lore(what)
  BY <1>1, LearntIsLore
<1> QED
  BY <1>1, <1>2 DEF LearntOf

(* A message enters the queue. *)
LEMMA LearntMoves ==
  \A what, x, before, q, s :
    what \in Topic /\ before \in Lore(what) /\ IsSeq(q) /\ IsSeq(s) /\ s # <<>>
    => /\ LearntOf(what, x, before, Append(q, Head(s)), Tail(s)) = LearntOf(what, x, before, q, s)
       /\ Head(s)[1] = "T_TURN_TIME"
            => LearntOf(what, x, before, q, Tail(s)) = LearntOf(what, x, before, q, s)
<1> TAKE what, x, before, q, s
<1> HAVE what \in Topic /\ before \in Lore(what) /\ IsSeq(q) /\ IsSeq(s) /\ s # <<>>
<1> DEFINE mid == Learnt(what, x, before, q)
           m == Head(s)
           rest == Tail(s)
<1>1. mid \in Lore(what) /\ what \in Topic
  BY LearntIsLore
<1>2. Learnt(what, x, mid, s) = Learnt(what, x, Reads(what, x, mid, m), rest)
  <2> HIDE DEF mid
  <2> QED
    BY <1>1, LearntFromFirst
<1>3. Learnt(what, x, before, Append(q, m)) = Reads(what, x, mid, m)
  BY LearntFromMore
<1>4. ASSUME m[1] = "T_TURN_TIME" PROVE Reads(what, x, mid, m) = mid
  <2> HIDE DEF mid, m
  <2> QED
    BY <1>1, <1>4, OthersTeachNothing
<1> HIDE DEF m, rest
<1> QED
  BY <1>2, <1>3, <1>4 DEF LearntOf, m, rest

(* The queue's first message is read. *)
LEMMA LearntRead ==
  \A what, x, before, q, s :
    what \in Topic /\ before \in Lore(what) /\ IsSeq(q) /\ q # <<>>
    => LearntOf(what, x, before, q, s)
         = LearntOf(what, x, Reads(what, x, before, Head(q)), Tail(q), s)
<1> TAKE what, x, before, q, s
<1> HAVE what \in Topic /\ before \in Lore(what) /\ IsSeq(q) /\ q # <<>>
<1>1. Learnt(what, x, before, q) = Learnt(what, x, Reads(what, x, before, Head(q)), Tail(q))
  BY LearntFromFirst
<1> QED
  BY <1>1 DEF LearntOf

(* Messages are sent when none was waiting for the queue. *)
LEMMA LearntAdded ==
  \A what, x, before, q, t :
    what \in Topic /\ before \in Lore(what) /\ IsSeq(q)
    => LearntOf(what, x, before, q, t) = Learnt(what, x, LearntOf(what, x, before, q, <<>>), t)
<1> TAKE what, x, before, q, t
<1> HAVE what \in Topic /\ before \in Lore(what) /\ IsSeq(q)
<1>1. Learnt(what, x, before, q) \in Lore(what)
  BY LearntIsLore
<1>2. Learnt(what, x, Learnt(what, x, before, q), <<>>) = Learnt(what, x, before, q)
  BY <1>1, LearntNothing
<1> QED
  BY <1>2 DEF LearntOf

----------------------------------------------------------------------------
(* How the lessons hang together *)

(* Two ways of reading a sequence that stay related, message by message.   *)
LEMMA Alongside ==
  \A one, a, x, two, b, y, s, R :
    /\ one \in Topic /\ a \in Lore(one) /\ two \in Topic /\ b \in Lore(two)
    /\ IsSeq(s)
    /\ <<0, a, b>> \in R
    /\ \A n \in 1 .. Len(s), d \in Lore(one), e \in Lore(two) :
         <<n - 1, d, e>> \in R => <<n, Reads(one, x, d, s[n]), Reads(two, y, e, s[n])>> \in R
    => <<Len(s), Learnt(one, x, a, s), Learnt(two, y, b, s)>> \in R
<1> TAKE one, a, x, two, b, y, s, R
<1> HAVE /\ one \in Topic /\ a \in Lore(one) /\ two \in Topic /\ b \in Lore(two)
         /\ IsSeq(s)
         /\ <<0, a, b>> \in R
         /\ \A n \in 1 .. Len(s), d \in Lore(one), e \in Lore(two) :
              <<n - 1, d, e>> \in R => <<n, Reads(one, x, d, s[n]), Reads(two, y, e, s[n])>> \in R
<1> DEFINE F == Lessons(one, x, a, s)
           G == Lessons(two, y, b, s)
           N == Len(s)
<1>1. Len(s) \in Nat
  BY DEF IsSeq
<1>2. /\ F[0] = a /\ \A n \in 0 .. N : F[n] \in Lore(one)
      /\ \A n \in 1 .. N : F[n] = Reads(one, x, F[n - 1], s[n])
      /\ Learnt(one, x, a, s) = F[N]
  BY <1>1, LessonsAre
<1>3. /\ G[0] = b /\ \A n \in 0 .. N : G[n] \in Lore(two)
      /\ \A n \in 1 .. N : G[n] = Reads(two, y, G[n - 1], s[n])
      /\ Learnt(two, y, b, s) = G[N]
  BY <1>1, LessonsAre
<1> HIDE DEF F, G
<1> DEFINE T == {n \in 0 .. N : <<n, F[n], G[n]>> \in R}
<1>4. 0 \in T
  <2>1. <<0, F[0], G[0]>> \in R
    BY <1>2, <1>3
  <2> QED
    BY <1>1, <2>1
<1>5. \A n \in 1 .. N : n - 1 \in T => n \in T
  <2>1. TAKE n \in 1 .. N
  <2>2. HAVE n - 1 \in T
  <2>3. n - 1 \in 0 .. N /\ n \in 0 .. N /\ <<n - 1, F[n - 1], G[n - 1]>> \in R
    BY <1>1, <2>2
  <2>4. F[n - 1] \in Lore(one) /\ G[n - 1] \in Lore(two)
    BY <1>2, <1>3, <2>3
  <2>5. <<n, Reads(one, x, F[n - 1], s[n]), Reads(two, y, G[n - 1], s[n])>> \in R
    BY <2>3, <2>4
  <2> QED
    BY <1>2, <1>3, <2>3, <2>5
<1> HIDE DEF T, N
<1>6. \A n \in 0 .. N : n \in T
  BY <1>1, <1>4, <1>5, Ascending DEF N
<1>7. N \in T
  BY <1>1, <1>6 DEF N
<1> QED
  BY <1>2, <1>3, <1>7 DEF T, N

(* A queue and what has not entered it, read as one. *)
LEMMA LearntOfBoth ==
  \A what, x, before, q, s :
    what \in Topic /\ before \in Lore(what) /\ IsSeq(q) /\ IsSeq(s)
    => IsSeq(q \o s) /\ LearntOf(what, x, before, q, s) = Learnt(what, x, before, q \o s)
BY LearntFromTwo, MoreMessages DEF LearntOf

(* If the game leaves no mark, no hearts change; if its marks are wiped    *)
(* off, all hearts are back.                                               *)
LEMMA MarksAndHearts ==
  \A x, h, s :
    h \in Int /\ IsSeq(s)
    => /\ Learnt("marks", 0, "none", s) = "none" => Learnt("hearts", x, h, s) = h
       /\ Learnt("marks", 0, "none", s) = "wiped" => Learnt("hearts", x, h, s) = MAX_HP
<1> TAKE x, h, s
<1> HAVE h \in Int /\ IsSeq(s)
<1> DEFINE Fits(n, d, e) == (d = "none" => e = h) /\ (d = "wiped" => e = MAX_HP)
           R == {r \in (0 .. Len(s)) \X Lore("marks") \X Lore("hearts") : Fits(r[1], r[2], r[3])}
<1>1. /\ Lore("marks") = {"none", "marked", "wiped"} /\ Lore("hearts") = Int
      /\ "marks" \in Topic /\ "hearts" \in Topic /\ Len(s) \in Nat
  BY DEF Lore, Topic, IsSeq
<1>2. \A n, d, e : <<n, d, e>> \in R
                     <=> n \in 0 .. Len(s) /\ d \in Lore("marks") /\ e \in Lore("hearts") /\ Fits(n, d, e)
  OBVIOUS
<1>3. ASSUME NEW n \in 1 .. Len(s), NEW d \in Lore("marks"), NEW e \in Lore("hearts"), Fits(n - 1, d, e)
      PROVE  Fits(n, Reads("marks", 0, d, s[n]), Reads("hearts", x, e, s[n]))
  BY <1>1, <1>3 DEF Reads
<1> HIDE DEF R, Fits
<1>4. ASSUME NEW n \in 1 .. Len(s), NEW d \in Lore("marks"), NEW e \in Lore("hearts"),
             <<n - 1, d, e>> \in R
      PROVE  <<n, Reads("marks", 0, d, s[n]), Reads("hearts", x, e, s[n])>> \in R
  <2>1. /\ Reads("marks", 0, d, s[n]) \in Lore("marks")
        /\ Reads("hearts", x, e, s[n]) \in Lore("hearts")
        /\ n \in 0 .. Len(s)
    BY <1>1, ReadsLore
  <2> QED
    BY <1>2, <1>3, <1>4, <2>1
<1>5. <<0, "none", h>> \in R
  BY <1>1, <1>2 DEF Fits
<1>6. "none" \in Lore("marks") /\ h \in Lore("hearts")
  BY <1>1
<1>7. <<Len(s), Learnt("marks", 0, "none", s), Learnt("hearts", x, h, s)>> \in R
  BY <1>1, <1>4, <1>5, <1>6, Alongside
<1> QED
  BY <1>2, <1>7 DEF Fits

(* Marks of before are seen if no others come and they are not wiped off. *)
LEMMA MarksOfBefore ==
  \A b, s :
    b \in Lore("marks") /\ IsSeq(s)
    => Learnt("marks", 0, b, s)
         = IF Learnt("marks", 0, "none", s) = "none" THEN b ELSE Learnt("marks", 0, "none", s)
<1> TAKE b, s
<1> HAVE b \in Lore("marks") /\ IsSeq(s)
<1> DEFINE Fits(n, d, e) == e = IF d = "none" THEN b ELSE d
           R == {r \in (0 .. Len(s)) \X Lore("marks") \X Lore("marks") : Fits(r[1], r[2], r[3])}
<1>1. /\ Lore("marks") = {"none", "marked", "wiped"}
      /\ "marks" \in Topic /\ Len(s) \in Nat
  BY DEF Lore, Topic, IsSeq
<1>2. \A n, d, e : <<n, d, e>> \in R
                     <=> n \in 0 .. Len(s) /\ d \in Lore("marks") /\ e \in Lore("marks") /\ Fits(n, d, e)
  OBVIOUS
<1>3. ASSUME NEW n \in 1 .. Len(s), NEW d \in Lore("marks"), NEW e \in Lore("marks"), Fits(n - 1, d, e)
      PROVE  Fits(n, Reads("marks", 0, d, s[n]), Reads("marks", 0, e, s[n]))
  BY <1>1, <1>3 DEF Reads
<1> HIDE DEF R, Fits
<1>4. ASSUME NEW n \in 1 .. Len(s), NEW d \in Lore("marks"), NEW e \in Lore("marks"),
             <<n - 1, d, e>> \in R
      PROVE  <<n, Reads("marks", 0, d, s[n]), Reads("marks", 0, e, s[n])>> \in R
  <2>1. /\ Reads("marks", 0, d, s[n]) \in Lore("marks")
        /\ Reads("marks", 0, e, s[n]) \in Lore("marks")
        /\ n \in 0 .. Len(s)
    BY <1>1, ReadsLore
  <2> QED
    BY <1>2, <1>3, <1>4, <2>1
<1>5. <<0, "none", b>> \in R
  BY <1>1, <1>2 DEF Fits
<1>6. "none" \in Lore("marks")
  BY <1>1
<1>7. <<Len(s), Learnt("marks", 0, "none", s), Learnt("marks", 0, b, s)>> \in R
  BY <1>1, <1>4, <1>5, <1>6, Alongside
<1> QED
  BY <1>2, <1>7 DEF Fits

(* Who has no turn to show comes off no better than who has one, and that  *)
(* only if a game starts before a turn is announced.                       *)
LEMMA ScreensInStep ==
  \A s :
    IsSeq(s)
    => /\ Learnt("screen", 0, "lobby", s) # "broken" => Learnt("screen", 0, "turn", s) # "broken"
       /\ Learnt("screen", 0, "turn", s) # "broken"
          /\ (\A k \in 1 .. Len(s) :
                s[k][1] = "T_GAME_START" => \E j \in 1 .. k : s[j][1] = "T_PLAYER_TURN")
          => Learnt("screen", 0, "lobby", s) # "broken"
       /\ Learnt("screen", 0, "broken", s) = "broken"
<1> TAKE s
<1> HAVE IsSeq(s)
<1> DEFINE NoTurnYet(n) == \A j \in 1 .. n : s[j][1] # "T_PLAYER_TURN"
           Early == \E k \in 1 .. Len(s) : s[k][1] = "T_GAME_START" /\ NoTurnYet(k)
           Fits(n, d, e) == \/ d = e
                            \/ d = "lobby" /\ e = "turn" /\ NoTurnYet(n)
                            \/ d = "broken" /\ (e = "broken" \/ Early)
           R == {r \in (0 .. Len(s)) \X Lore("screen") \X Lore("screen") : Fits(r[1], r[2], r[3])}
           B == {r \in (0 .. Len(s)) \X Lore("screen") \X Lore("screen") : r[2] = "broken"}
<1>1. /\ Lore("screen") = {"lobby", "turn", "broken"}
      /\ "screen" \in Topic /\ Len(s) \in Nat
  BY DEF Lore, Topic, IsSeq
<1>2. \A n, d, e : <<n, d, e>> \in R
                     <=> n \in 0 .. Len(s) /\ d \in Lore("screen") /\ e \in Lore("screen") /\ Fits(n, d, e)
  OBVIOUS
<1>3. ASSUME NEW n \in 1 .. Len(s), NEW d \in Lore("screen"), NEW e \in Lore("screen"), Fits(n - 1, d, e)
      PROVE  Fits(n, Reads("screen", 0, d, s[n]), Reads("screen", 0, e, s[n]))
  <2>1. \A j \in 1 .. n : j \in 1 .. n - 1 \/ j = n
    BY <1>1
  <2>2. s[n][1] # "T_PLAYER_TURN" /\ NoTurnYet(n - 1) => NoTurnYet(n)
    BY <2>1
  <2>3. s[n][1] = "T_GAME_START" /\ NoTurnYet(n) => Early
    OBVIOUS
  <2> HIDE DEF NoTurnYet, Early
  <2>4. CASE s[n][1] = "T_PLAYER_TURN"
    BY <1>1, <1>3, <2>2, <2>3, <2>4 DEF Reads
  <2>5. CASE s[n][1] = "T_RESTART_GAME"
    BY <1>1, <1>3, <2>2, <2>3, <2>5 DEF Reads
  <2>6. CASE s[n][1] = "T_GAME_START"
    BY <1>1, <1>3, <2>2, <2>3, <2>6 DEF Reads
  <2>7. CASE s[n][1] \notin {"T_PLAYER_TURN", "T_RESTART_GAME", "T_GAME_START"}
    BY <1>1, <1>3, <2>2, <2>3, <2>7 DEF Reads
  <2> QED
    BY <2>4, <2>5, <2>6, <2>7
<1>4. <<0, "lobby", "turn">> \in R
  BY <1>1, <1>2
<1>5. ASSUME NEW d \in Lore("screen"), NEW n PROVE ~Early => (Fits(n, d, "turn") => d # "broken")
  OBVIOUS
<1>6. Early \/ \A k \in 1 .. Len(s) :
                 s[k][1] = "T_GAME_START" => \E j \in 1 .. k : s[j][1] = "T_PLAYER_TURN"
  OBVIOUS
<1> HIDE DEF R
<1>7. ASSUME NEW n \in 1 .. Len(s), NEW d \in Lore("screen"), NEW e \in Lore("screen"),
             <<n - 1, d, e>> \in R
      PROVE  <<n, Reads("screen", 0, d, s[n]), Reads("screen", 0, e, s[n])>> \in R
  <2>1. /\ Reads("screen", 0, d, s[n]) \in Lore("screen")
        /\ Reads("screen", 0, e, s[n]) \in Lore("screen")
        /\ n \in 0 .. Len(s)
    BY <1>1, ReadsLore
  <2> HIDE DEF Fits
  <2> QED
    BY <1>2, <1>3, <1>7, <2>1
<1>8. <<Len(s), Learnt("screen", 0, "lobby", s), Learnt("screen", 0, "turn", s)>> \in R
  <2>1. "lobby" \in Lore("screen") /\ "turn" \in Lore("screen")
    BY <1>1
  <2> QED
    BY <1>1, <1>4, <1>7, <2>1, Alongside
<1>9. Learnt("screen", 0, "broken", s) = "broken"
  <2>1. \A n, d, e : <<n, d, e>> \in B
                       <=> n \in 0 .. Len(s) /\ d \in Lore("screen") /\ e \in Lore("screen") /\ d = "broken"
    OBVIOUS
  <2> HIDE DEF B
  <2>2. ASSUME NEW n \in 1 .. Len(s), NEW d \in Lore("screen"), NEW e \in Lore("screen"),
               <<n - 1, d, e>> \in B
        PROVE  <<n, Reads("screen", 0, d, s[n]), Reads("screen", 0, e, s[n])>> \in B
    <3>1. /\ Reads("screen", 0, d, s[n]) \in Lore("screen")
          /\ Reads("screen", 0, e, s[n]) \in Lore("screen")
          /\ n \in 0 .. Len(s)
      BY <1>1, ReadsLore
    <3>2. Reads("screen", 0, d, s[n]) = "broken"
      BY <2>1, <2>2 DEF Reads
    <3> QED
      BY <2>1, <3>1, <3>2
  <2>3. "broken" \in Lore("screen") /\ <<0, "broken", "broken">> \in B
    BY <1>1, <2>1
  <2>4. <<Len(s), Learnt("screen", 0, "broken", s), Learnt("screen", 0, "broken", s)>> \in B
    BY <1>1, <2>2, <2>3, Alongside
  <2> QED
    BY <2>1, <2>4
<1> QED
  BY <1>2, <1>6, <1>8, <1>9

----------------------------------------------------------------------------
(* What the logic thread sends to the networking thread. *)
NetMsg ==
  {<<"T_GAME_START">>, <<"T_RESTART_GAME">>}
    \cup {<<"T_SEND_REQ_STR", substr>> : substr \in Substr}
    \cup {<<"T_TURN_TIME", time>> : time \in Int}
    \cup {<<code, id>> : code \in {"T_PLAYER_TURN", "T_INCORRECT_WORD", "T_LOSE_HP",
                                   "T_PLAYER_WON", "T_GAME_STARTED_NO_JOINING"}, id \in Id}
    \cup {<<"T_CORRECT_WORD", id, word>> : id \in Id, word \in Word}

(* Messages that name a player. *)
About == {"T_PLAYER_TURN", "T_CORRECT_WORD", "T_LOSE_HP", "T_PLAYER_WON"}

Entry == [id : Id, name : {<<>>}, hp : Int]

Screen ==
  [phase : {"main"}, players : Seq(Entry), my_id : Id, game_started : BOOLEAN,
   player_turn : Int, req_substr : Substr \cup {"none"}]

(* A relayed message has its code translated, and its values. *)
LEMMA RelayedMessage ==
  \A msg :
    msg \in NetMsg /\ ForAll(msg)
    => /\ Relayed(msg)[1] = NetCode[msg[1]]
       /\ msg[1] \notin {"T_GAME_START", "T_RESTART_GAME"} => Relayed(msg)[2] = msg[2]
       /\ msg[1] \in About => msg[2] \in Id
       /\ msg[1] = "T_SEND_REQ_STR" => msg[2] \in Substr
<1> TAKE msg
<1> HAVE msg \in NetMsg /\ ForAll(msg)
<1> DEFINE c == NetCode[msg[1]]
<1>1. Relayed(msg) = <<c>> \o Tail(msg)
  BY DEF Relayed
<1>2. ASSUME NEW a, NEW b, NEW d
      PROVE  /\ <<d>> \o Tail(<<a>>) = <<d>>
             /\ <<d>> \o Tail(<<a, b>>) = <<d, b>>
  <2>1. Tail(<<a>>) = <<>> /\ Tail(<<a, b>>) = <<b>>
    OBVIOUS
  <2> QED
    BY <2>1, InFrontOf
<1>3. ASSUME NEW a, NEW b, NEW e, NEW d
      PROVE  <<d>> \o Tail(<<a, b, e>>) = <<d, b, e>>
  <2>1. Tail(<<a, b, e>>) = <<b, e>>
    OBVIOUS
  <2> QED
    BY <2>1, InFrontOf
<1> HIDE DEF c
<1>4. CASE msg \in {<<"T_GAME_START">>, <<"T_RESTART_GAME">>}
  <2>1. Relayed(msg) = <<c>> /\ msg[1] \in {"T_GAME_START", "T_RESTART_GAME"}
    <3>1. CASE msg = <<"T_GAME_START">>
      BY <1>1, <1>2, <3>1
    <3>2. CASE msg = <<"T_RESTART_GAME">>
      BY <1>1, <1>2, <3>2
    <3> QED
      BY <1>4, <3>1, <3>2
  <2> QED
    BY <2>1 DEF c, About
<1>5. ASSUME NEW substr \in Substr, msg = <<"T_SEND_REQ_STR", substr>>
      PROVE  Relayed(msg) = <<c, msg[2]>> /\ msg[1] = "T_SEND_REQ_STR" /\ msg[2] \in Substr
  BY <1>1, <1>2, <1>5
<1>6. ASSUME NEW time \in Int, msg = <<"T_TURN_TIME", time>>
      PROVE  Relayed(msg) = <<c, msg[2]>> /\ msg[1] = "T_TURN_TIME"
  BY <1>1, <1>2, <1>6
<1>7. ASSUME NEW code \in {"T_PLAYER_TURN", "T_INCORRECT_WORD", "T_LOSE_HP",
                           "T_PLAYER_WON", "T_GAME_STARTED_NO_JOINING"},
             NEW id \in Id, msg = <<code, id>>
      PROVE  Relayed(msg) = <<c, msg[2]>> /\ msg[1] = code /\ msg[2] \in Id
  BY <1>1, <1>2, <1>7
<1>8. ASSUME NEW id \in Id, NEW word \in Word, msg = <<"T_CORRECT_WORD", id, word>>
      PROVE  Relayed(msg) = <<c, msg[2], msg[3]>> /\ msg[1] = "T_CORRECT_WORD" /\ msg[2] \in Id
  BY <1>1, <1>3, <1>8
<1> QED
  BY <1>4, <1>5, <1>6, <1>7, <1>8 DEF NetMsg, About, c

(* In a list that holds nobody twice, a player is found at its place. *)
LEMMA FoundAtPlace ==
  ASSUME NEW cl \in Screen,
         \A i, j \in 1 .. Len(cl.players) : cl.players[i].id = cl.players[j].id => i = j
  PROVE  /\ \A x : C!Known(cl, x) <=> \E i \in 1 .. Len(cl.players) : cl.players[i].id = x
         /\ \A i \in 1 .. Len(cl.players) : C!FirstOf(cl, cl.players[i].id) = i
         /\ \A x : C!Known(cl, x)
                     => C!FirstOf(cl, x) \in 1 .. Len(cl.players) /\ cl.players[C!FirstOf(cl, x)].id = x
<1>1. \A x : C!Known(cl, x) <=> \E i \in 1 .. Len(cl.players) : cl.players[i].id = x
  BY DEF C!Known, C!IdPlaces
<1>2. Len(cl.players) \in Nat
  BY DEF Screen
<1>3. ASSUME NEW i \in 1 .. Len(cl.players)
      PROVE  C!FirstOf(cl, cl.players[i].id) = i
  <2>1. C!IdPlaces(cl, cl.players[i].id) = {i}
    BY DEF C!IdPlaces
  <2>2. C!FirstOf(cl, cl.players[i].id) = CHOOSE k \in {i} : \A j \in {i} : k <= j
    BY <2>1 DEF C!FirstOf
  <2> QED
    BY <1>2, <2>2
<1> QED
  BY <1>1, <1>3

(* What a client makes of a relayed message: what the lessons say, as long *)
(* as it knows whoever the message is about.                               *)
LEMMA ClientReads ==
  ASSUME NEW cl \in Screen,
         \A i, j \in 1 .. Len(cl.players) : cl.players[i].id = cl.players[j].id => i = j,
         NEW msg \in NetMsg, ForAll(msg),
         NEW after, after = C!process_server_command(cl, Relayed(msg))
  PROVE  \/ after = C!Crashed(cl) /\ msg[1] \in About /\ ~C!Known(cl, msg[2])
         \/ /\ after \in Screen
            /\ Len(after.players) = Len(cl.players)
            /\ \A i \in 1 .. Len(cl.players) :
                 /\ after.players[i].id = cl.players[i].id
                 /\ after.players[i].hp
                      = Reads("hearts", cl.players[i].id, cl.players[i].hp, msg)
            /\ after.game_started = Reads("started", 0, cl.game_started, msg)
            /\ after.player_turn
                 = IF msg[1] = "T_PLAYER_TURN" THEN IF C!Known(cl, msg[2]) THEN msg[2] ELSE C!NoTurn
                   ELSE IF msg[1] = "T_RESTART_GAME" THEN C!NoTurn ELSE cl.player_turn
<1> DEFINE n == Len(cl.players)
           Learned ==
             /\ after \in Screen
             /\ Len(after.players) = Len(cl.players)
             /\ \A i \in 1 .. Len(cl.players) :
                  /\ after.players[i].id = cl.players[i].id
                  /\ after.players[i].hp
                       = Reads("hearts", cl.players[i].id, cl.players[i].hp, msg)
             /\ after.game_started = Reads("started", 0, cl.game_started, msg)
             /\ after.player_turn
                  = IF msg[1] = "T_PLAYER_TURN" THEN IF C!Known(cl, msg[2]) THEN msg[2] ELSE C!NoTurn
                    ELSE IF msg[1] = "T_RESTART_GAME" THEN C!NoTurn ELSE cl.player_turn
<1>1. /\ cl.players \in Seq(Entry) /\ cl.phase = "main" /\ cl.my_id \in Id
      /\ cl.game_started \in BOOLEAN /\ cl.player_turn \in Int
      /\ cl.req_substr \in Substr \cup {"none"}
      /\ \A i \in 1 .. n : cl.players[i] \in Entry
  BY DEF Screen
<1>2. /\ Relayed(msg)[1] = NetCode[msg[1]]
      /\ msg[1] \notin {"T_GAME_START", "T_RESTART_GAME"} => Relayed(msg)[2] = msg[2]
      /\ msg[1] \in About => msg[2] \in Id
      /\ msg[1] = "T_SEND_REQ_STR" => msg[2] \in Substr
  BY RelayedMessage
<1>3. msg[1] \in {"T_GAME_START", "T_SEND_REQ_STR", "T_TURN_TIME", "T_PLAYER_TURN", "T_CORRECT_WORD",
                  "T_INCORRECT_WORD", "T_LOSE_HP", "T_PLAYER_WON", "T_RESTART_GAME"}
  BY DEF ForAll, NetCode
<1>4. ASSUME after = cl, msg[1] \notin {"T_GAME_START", "T_RESTART_GAME", "T_PLAYER_TURN", "T_LOSE_HP"}
      PROVE  Learned
  BY <1>4 DEF Reads
<1>5. CASE msg[1] = "T_GAME_START"
  <2>1. after = [cl EXCEPT !.game_started = TRUE]
    BY <1>2, <1>5 DEF NetCode, C!process_server_command
  <2>2. after \in Screen /\ after.players = cl.players /\ after.game_started = TRUE
        /\ after.player_turn = cl.player_turn
    BY <1>1, <2>1 DEF Screen
  <2> QED
    BY <1>5, <2>2 DEF Reads
<1>6. CASE msg[1] = "T_SEND_REQ_STR"
  <2>1. after = [cl EXCEPT !.req_substr = msg[2]]
    BY <1>2, <1>6 DEF NetCode, C!process_server_command
  <2>2. after \in Screen /\ after.players = cl.players /\ after.game_started = cl.game_started
        /\ after.player_turn = cl.player_turn
    BY <1>1, <1>2, <1>6, <2>1 DEF Screen
  <2> QED
    BY <1>6, <2>2 DEF Reads
<1>7. CASE msg[1] \in {"T_TURN_TIME", "T_INCORRECT_WORD"}
  <2>1. after = cl
    BY <1>2, <1>7 DEF NetCode, C!process_server_command
  <2> QED
    BY <1>4, <1>7, <2>1
<1>8. CASE msg[1] \in {"T_CORRECT_WORD", "T_PLAYER_WON"}
  <2>1. after = cl \/ after = C!naming_alert(cl, msg[2])
    BY <1>2, <1>8 DEF NetCode, C!process_server_command
  <2>2. after = cl \/ (after = C!Crashed(cl) /\ ~C!Known(cl, msg[2]))
    BY <2>1 DEF C!naming_alert
  <2> QED
    BY <1>4, <1>8, <2>2 DEF About
<1>9. CASE msg[1] = "T_PLAYER_TURN"
  <2>1. after = [cl EXCEPT !.player_turn = IF C!Known(cl, msg[2]) THEN msg[2] ELSE C!NoTurn]
    BY <1>2, <1>9 DEF NetCode, C!process_server_command
  <2>2. msg[2] \in Int /\ C!NoTurn \in Int
    <3>1. msg[2] \in Id /\ Id \subseteq Nat
      BY <1>2, <1>9, GameAssumption DEF About
    <3>2. \A id : id \in Id => id \in Int
      BY ONLY GameAssumption
    <3>3. C!NoTurn \in Int
      BY DEF C!NoTurn
    <3> QED
      BY ONLY <3>1, <3>2, <3>3
  <2>3. /\ after \in Screen /\ after.players = cl.players /\ after.game_started = cl.game_started
        /\ after.player_turn = IF C!Known(cl, msg[2]) THEN msg[2] ELSE C!NoTurn
    BY <1>1, <2>1, <2>2 DEF Screen
  <2> QED
    BY <1>9, <2>3 DEF Reads
<1>10. CASE msg[1] = "T_LOSE_HP"
  <2>1. after = C!lose_heart(cl, msg[2])
    BY <1>2, <1>10 DEF NetCode, C!process_server_command
  <2>2. CASE ~C!Known(cl, msg[2])
    BY <1>10, <2>1, <2>2 DEF C!lose_heart, About
  <2>3. CASE C!Known(cl, msg[2])
    <3> DEFINE at == C!FirstOf(cl, msg[2])
    <3>1. at \in 1 .. n /\ cl.players[at].id = msg[2]
      BY <2>3, FoundAtPlace
    <3>2. after = [cl EXCEPT !.players[at].hp = @ - 1]
      BY <2>1, <2>3 DEF C!lose_heart
    <3> HIDE DEF at
    <3>3. /\ after.players = [cl.players EXCEPT ![at].hp = @ - 1]
          /\ after.game_started = cl.game_started /\ after.player_turn = cl.player_turn
          /\ after.phase = "main" /\ after.my_id = cl.my_id /\ after.req_substr = cl.req_substr
      BY <1>1, <3>2 DEF Screen
    <3>4. /\ Len(after.players) = n
          /\ \A i \in 1 .. n : after.players[i].id = cl.players[i].id
          /\ \A i \in 1 .. n : after.players[i].hp
                                 = IF i = at THEN cl.players[i].hp - 1 ELSE cl.players[i].hp
          /\ after.players \in Seq(Entry)
      <4>1. cl.players[at] \in Entry
        BY <1>1, <3>1
      <4>2. [cl.players[at] EXCEPT !.hp = @ - 1] \in Entry
        BY <4>1 DEF Entry
      <4>3. after.players = [cl.players EXCEPT ![at] = [cl.players[at] EXCEPT !.hp = @ - 1]]
        BY <3>3
      <4>4. after.players \in Seq(Entry) /\ Len(after.players) = n
        BY <1>1, <3>1, <4>2, <4>3
      <4>5. \A i \in 1 .. n : after.players[i]
              = IF i = at THEN [cl.players[at] EXCEPT !.hp = @ - 1] ELSE cl.players[i]
        BY <1>1, <3>1, <4>3
      <4>6. /\ [cl.players[at] EXCEPT !.hp = @ - 1].id = cl.players[at].id
            /\ [cl.players[at] EXCEPT !.hp = @ - 1].hp = cl.players[at].hp - 1
        BY <4>1 DEF Entry
      <4> QED
        BY <4>4, <4>5, <4>6
    <3>5. after \in Screen
      <4>1. DOMAIN after = DOMAIN cl
        BY <3>2
      <4>2. after = [phase |-> "main", players |-> after.players, my_id |-> cl.my_id,
                     game_started |-> cl.game_started, player_turn |-> cl.player_turn,
                     req_substr |-> cl.req_substr]
        BY <1>1, <3>2 DEF Screen
      <4> QED
        BY <1>1, <3>4, <4>2 DEF Screen
    <3>6. \A i \in 1 .. n : i = at <=> cl.players[i].id = msg[2]
      BY <3>1
    <3>7. \A i \in 1 .. n : Reads("hearts", cl.players[i].id, cl.players[i].hp, msg)
                              = IF i = at THEN cl.players[i].hp - 1 ELSE cl.players[i].hp
      BY <1>10, <3>6 DEF Reads
    <3>8. Reads("started", 0, cl.game_started, msg) = cl.game_started
      BY <1>10 DEF Reads
    <3> QED
      BY <1>10, <3>3, <3>4, <3>5, <3>7, <3>8
  <2> QED
    BY <2>2, <2>3
<1>11. CASE msg[1] = "T_RESTART_GAME"
  <2>1. after = C!restart_game(cl)
    BY <1>2, <1>11 DEF NetCode, C!process_server_command
  <2> DEFINE fresh == [i \in 1 .. n |-> [cl.players[i] EXCEPT !.hp = MAX_HP]]
  <2>2. after = [cl EXCEPT !.game_started = FALSE, !.player_turn = C!NoTurn, !.players = fresh]
    BY <2>1 DEF C!restart_game
  <2>3. \A i \in 1 .. n : /\ [cl.players[i] EXCEPT !.hp = MAX_HP] \in Entry
                          /\ [cl.players[i] EXCEPT !.hp = MAX_HP].id = cl.players[i].id
                          /\ [cl.players[i] EXCEPT !.hp = MAX_HP].hp = MAX_HP
    <3>1. MAX_HP \in Int
      BY GameAssumption
    <3> QED
      BY <1>1, <3>1 DEF Entry
  <2>4. /\ fresh \in Seq(Entry) /\ Len(fresh) = n
        /\ \A i \in 1 .. n : fresh[i].id = cl.players[i].id /\ fresh[i].hp = MAX_HP
    <3>1. n \in Nat
      BY <1>1
    <3>2. fresh \in [1 .. n -> Entry]
      BY <2>3
    <3> QED
      BY <2>3, <3>1, <3>2
  <2> HIDE DEF fresh
  <2>5. C!NoTurn \in Int
    BY DEF C!NoTurn
  <2>6. /\ after \in Screen /\ after.players = fresh /\ after.game_started = FALSE
        /\ after.player_turn = C!NoTurn
    BY <1>1, <2>2, <2>4, <2>5 DEF Screen
  <2> QED
    BY <1>11, <2>4, <2>6 DEF Reads
<1> QED
  BY <1>3, <1>5, <1>6, <1>7, <1>8, <1>9, <1>10, <1>11

(* A client takes a player off its list. *)
LEMMA ClientLosesPlayer ==
  ASSUME NEW cl \in Screen,
         \A i, j \in 1 .. Len(cl.players) : cl.players[i].id = cl.players[j].id => i = j,
         NEW at \in 1 .. Len(cl.players),
         NEW after,
         after = C!process_server_command(cl, <<"N_PLAYER_LEFT", cl.players[at].id>>)
  PROVE  /\ after \in Screen
         /\ Len(after.players) = Len(cl.players) - 1
         /\ \A k \in 1 .. Len(cl.players) - 1 :
              after.players[k] = IF k < at THEN cl.players[k] ELSE cl.players[k + 1]
         /\ after.game_started = cl.game_started
         /\ after.player_turn
              = IF cl.player_turn = cl.players[at].id THEN C!FreedTurn ELSE cl.player_turn
<1> DEFINE id == cl.players[at].id
<1>1. /\ cl.players \in Seq(Entry) /\ cl.phase = "main" /\ cl.my_id \in Id
      /\ cl.game_started \in BOOLEAN /\ cl.player_turn \in Int
      /\ cl.req_substr \in Substr \cup {"none"}
  BY DEF Screen
<1>2. C!Known(cl, id) /\ C!FirstOf(cl, id) = at
  BY FoundAtPlace
<1>3. after = C!remove_player(cl, id)
  <2> DEFINE msg == <<"N_PLAYER_LEFT", id>>
  <2>1. msg[1] = "N_PLAYER_LEFT" /\ msg[2] = id
    OBVIOUS
  <2>2. after = C!process_server_command(cl, msg)
    OBVIOUS
  <2> HIDE DEF msg, id
  <2> QED
    BY <2>1, <2>2 DEF C!process_server_command
<1> HIDE DEF id
<1> DEFINE less == C!RemoveAt(cl.players, at)
           turn == IF cl.player_turn = id THEN C!FreedTurn ELSE cl.player_turn
<1>4. after = [cl EXCEPT !.players = less, !.player_turn = turn]
  <2>1. after = IF ~C!Known(cl, id) THEN C!Crashed(cl)
                ELSE [cl EXCEPT !.players = C!RemoveAt(cl.players, C!FirstOf(cl, id)),
                                !.player_turn = IF cl.player_turn = id THEN C!FreedTurn ELSE cl.player_turn]
    BY ONLY <1>3 DEF C!remove_player
  <2> QED
    BY <1>2, <2>1
<1>5. /\ C!RemoveAt(cl.players, at) \in Seq(Entry)
      /\ Len(C!RemoveAt(cl.players, at)) = Len(cl.players) - 1
      /\ \A k \in 1 .. Len(cl.players) - 1 :
           C!RemoveAt(cl.players, at)[k] = IF k < at THEN cl.players[k] ELSE cl.players[k + 1]
  <2>1. cl.players \in Seq(Entry) /\ at \in 1 .. Len(cl.players)
    BY <1>1
  <2>2. C!RemoveAt(cl.players, at) = RemoveAt(cl.players, at)
    BY ONLY DEF C!RemoveAt, RemoveAt
  <2>3. /\ RemoveAt(cl.players, at) \in Seq(Entry)
        /\ Len(RemoveAt(cl.players, at)) = Len(cl.players) - 1
        /\ \A k \in 1 .. Len(cl.players) - 1 :
             RemoveAt(cl.players, at)[k] = IF k < at THEN cl.players[k] ELSE cl.players[k + 1]
    BY ONLY <2>1, TakenOut
  <2> QED
    BY <2>2, <2>3
<1>6. C!FreedTurn \in Int
  BY DEF C!FreedTurn
<1>7. less \in Seq(Entry) /\ turn \in Int
  BY <1>1, <1>5, <1>6
<1> HIDE DEF less, turn
<1>8. /\ after \in Screen /\ after.players = less
      /\ after.game_started = cl.game_started /\ after.player_turn = turn
  BY <1>1, <1>4, <1>7 DEF Screen
<1> QED
  BY <1>5, <1>8 DEF id, less, turn

(* A client puts a newcomer on its list. *)
LEMMA ClientGainsPlayer ==
  ASSUME NEW cl \in Screen, NEW id \in Id,
         NEW after, after = C!create_player(cl, id, <<>>)
  PROVE  /\ after \in Screen
         /\ Len(after.players) = Len(cl.players) + 1
         /\ \A k \in 1 .. Len(cl.players) : after.players[k] = cl.players[k]
         /\ after.players[Len(cl.players) + 1].id = id
         /\ after.players[Len(cl.players) + 1].hp = MAX_HP
         /\ after.game_started = cl.game_started
         /\ after.player_turn = cl.player_turn
<1> DEFINE e == C!new_player(id, <<>>)
<1>1. /\ cl.players \in Seq(Entry) /\ cl.phase = "main" /\ cl.my_id \in Id
      /\ cl.game_started \in BOOLEAN /\ cl.player_turn \in Int
      /\ cl.req_substr \in Substr \cup {"none"}
  BY DEF Screen
<1>2. MAX_HP \in Int
  BY GameAssumption
<1>3. e \in Entry /\ e.id = id /\ e.hp = MAX_HP
  BY <1>2 DEF Entry, C!new_player
<1>4. after = [cl EXCEPT !.players = Append(cl.players, e)]
  BY DEF C!create_player
<1> HIDE DEF e
<1>5. /\ Append(cl.players, e) \in Seq(Entry)
      /\ Len(Append(cl.players, e)) = Len(cl.players) + 1
      /\ \A k \in 1 .. Len(cl.players) : Append(cl.players, e)[k] = cl.players[k]
      /\ Append(cl.players, e)[Len(cl.players) + 1] = e
  BY <1>1, <1>3, AppendProperties
<1>6. /\ after \in Screen /\ after.players = Append(cl.players, e)
      /\ after.game_started = cl.game_started /\ after.player_turn = cl.player_turn
  BY <1>1, <1>4, <1>5 DEF Screen
<1> QED
  BY <1>3, <1>5, <1>6

(* What becomes of one client when some are told something. *)
LEMMA ToldOne ==
  ASSUME NEW ids, NEW msg, Tell(ids, msg), NEW c \in Id,
         NEW after, after = C!process_server_command(client[c], msg)
  PROVE  /\ c \in ids /\ client[c].phase = "main"
              => \/ client'[c] = after
                 \/ after.phase = "main" /\ client'[c] = C!display_ui(after)
         /\ c \notin ids \/ client[c].phase # "main" => client'[c] = client[c]
<1> DEFINE now == [id \in Id |-> IF id \in ids /\ client[id].phase = "main"
                                   THEN C!process_server_command(client[id], msg)
                                   ELSE client[id]]
           drawn == [id \in Id |-> IF id \in ids /\ now[id].phase = "main"
                                     THEN C!display_ui(now[id]) ELSE now[id]]
<1>1. PICK draw \in SUBSET {id \in Id : drawn[id] # now[id]} :
        client' = [id \in Id |-> IF id \in draw THEN drawn[id] ELSE now[id]]
  BY DEF Tell
<1>2. client'[c] = now[c] \/ (client'[c] = drawn[c] /\ drawn[c] # now[c])
  BY <1>1
<1>3. /\ now[c] = IF c \in ids /\ client[c].phase = "main" THEN after ELSE client[c]
      /\ drawn[c] = IF c \in ids /\ now[c].phase = "main" THEN C!display_ui(now[c]) ELSE now[c]
  OBVIOUS
<1> HIDE DEF now, drawn
<1> QED
  BY <1>2, <1>3

(* The logic thread's messages name only players, and refuse only those    *)
(* who ask to join.                                                        *)
Fit ==
  {m \in NetMsg : /\ m[1] \in About => Plays(m[2])
                  /\ m[1] = "T_GAME_STARTED_NO_JOINING" => JoinRefused(m[2])}

TurnMsg(id) == <<"T_PLAYER_TURN", id>>

(* What is learnt of messages that say nothing of the game. *)
SaysNothing(s) ==
  \A what, x, before :
    what \in Topic /\ before \in Lore(what) => Learnt(what, x, before, s) = before

LEMMA MessagesFit ==
  ASSUME IInv
  PROVE  /\ <<"T_GAME_START">> \in Fit /\ <<"T_RESTART_GAME">> \in Fit
         /\ \A substr \in Substr : <<"T_SEND_REQ_STR", substr>> \in Fit
         /\ \A time \in Int : <<"T_TURN_TIME", time>> \in Fit
         /\ \A id \in Id : /\ <<"T_INCORRECT_WORD", id>> \in Fit
                           /\ JoinRefused(id) => Refusal(id) \in Fit
         /\ \A i \in 1 .. Len(players) :
              /\ TurnMsg(players[i].id) \in Fit
              /\ <<"T_LOSE_HP", players[i].id>> \in Fit
              /\ <<"T_PLAYER_WON", players[i].id>> \in Fit
              /\ \A word \in Word : <<"T_CORRECT_WORD", players[i].id, word>> \in Fit
<1>1. \A i \in 1 .. Len(players) : players[i].id \in Id /\ Plays(players[i].id)
  BY SeatsArePlayers DEF Plays
<1>2. <<"T_GAME_START">> \in Fit /\ <<"T_RESTART_GAME">> \in Fit
  BY DEF Fit, NetMsg, About
<1>3. \A substr \in Substr : <<"T_SEND_REQ_STR", substr>> \in Fit
  BY DEF Fit, NetMsg, About
<1>4. \A time \in Int : <<"T_TURN_TIME", time>> \in Fit
  BY DEF Fit, NetMsg, About
<1>5. ASSUME NEW code \in {"T_PLAYER_TURN", "T_INCORRECT_WORD", "T_LOSE_HP",
                           "T_PLAYER_WON", "T_GAME_STARTED_NO_JOINING"}, NEW id \in Id,
             code \in About => Plays(id),
             code = "T_GAME_STARTED_NO_JOINING" => JoinRefused(id)
      PROVE  <<code, id>> \in Fit
  <2>1. <<code, id>> \in NetMsg
    BY DEF NetMsg
  <2> QED
    BY <1>5, <2>1 DEF Fit
<1>6. \A id \in Id : /\ <<"T_INCORRECT_WORD", id>> \in Fit
                     /\ JoinRefused(id) => Refusal(id) \in Fit
  BY <1>5 DEF About, Refusal
<1>7. ASSUME NEW i \in 1 .. Len(players)
      PROVE  /\ TurnMsg(players[i].id) \in Fit
             /\ <<"T_LOSE_HP", players[i].id>> \in Fit
             /\ <<"T_PLAYER_WON", players[i].id>> \in Fit
  BY <1>1, <1>5, <1>7 DEF TurnMsg
<1>8. ASSUME NEW i \in 1 .. Len(players), NEW word \in Word
      PROVE  <<"T_CORRECT_WORD", players[i].id, word>> \in Fit
  <2>1. <<"T_CORRECT_WORD", players[i].id, word>> \in NetMsg
    BY <1>1 DEF NetMsg
  <2> QED
    BY <1>1, <2>1 DEF Fit
<1> QED
  BY <1>2, <1>3, <1>4, <1>6, <1>7, <1>8

(* One of the messages that announce a turn says something. *)
LEMMA LearntFromTurn ==
  \A what, x, before, place, substr :
    what \in Topic /\ before \in Lore(what)
    => Learnt(what, x, before, TurnMessages(place, substr))
         = Reads(what, x, before, TurnMsg(place[NextHolder(place)].id))
<1> TAKE what, x, before, place, substr
<1> HAVE what \in Topic /\ before \in Lore(what)
<1> DEFINE a == <<"T_SEND_REQ_STR", substr>>
           b == TurnMsg(place[NextHolder(place)].id)
           c == <<"T_TURN_TIME", turn_timer>>
<1>1. TurnMessages(place, substr) = <<a, b, c>>
  BY DEF TurnMessages, TurnMsg
<1>2. a[1] = "T_SEND_REQ_STR" /\ c[1] = "T_TURN_TIME"
  OBVIOUS
<1> HIDE DEF a, b, c
<1>3. <<a, b, c>> = Append(Append(<<a>>, b), c)
  OBVIOUS
<1>4. IsSeq(<<a>>)
  BY SomeMessages
<1>5. IsSeq(Append(<<a>>, b))
  BY <1>4, SeqOps
<1>6. Learnt(what, x, before, <<a>>) = before
  BY <1>2, LearntFromOne, OthersTeachNothing
<1>7. Learnt(what, x, before, Append(<<a>>, b)) = Reads(what, x, before, b)
  BY <1>4, <1>6, LearntFromMore
<1>8. Learnt(what, x, before, Append(Append(<<a>>, b), c)) = Reads(what, x, before, b)
  <2>1. Learnt(what, x, before, Append(Append(<<a>>, b), c))
          = Reads(what, x, Learnt(what, x, before, Append(<<a>>, b)), c)
    BY <1>5, LearntFromMore
  <2> QED
    BY <1>2, <1>7, <2>1, OthersTeachNothing
<1> QED
  BY <1>1, <1>3, <1>8 DEF b

LEMMA LearntOfPass ==
  \A what, x, before, s, place, substr, t :
    what \in Topic /\ before \in Lore(what) /\ IsSeq(s) /\ IsSeq(t)
    => Learnt(what, x, before, s \o TurnMessages(place, substr) \o t)
         = Learnt(what, x, Reads(what, x, Learnt(what, x, before, s),
                                 TurnMsg(place[NextHolder(place)].id)), t)
<1> TAKE what, x, before, s, place, substr, t
<1> HAVE what \in Topic /\ before \in Lore(what) /\ IsSeq(s) /\ IsSeq(t)
<1> DEFINE m == TurnMessages(place, substr)
           msg == TurnMsg(place[NextHolder(place)].id)
           then == Learnt(what, x, before, s)
<1>1. IsSeq(m)
  BY SomeMessages DEF TurnMessages
<1>2. then \in Lore(what)
  BY LearntIsLore
<1>3. Learnt(what, x, then, m) = Reads(what, x, then, msg)
  <2> HIDE DEF then
  <2> QED
    BY <1>2, LearntFromTurn
<1> HIDE DEF m, msg
<1>4. Learnt(what, x, before, s \o m) = Learnt(what, x, then, m)
  BY <1>1, LearntFromTwo
<1>5. IsSeq(s \o m)
  BY <1>1, MoreMessages
<1>6. Learnt(what, x, before, (s \o m) \o t) = Learnt(what, x, Learnt(what, x, before, s \o m), t)
  BY <1>5, LearntFromTwo
<1> QED
  BY <1>3, <1>4, <1>6 DEF m, msg

LEMMA PassFits ==
  ASSUME IInv, NEW s \in Seq(Fit), NEW t \in Seq(Fit), NEW substr \in Substr, NEW place,
         NEW i \in 1 .. Len(players), place[NextHolder(place)].id = players[i].id
  PROVE  s \o TurnMessages(place, substr) \o t \in Seq(Fit)
<1>1. TurnMessages(place, substr)
        = << <<"T_SEND_REQ_STR", substr>>, TurnMsg(players[i].id), <<"T_TURN_TIME", turn_timer>> >>
  BY DEF TurnMessages, TurnMsg
<1>2. turn_timer \in Int
  BY DEF IInv, TypeOK
<1>3. /\ <<"T_SEND_REQ_STR", substr>> \in Fit /\ TurnMsg(players[i].id) \in Fit
      /\ <<"T_TURN_TIME", turn_timer>> \in Fit
  BY <1>2, MessagesFit
<1>4. TurnMessages(place, substr) \in Seq(Fit)
  BY ONLY <1>1, <1>3
<1> QED
  BY <1>4, ConcatProperties

(* Passing the turn on tells whose turn it is. *)
LEMMA PassTurnTells ==
  ASSUME IInv, NEW before \in Seq(Fit), NEW after \in Seq(Fit), PassTurn(before, after),
         IsSeq(before), IsSeq(after), player_turn # FREED,
         game_started \/ \E i, j \in AlivePlaces(players) : i # j
  PROVE  \/ fault' # "none" /\ sent' = <<>>
         \/ /\ players' = players
            /\ player_turn' \in 1 .. Len(players)
            /\ sent' \in Seq(Fit)
            /\ \A what, x, b :
                 what \in Topic /\ b \in Lore(what)
                 => Learnt(what, x, b, sent')
                      = Learnt(what, x, Reads(what, x, Learnt(what, x, b, before),
                                              TurnMsg(players[player_turn'].id)), after)
<1>1. players \in Seq(Player) /\ TypeOK /\ TurnHolderAlive /\ LobbyIsFresh /\ UniqueIds
  BY DEF IInv, TypeOK, Player
<1>2. player_turn = NULL => 1 \in AlivePlaces(players)
  BY <1>1, GameAssumption DEF TypeOK, LobbyIsFresh, TurnHolderAlive, AlivePlaces, NULL, FREED
<1>3. NextHolder(players) \in AlivePlaces(players) \cup {NULL}
  BY <1>1, <1>2, NextHolderAlive DEF TypeOK, UniqueIds
<1>4. CASE NextHolder(players) = NULL
  BY <1>4 DEF PassTurn, Die
<1>5. CASE NextHolder(players) # NULL
  <2>1. /\ player_turn' = NextHolder(players) /\ players' = players
        /\ \E substr \in Substr : sent' = before \o TurnMessages(players, substr) \o after
    BY <1>5 DEF PassTurn
  <2>2. player_turn' \in 1 .. Len(players)
    BY <1>3, <1>5, <2>1 DEF AlivePlaces
  <2>3. PICK substr \in Substr : sent' = before \o TurnMessages(players, substr) \o after
    BY <2>1
  <2>4. sent' \in Seq(Fit)
    BY <2>1, <2>2, <2>3, PassFits
  <2>5. ASSUME NEW what, NEW x, NEW b, what \in Topic, b \in Lore(what)
        PROVE  Learnt(what, x, b, sent')
                 = Learnt(what, x, Reads(what, x, Learnt(what, x, b, before),
                                         TurnMsg(players[player_turn'].id)), after)
    BY <2>1, <2>3, <2>5, LearntOfPass
  <2> QED
    BY <2>1, <2>2, <2>4, <2>5
<1> QED
  BY <1>4, <1>5

LEMMA LearntFromEnd ==
  \A what, x, before, id :
    what \in Topic /\ before \in Lore(what)
    => Learnt(what, x, before, << <<"T_PLAYER_WON", id>>, <<"T_RESTART_GAME">> >>)
         = Reads(what, x, before, <<"T_RESTART_GAME">>)
<1> TAKE what, x, before, id
<1> HAVE what \in Topic /\ before \in Lore(what)
<1> DEFINE a == <<"T_PLAYER_WON", id>>
           b == <<"T_RESTART_GAME">>
<1>1. a[1] = "T_PLAYER_WON"
  OBVIOUS
<1> HIDE DEF a, b
<1>2. <<a, b>> = Append(<<a>>, b)
  OBVIOUS
<1>3. IsSeq(<<a>>)
  BY SomeMessages
<1>4. Learnt(what, x, before, <<a>>) = before
  BY <1>1, LearntFromOne, OthersTeachNothing
<1>5. Learnt(what, x, before, Append(<<a>>, b)) = Reads(what, x, before, b)
  BY <1>3, <1>4, LearntFromMore
<1> QED
  BY <1>2, <1>5 DEF a, b

(* The time left, after a frame's messages, says nothing of the game. *)
LEMMA FrameEnds ==
  ASSUME IInv, NEW messages \in Seq(Fit), IsSeq(messages), NEW deltatime,
         EndFrame(messages, deltatime), turn_timer' \in Int
  PROVE  /\ sent' \in Seq(Fit)
         /\ \A what, x, b :
              what \in Topic /\ b \in Lore(what)
              => Learnt(what, x, b, sent') = Learnt(what, x, b, messages)
<1> DEFINE m == <<"T_TURN_TIME", turn_timer'>>
<1>1. sent' = messages \/ sent' = Append(messages, m)
  BY DEF EndFrame
<1>2. m \in Fit
  BY MessagesFit
<1>3. m[1] = "T_TURN_TIME"
  OBVIOUS
<1> HIDE DEF m
<1>4. sent' \in Seq(Fit)
  BY <1>1, <1>2
<1>5. ASSUME NEW what, NEW x, NEW b, what \in Topic, b \in Lore(what)
      PROVE  Learnt(what, x, b, sent') = Learnt(what, x, b, messages)
  <2>1. Learnt(what, x, b, Append(messages, m))
          = Reads(what, x, Learnt(what, x, b, messages), m)
    BY <1>5, LearntFromMore
  <2>2. Reads(what, x, Learnt(what, x, b, messages), m) = Learnt(what, x, b, messages)
    BY <1>3, <1>5, OthersTeachNothing
  <2> QED
    BY <1>1, <2>1, <2>2
<1> QED
  BY <1>4, <1>5

LoseMsg(id) == <<"T_LOSE_HP", id>>

(* A turn that ran out of time costs its holder a heart. *)
LEMMA TimeOutTells ==
  ASSUME IInv, NEW deltatime \in DeltaTime, TimeOut(deltatime)
  PROVE  \/ fault' # "none" /\ sent' = <<>>
         \/ /\ game_started /\ player_turn \in 1 .. Len(players)
            /\ sent' \in Seq(Fit)
            /\ \E h \in 1 .. Len(players) :
                 \/ /\ ~game_started'
                    /\ \A what, x, b :
                         what \in Topic /\ b \in Lore(what)
                         => Learnt(what, x, b, sent')
                              = Reads(what, x,
                                      Reads(what, x,
                                            Reads(what, x, b, LoseMsg(players[player_turn].id)),
                                            TurnMsg(players[h].id)),
                                      <<"T_RESTART_GAME">>)
                 \/ /\ game_started' /\ player_turn' = h
                    /\ \A j \in 1 .. Len(players) :
                         players'[j].hp = IF j = player_turn THEN players[j].hp - 1 ELSE players[j].hp
                    /\ \A what, x, b :
                         what \in Topic /\ b \in Lore(what)
                         => Learnt(what, x, b, sent')
                              = Reads(what, x,
                                      Reads(what, x, b, LoseMsg(players[player_turn].id)),
                                      TurnMsg(players[h].id))
<1> DEFINE place == lose_hp(players, player_turn)
           h == NextHolder(place)
           one == << <<"T_LOSE_HP", place[player_turn].id>> >>
           won == << <<"T_PLAYER_WON", place[h].id>>, <<"T_RESTART_GAME">> >>
<1>1. players \in Seq(Player) /\ TypeOK /\ UniqueIds
  BY DEF IInv, TypeOK, Player
<1>2. game_started /\ player_turn \in AlivePlaces(players)
  BY DEF TimeOut, IInv, TurnHolderAlive
<1>3. /\ place \in Seq(Player) /\ Len(place) = Len(players)
      /\ \A j \in 1 .. Len(players) :
           /\ place[j].id = players[j].id
           /\ place[j].hp = IF j = player_turn THEN players[j].hp - 1 ELSE players[j].hp
  BY <1>1, <1>2, LoseHp
<1>4. player_turn \in 1 .. Len(players)
  BY <1>2 DEF AlivePlaces
<1>5. h \in AlivePlaces(place) \cup {NULL}
  <2>1. player_turn \in 1 .. Len(place) /\ player_turn # NULL
    BY <1>1, <1>3, <1>4 DEF NULL
  <2>2. \A m, n \in 1 .. Len(place) : place[m].id = place[n].id => m = n
    BY <1>1, <1>3 DEF UniqueIds
  <2> HIDE DEF place
  <2> QED
    BY <1>3, <2>1, <2>2, NextHolderAlive
<1>6. CASE h = NULL
  BY <1>6 DEF TimeOut, Die
<1>7. CASE h # NULL
  <2>1. \E substr \in Substr :
          \/ /\ game_started' = FALSE /\ turn_timer' = 0
             /\ EndFrame(one \o TurnMessages(place, substr) \o won, deltatime)
          \/ /\ players' = place /\ player_turn' = h /\ turn_timer' = MAX_TURN_TIMER
             /\ game_started' = game_started
             /\ EndFrame(one \o TurnMessages(place, substr), deltatime)
    BY <1>7 DEF TimeOut
  <2>2. h \in 1 .. Len(players)
    BY <1>3, <1>5, <1>7 DEF AlivePlaces
  <2>3. /\ one = << LoseMsg(players[player_turn].id) >>
        /\ won = << <<"T_PLAYER_WON", players[h].id>>, <<"T_RESTART_GAME">> >>
        /\ place[NextHolder(place)].id = players[h].id
    BY <1>3, <1>4, <2>2 DEF LoseMsg
  <2> HIDE DEF one, won, h, place
  <2>4. /\ LoseMsg(players[player_turn].id) \in Fit
        /\ <<"T_PLAYER_WON", players[h].id>> \in Fit /\ <<"T_RESTART_GAME">> \in Fit
    BY <1>4, <2>2, MessagesFit DEF LoseMsg
  <2>5. one \in Seq(Fit) /\ won \in Seq(Fit) /\ IsSeq(one) /\ IsSeq(won)
    BY <2>3, <2>4, SomeMessages
  <2>6. turn_timer' \in Int
    BY <2>1, GameAssumption
  <2>7. PICK substr \in Substr :
          \/ /\ game_started' = FALSE /\ turn_timer' = 0
             /\ EndFrame(one \o TurnMessages(place, substr) \o won, deltatime)
          \/ /\ players' = place /\ player_turn' = h /\ turn_timer' = MAX_TURN_TIMER
             /\ game_started' = game_started
             /\ EndFrame(one \o TurnMessages(place, substr), deltatime)
    BY <2>1
  <2> DEFINE turn == TurnMessages(place, substr)
  <2>8. IsSeq(turn) /\ IsSeq(one \o turn) /\ IsSeq(one \o turn \o won)
    BY <2>5, SomeMessages, MoreMessages DEF TurnMessages
  <2>9. one \o turn \o won \in Seq(Fit)
    BY <2>2, <2>3, <2>5, PassFits
  <2>10. one \o turn \in Seq(Fit)
    <3>1. one \o turn \o <<>> \in Seq(Fit)
      <4>1. <<>> \in Seq(Fit)
        OBVIOUS
      <4> QED
        BY <2>2, <2>3, <2>5, <4>1, PassFits
    <3>2. one \o turn \o <<>> = one \o turn
      BY <2>8 DEF IsSeq
    <3> QED
      BY <3>1, <3>2
  <2>11. ASSUME NEW what, NEW x, NEW b, what \in Topic, b \in Lore(what)
         PROVE  /\ Learnt(what, x, b, one \o turn)
                     = Reads(what, x, Reads(what, x, b, LoseMsg(players[player_turn].id)),
                             TurnMsg(players[h].id))
                /\ Learnt(what, x, b, one \o turn \o won)
                     = Reads(what, x,
                             Reads(what, x, Reads(what, x, b, LoseMsg(players[player_turn].id)),
                                   TurnMsg(players[h].id)),
                             <<"T_RESTART_GAME">>)
    <3> DEFINE d == Reads(what, x, b, LoseMsg(players[player_turn].id))
               e == Reads(what, x, d, TurnMsg(players[h].id))
    <3>1. Learnt(what, x, b, one) = d
      BY <2>3, <2>11, LearntFromOne
    <3>2. d \in Lore(what)
      BY <2>11, ReadsLore
    <3>3. e \in Lore(what)
      <4> HIDE DEF d
      <4> QED
        BY <2>11, <3>2, ReadsLore
    <3> HIDE DEF d
    <3>4. Learnt(what, x, d, turn) = e
      BY <2>3, <2>11, <3>2, LearntFromTurn
    <3>5. Learnt(what, x, b, one \o turn) = e
      BY <2>5, <2>8, <2>11, <3>1, <3>4, LearntFromTwo
    <3> HIDE DEF e
    <3>6. Learnt(what, x, b, one \o turn \o won) = Learnt(what, x, e, won)
      BY <2>5, <2>8, <2>11, <3>5, LearntFromTwo
    <3>7. Learnt(what, x, e, won) = Reads(what, x, e, <<"T_RESTART_GAME">>)
      BY <2>3, <2>11, <3>3, LearntFromEnd
    <3> QED
      BY <3>5, <3>6, <3>7 DEF d, e
  <2> HIDE DEF turn
  <2>12. CASE game_started' = FALSE /\ EndFrame(one \o turn \o won, deltatime)
    <3>1. /\ sent' \in Seq(Fit)
          /\ \A what, x, b :
               what \in Topic /\ b \in Lore(what)
               => Learnt(what, x, b, sent') = Learnt(what, x, b, one \o turn \o won)
      BY <2>6, <2>8, <2>9, <2>12, FrameEnds
    <3> QED
      BY <1>2, <1>4, <2>2, <2>11, <2>12, <3>1
  <2>13. CASE /\ players' = place /\ player_turn' = h
              /\ game_started' = game_started
              /\ EndFrame(one \o turn, deltatime)
    <3>1. /\ sent' \in Seq(Fit)
          /\ \A what, x, b :
               what \in Topic /\ b \in Lore(what)
               => Learnt(what, x, b, sent') = Learnt(what, x, b, one \o turn)
      BY <2>6, <2>8, <2>10, <2>13, FrameEnds
    <3>2. \A what, x, b :
            what \in Topic /\ b \in Lore(what)
            => Learnt(what, x, b, sent')
                 = Reads(what, x, Reads(what, x, b, LoseMsg(players[player_turn].id)),
                         TurnMsg(players[h].id))
      BY <2>11, <3>1
    <3>3. /\ game_started' /\ player_turn' = h
          /\ \A j \in 1 .. Len(players) :
               players'[j].hp = IF j = player_turn THEN players[j].hp - 1 ELSE players[j].hp
      BY <1>2, <1>3, <2>13
    <3>4. sent' \in Seq(Fit)
      BY ONLY <3>1
    <3> QED
      BY ONLY <1>2, <1>4, <2>2, <3>2, <3>3, <3>4
  <2> QED
    BY <2>7, <2>12, <2>13 DEF turn
<1> QED
  BY <1>6, <1>7

(* What a step of the logic thread tells, but for joins and departures. *)
TellsNothing ==
  /\ UNCHANGED <<players, player_turn, game_started>>
  /\ SaysNothing(sent')

TellsOfTurn ==
  /\ players' = players /\ game_started' /\ player_turn' \in 1 .. Len(players)
  /\ \/ /\ game_started
        /\ \A what, x, b :
             what \in Topic /\ b \in Lore(what)
             => Learnt(what, x, b, sent')
                  = Reads(what, x, b, TurnMsg(players[player_turn'].id))
     \/ \A what, x, b :
          what \in Topic /\ b \in Lore(what)
          => Learnt(what, x, b, sent')
               = Reads(what, x, Reads(what, x, b, TurnMsg(players[player_turn'].id)),
                       <<"T_GAME_START">>)

TellsOfLoss ==
  /\ game_started /\ player_turn \in 1 .. Len(players) /\ SamePlayers
  /\ \E h \in 1 .. Len(players) :
       \/ /\ ~game_started'
          /\ \A what, x, b :
               what \in Topic /\ b \in Lore(what)
               => Learnt(what, x, b, sent')
                    = Reads(what, x,
                            Reads(what, x,
                                  Reads(what, x, b, LoseMsg(players[player_turn].id)),
                                  TurnMsg(players[h].id)),
                            <<"T_RESTART_GAME">>)
       \/ /\ game_started' /\ player_turn' = h
          /\ \A j \in 1 .. Len(players) :
               players'[j].hp = IF j = player_turn THEN players[j].hp - 1 ELSE players[j].hp
          /\ \A what, x, b :
               what \in Topic /\ b \in Lore(what)
               => Learnt(what, x, b, sent')
                    = Reads(what, x,
                            Reads(what, x, b, LoseMsg(players[player_turn].id)),
                            TurnMsg(players[h].id))

Dies == fault' # "none" /\ sent' = <<>>

LEMMA NothingIsSaid ==
  /\ SaysNothing(<<>>)
  /\ \A m : m[1] \notin {"T_GAME_START", "T_RESTART_GAME", "T_PLAYER_TURN", "T_LOSE_HP"}
            => SaysNothing(<<m>>)
<1>1. SaysNothing(<<>>)
  BY LearntNothing DEF SaysNothing
<1>2. ASSUME NEW m,
             m[1] \notin {"T_GAME_START", "T_RESTART_GAME", "T_PLAYER_TURN", "T_LOSE_HP"}
      PROVE  SaysNothing(<<m>>)
  <2>1. ASSUME NEW what, NEW x, NEW b, what \in Topic, b \in Lore(what)
        PROVE  Learnt(what, x, b, <<m>>) = b
    <3>1. Learnt(what, x, b, <<m>>) = Reads(what, x, b, m)
      BY <2>1, LearntFromOne
    <3> QED
      BY <1>2, <2>1, <3>1, OthersTeachNothing
  <2> QED
    BY <2>1 DEF SaysNothing
<1> QED
  BY <1>1, <1>2

LEMMA WordsTell ==
  ASSUME IInv, NEW id \in Id, NEW word \in Word, WordWrong(id, word) \/ WordRight(id, word)
  PROVE  sent' \in Seq(Fit) /\ (TellsNothing \/ TellsOfTurn \/ Dies)
<1> DEFINE wrong == <<"T_INCORRECT_WORD", id>>
           right == <<"T_CORRECT_WORD", id, word>>
<1>1. CASE WordWrong(id, word)
  <2>1. sent' = <<wrong>> /\ UNCHANGED <<players, player_turn, game_started>>
    BY <1>1 DEF WordWrong, playing
  <2>2. wrong \in Fit
    BY MessagesFit
  <2>3. wrong[1] = "T_INCORRECT_WORD"
    OBVIOUS
  <2> HIDE DEF wrong
  <2>4. sent' \in Seq(Fit) /\ SaysNothing(sent')
    BY <2>1, <2>2, <2>3, NothingIsSaid
  <2> QED
    BY <2>1, <2>4 DEF TellsNothing
<1>2. CASE WordRight(id, word)
  <2>1. /\ PassTurn(<<right>>, <<>>) /\ UNCHANGED game_started
        /\ player_turn \in 1 .. Len(players) /\ players[player_turn].id = id
    BY <1>2 DEF WordRight, PlaceOf
  <2>2. right \in Fit
    BY <2>1, MessagesFit
  <2>3. player_turn # FREED /\ player_turn # NULL
    <3>1. Len(players) \in Nat
      BY SeatsArePlayers
    <3> QED
      BY <2>1, <3>1 DEF FREED, NULL
  <2>4. game_started
    BY <2>3 DEF IInv, LobbyIsFresh
  <2>5. right[1] = "T_CORRECT_WORD"
    OBVIOUS
  <2> HIDE DEF right
  <2>6. <<right>> \in Seq(Fit) /\ <<>> \in Seq(Fit) /\ IsSeq(<<right>>) /\ IsSeq(<<>>)
    BY <2>2, SomeMessages
  <2>7. \/ fault' # "none" /\ sent' = <<>>
        \/ /\ players' = players
           /\ player_turn' \in 1 .. Len(players)
           /\ sent' \in Seq(Fit)
           /\ \A what, x, b :
                what \in Topic /\ b \in Lore(what)
                => Learnt(what, x, b, sent')
                     = Learnt(what, x, Reads(what, x, Learnt(what, x, b, <<right>>),
                                             TurnMsg(players[player_turn'].id)), <<>>)
    BY <2>1, <2>3, <2>4, <2>6, PassTurnTells
  <2>8. ASSUME NEW what, NEW x, NEW b, what \in Topic, b \in Lore(what), NEW msg
        PROVE  Learnt(what, x, Reads(what, x, Learnt(what, x, b, <<right>>), msg), <<>>)
                 = Reads(what, x, b, msg)
    <3>1. Learnt(what, x, b, <<right>>) = b
      BY <2>5, <2>8, NothingIsSaid DEF SaysNothing
    <3>2. Reads(what, x, b, msg) \in Lore(what)
      BY <2>8, ReadsLore
    <3> QED
      BY <2>8, <3>1, <3>2, LearntNothing
  <2>9. CASE fault' # "none" /\ sent' = <<>>
    BY <2>6, <2>9 DEF Dies
  <2>10. CASE /\ players' = players
              /\ player_turn' \in 1 .. Len(players)
              /\ sent' \in Seq(Fit)
              /\ \A what, x, b :
                   what \in Topic /\ b \in Lore(what)
                   => Learnt(what, x, b, sent')
                        = Learnt(what, x, Reads(what, x, Learnt(what, x, b, <<right>>),
                                                TurnMsg(players[player_turn'].id)), <<>>)
    BY <2>1, <2>4, <2>8, <2>10 DEF TellsOfTurn
  <2> QED
    BY <2>7, <2>9, <2>10
<1> QED
  BY <1>1, <1>2

LEMMA StartTells ==
  ASSUME IInv, Start
  PROVE  sent' \in Seq(Fit) /\ (TellsOfTurn \/ Dies)
<1> DEFINE m == <<"T_GAME_START">>
<1>1. PassTurn(<<>>, <<m>>) /\ game_started' = TRUE /\ player_turn # FREED
  BY DEF Start
<1>2. \E i, j \in AlivePlaces(players) : i # j
  <2>1. players \in Seq(Player) /\ get_alive_player_count(players) >= 2
    BY DEF Start, IInv, TypeOK, Player
  <2> QED
    BY <2>1, AliveCount
<1>3. m \in Fit
  BY MessagesFit
<1> HIDE DEF m
<1>4. <<m>> \in Seq(Fit) /\ <<>> \in Seq(Fit) /\ IsSeq(<<m>>) /\ IsSeq(<<>>)
  BY <1>3, SomeMessages
<1>5. \/ fault' # "none" /\ sent' = <<>>
      \/ /\ players' = players
         /\ player_turn' \in 1 .. Len(players)
         /\ sent' \in Seq(Fit)
         /\ \A what, x, b :
              what \in Topic /\ b \in Lore(what)
              => Learnt(what, x, b, sent')
                   = Learnt(what, x, Reads(what, x, Learnt(what, x, b, <<>>),
                                           TurnMsg(players[player_turn'].id)), <<m>>)
  BY <1>1, <1>2, <1>4, PassTurnTells
<1>6. ASSUME NEW what, NEW x, NEW b, what \in Topic, b \in Lore(what), NEW msg
      PROVE  Learnt(what, x, Reads(what, x, Learnt(what, x, b, <<>>), msg), <<m>>)
               = Reads(what, x, Reads(what, x, b, msg), m)
  <2>1. Learnt(what, x, b, <<>>) = b
    BY <1>6, LearntNothing
  <2>2. Reads(what, x, b, msg) \in Lore(what)
    BY <1>6, ReadsLore
  <2> QED
    BY <1>6, <2>1, <2>2, LearntFromOne
<1>7. CASE fault' # "none" /\ sent' = <<>>
  BY <1>4, <1>7 DEF Dies
<1>8. CASE /\ players' = players
           /\ player_turn' \in 1 .. Len(players)
           /\ sent' \in Seq(Fit)
           /\ \A what, x, b :
                what \in Topic /\ b \in Lore(what)
                => Learnt(what, x, b, sent')
                     = Learnt(what, x, Reads(what, x, Learnt(what, x, b, <<>>),
                                             TurnMsg(players[player_turn'].id)), <<m>>)
  <2>1. \A what, x, b :
          what \in Topic /\ b \in Lore(what)
          => Learnt(what, x, b, sent')
               = Reads(what, x, Reads(what, x, b, TurnMsg(players[player_turn'].id)), m)
    BY <1>6, <1>8
  <2> QED
    BY <1>1, <1>8, <2>1 DEF TellsOfTurn, m
<1> QED
  BY <1>5, <1>7, <1>8

LEMMA ClockTells ==
  ASSUME IInv, NEW deltatime \in DeltaTime, Countdown(deltatime) \/ TimeOut(deltatime)
  PROVE  sent' \in Seq(Fit) /\ (TellsNothing \/ TellsOfLoss \/ Dies)
<1>1. CASE Countdown(deltatime)
  <2>1. EndFrame(<<>>, deltatime) /\ UNCHANGED <<players, player_turn, game_started>>
    BY <1>1 DEF Countdown, playing
  <2>2. turn_timer' \in Int
    BY <1>1, GameAssumption DEF Countdown, IInv, TypeOK
  <2>3. <<>> \in Seq(Fit) /\ IsSeq(<<>>)
    BY SomeMessages
  <2>4. /\ sent' \in Seq(Fit)
        /\ \A what, x, b :
             what \in Topic /\ b \in Lore(what)
             => Learnt(what, x, b, sent') = Learnt(what, x, b, <<>>)
    BY <2>1, <2>2, <2>3, FrameEnds
  <2>5. SaysNothing(sent')
    BY <2>4, LearntNothing DEF SaysNothing
  <2> QED
    BY <2>1, <2>4, <2>5 DEF TellsNothing
<1>2. CASE TimeOut(deltatime)
  <2>1. SamePlayers
    BY <1>2, OthersKeepPlayers DEF Clock
  <2>2. <<>> \in Seq(Fit)
    OBVIOUS
  <2> QED
    BY <1>2, <2>1, <2>2, TimeOutTells DEF TellsOfLoss, Dies
<1> QED
  BY <1>1, <1>2

(* All of them. *)
LEMMA LogicTells ==
  ASSUME IInv,
         \/ NoLine \/ StartRefused \/ Start \/ StartThroughFreed \/ NoMoreMessages \/ Clock
         \/ \E id \in Id :
              \/ JoinRefused(id) \/ WordWithoutTurn(id) \/ WordOutOfTurn(id)
              \/ \E word \in Word : WordWrong(id, word) \/ WordRight(id, word)
  PROVE  sent' \in Seq(Fit) /\ (TellsNothing \/ TellsOfTurn \/ TellsOfLoss \/ Dies)
<1>1. <<>> \in Seq(Fit)
  OBVIOUS
<1>2. CASE \/ StartThroughFreed \/ TimeOutThroughFreed \/ \E id \in Id : WordWithoutTurn(id)
  <2>1. \E why \in {"freed_player", "null_turn"} : Die(why)
    BY <1>2 DEF StartThroughFreed, TimeOutThroughFreed, WordWithoutTurn
  <2> QED
    BY <1>1, <2>1 DEF Die, Dies
<1>3. CASE \/ NoLine \/ StartRefused \/ NoMoreMessages \/ Lobby
           \/ \E id \in Id : WordOutOfTurn(id)
  <2>1. sent' = <<>> /\ UNCHANGED <<players, player_turn, game_started>>
    BY <1>3 DEF NoLine, StartRefused, NoMoreMessages, Lobby, WordOutOfTurn, playing
  <2> QED
    BY <1>1, <2>1, NothingIsSaid DEF TellsNothing
<1>4. ASSUME NEW id \in Id, JoinRefused(id)
      PROVE  sent' \in Seq(Fit) /\ TellsNothing
  <2>1. sent' = << Refusal(id) >> /\ UNCHANGED <<players, player_turn, game_started>>
    BY <1>4 DEF JoinRefused, playing, Refusal
  <2>2. Refusal(id) \in Fit /\ Refusal(id)[1] = "T_GAME_STARTED_NO_JOINING"
    BY <1>4, MessagesFit DEF Refusal
  <2>3. SaysNothing(<< Refusal(id) >>)
    BY <2>2, NothingIsSaid
  <2> QED
    BY <2>1, <2>2, <2>3 DEF TellsNothing
<1>5. CASE Start
  BY <1>5, StartTells
<1>6. CASE Clock
  BY <1>2, <1>3, <1>6, ClockTells DEF Clock
<1> QED
  BY <1>2, <1>3, <1>4, <1>5, <1>6, WordsTell

----------------------------------------------------------------------------
MessagesAreOfLogic ==
  /\ \A k \in 1 .. Len(to_net) : to_net[k] \in NetMsg
  /\ \A k \in 1 .. Len(sent) : sent[k] \in NetMsg

(* A client in its main loop has the networking thread's list. *)
RosterIsList(c) ==
  /\ client[c] \in Screen
  /\ c \in Range(list)
  /\ Len(client[c].players) = Len(list)
  /\ \A i \in 1 .. Len(list) : client[c].players[i].id = list[i]

InMain(c) == c \in Id /\ client[c].phase = "main"

Rosters == \A c \in Id : InMain(c) => RosterIsList(c)

Fresh(c) ==
  /\ ~client[c].game_started /\ client[c].player_turn = C!NoTurn
  /\ \A i \in 1 .. Len(list) : client[c].players[i].hp = MAX_HP

(* Between games whatever is still to be read of the last one is followed  *)
(* by its end, and who has read all of it shows nothing of it.             *)
LobbyComes ==
  ~game_started =>
    /\ Coming("marks", 0, "none") # "marked"
    /\ Coming("marks", 0, "none") = "none" => \A c \in Id : InMain(c) => Fresh(c)

HeartsOf(cl, l, x) == cl.players[CHOOSE i \in 1 .. Len(l) : l[i] = x].hp

ShowsTurn(cl, x) == cl.player_turn = x

(* In a game every player will show it, whose turn it is and each player's *)
(* hearts, but for those the networking thread has already removed.        *)
GameComes ==
  game_started =>
    \A c \in Id : Plays(c) /\ InMain(c) =>
      /\ Coming("started", 0, client[c].game_started)
      /\ \A p \in 1 .. Len(players) : players[p].id \in Range(list) =>
           LET x == players[p].id
           IN  /\ player_turn = p => Coming("turn", x, ShowsTurn(client[c], x))
               /\ Coming("hearts", x, HeartsOf(client[c], list, x)) = players[p].hp

GoneHasEnded == \A id \in Id : Goes(id) => Ended(id)

(* A client that has a turn to show will have one in every game to come.   *)
TurnsComeFirst == Coming("screen", 0, "turn") # "broken"

(* Whether it has a turn to show, needs none, or lacks the one it needs.    *)
ScreenOf(cl) ==
  IF cl.player_turn # C!NoTurn THEN "turn"
  ELSE IF cl.game_started THEN "broken" ELSE "lobby"

Calm == quits = 0 /\ ~between

(* Players stay, and all messages are about them. *)
NobodyIsMissed ==
  /\ \A k \in 1 .. Len(to_net) : to_net[k][1] \in About => Plays(to_net[k][2])
  /\ \A k \in 1 .. Len(sent) : sent[k][1] \in About => Plays(sent[k][2])
  /\ \A id \in Id : Refusing(id) => client[id].phase # "greet"
  /\ \A id \in Id : Refusing(id) \/ client[id].phase = "exited" => ~Plays(id) /\ ~Comes(id)

ScreensComeReady == \A c \in Id : InMain(c) => Coming("screen", 0, ScreenOf(client[c])) # "broken"

LEMMA ComingIs ==
  \A what, x, before : Coming(what, x, before) = LearntOf(what, x, before, to_net, sent)
BY DEF Coming, LearntOf

LEMMA HeartsKnown ==
  ASSUME PartyTypes, NEW c \in Id, RosterIsList(c), NEW i \in 1 .. Len(list)
  PROVE  HeartsOf(client[c], list, list[i]) = client[c].players[i].hp /\ HeartsOf(client[c], list, list[i]) \in Int
<1>1. list \in Seq(Id) /\ \A j \in 1 .. Len(list) : list[j] = list[i] => j = i
  BY DEF PartyTypes, IsInjective
<1>2. (CHOOSE j \in 1 .. Len(list) : list[j] = list[i]) = i
  BY <1>1
<1>3. client[c].players \in Seq(Entry) /\ Len(client[c].players) = Len(list)
  BY DEF RosterIsList, Screen
<1>4. client[c].players[i] \in Entry
  BY <1>3
<1> QED
  BY <1>2, <1>4 DEF HeartsOf, Entry

(* Nothing the logic thread sends at once breaks a screen. *)
LEMMA TellingBreaksNone ==
  ASSUME TellsNothing \/ TellsOfTurn \/ TellsOfLoss, NEW b \in {"lobby", "turn"}
  PROVE  Learnt("screen", 0, b, sent') # "broken"
<1>1. "screen" \in Topic /\ b \in Lore("screen")
  BY DEF Topic, Lore
<1>2. /\ \A id : Reads("screen", 0, b, TurnMsg(id)) = "turn"
      /\ \A id : Reads("screen", 0, "turn", TurnMsg(id)) = "turn"
      /\ \A id : Reads("screen", 0, b, LoseMsg(id)) = b
      /\ Reads("screen", 0, "turn", <<"T_GAME_START">>) = "turn"
      /\ Reads("screen", 0, "turn", <<"T_RESTART_GAME">>) = "lobby"
  BY DEF Reads, TurnMsg, LoseMsg
<1>3. CASE TellsNothing
  BY <1>1, <1>3 DEF TellsNothing, SaysNothing
<1>4. CASE TellsOfTurn
  BY <1>1, <1>2, <1>4 DEF TellsOfTurn
<1>5. CASE TellsOfLoss
  <2>1. PICK h \in 1 .. Len(players) :
          \/ Learnt("screen", 0, b, sent')
               = Reads("screen", 0,
                       Reads("screen", 0, Reads("screen", 0, b, LoseMsg(players[player_turn].id)),
                             TurnMsg(players[h].id)), <<"T_RESTART_GAME">>)
          \/ Learnt("screen", 0, b, sent')
               = Reads("screen", 0, Reads("screen", 0, b, LoseMsg(players[player_turn].id)),
                       TurnMsg(players[h].id))
    BY <1>1, <1>5 DEF TellsOfLoss
  <2> QED
    BY <1>2, <2>1
<1> QED
  BY <1>3, <1>4, <1>5

LEMMA ComingAfter ==
  ASSUME IsSeq(to_net), sent = <<>>, to_net' = to_net
  PROVE  \A what, x, b :
           what \in Topic /\ b \in Lore(what)
           => /\ LearntOf(what, x, b, to_net', sent')
                   = Learnt(what, x, LearntOf(what, x, b, to_net, sent), sent')
              /\ LearntOf(what, x, b, to_net, sent) = Learnt(what, x, b, to_net)
              /\ LearntOf(what, x, b, to_net, sent) \in Lore(what)
<1> TAKE what, x, b
<1> HAVE what \in Topic /\ b \in Lore(what)
<1>1. LearntOf(what, x, b, to_net, sent')
        = Learnt(what, x, LearntOf(what, x, b, to_net, <<>>), sent')
  BY LearntAdded
<1>2. Learnt(what, x, b, to_net) \in Lore(what)
  BY LearntIsLore
<1>3. LearntOf(what, x, b, to_net, <<>>) = Learnt(what, x, b, to_net)
  BY <1>2, LearntNothing DEF LearntOf
<1> QED
  BY <1>1, <1>2, <1>3

LEMMA TopicsAre ==
  /\ "started" \in Topic /\ "turn" \in Topic /\ "hearts" \in Topic /\ "marks" \in Topic
  /\ "screen" \in Topic
  /\ Lore("started") = BOOLEAN /\ Lore("turn") = BOOLEAN /\ Lore("hearts") = Int
  /\ Lore("marks") = {"none", "marked", "wiped"} /\ Lore("screen") = {"lobby", "turn", "broken"}
BY DEF Topic, Lore

(* A game that starts or goes on, told to a client that will show it. *)
LEMMA GameTold ==
  ASSUME IInv, PartyTypes, Rosters, LobbyComes, GameComes, sent = <<>>,
         UNCHANGED <<to_net, list, client>>,
         TellsNothing \/ TellsOfTurn \/ TellsOfLoss, game_started',
         NEW c \in Id, Plays(c), InMain(c)
  PROVE  /\ LearntOf("started", 0, client[c].game_started, to_net', sent')
         /\ \A p \in 1 .. Len(players) : players[p].id \in Range(list) =>
              /\ player_turn' = p
                   => LearntOf("turn", players[p].id, ShowsTurn(client[c], players[p].id),
                               to_net', sent')
              /\ LearntOf("hearts", players[p].id, HeartsOf(client[c], list, players[p].id), to_net', sent')
                   = players'[p].hp
<1> DEFINE started == LearntOf("started", 0, client[c].game_started, to_net, sent)
           turn(x) == LearntOf("turn", x, ShowsTurn(client[c], x), to_net, sent)
           hearts(x) == LearntOf("hearts", x, HeartsOf(client[c], list, x), to_net, sent)
<1>1. RosterIsList(c) /\ client[c].game_started \in BOOLEAN
  BY DEF Rosters, RosterIsList, Screen
<1>2. IsSeq(to_net) /\ to_net' = to_net
  BY DEF PartyTypes
<1>3. \A x \in Range(list) : HeartsOf(client[c], list, x) \in Int
  <2>1. \A x \in Range(list) : \E i \in 1 .. Len(list) : list[i] = x
    BY DEF PartyTypes, Range
  <2> QED
    BY <1>1, <2>1, HeartsKnown
<1>4. /\ started \in BOOLEAN
      /\ LearntOf("started", 0, client[c].game_started, to_net', sent')
           = Learnt("started", 0, started, sent')
  BY <1>1, <1>2, ComingAfter, TopicsAre
<1>5. ASSUME NEW x
      PROVE  /\ turn(x) \in BOOLEAN
             /\ LearntOf("turn", x, ShowsTurn(client[c], x), to_net', sent')
                  = Learnt("turn", x, turn(x), sent')
  <2> DEFINE b == ShowsTurn(client[c], x)
  <2>1. b \in BOOLEAN
    BY DEF ShowsTurn
  <2> HIDE DEF b
  <2>2. /\ LearntOf("turn", x, b, to_net, sent) \in BOOLEAN
        /\ LearntOf("turn", x, b, to_net', sent')
             = Learnt("turn", x, LearntOf("turn", x, b, to_net, sent), sent')
    BY <1>2, <2>1, ComingAfter, TopicsAre
  <2> QED
    BY <2>2 DEF b
<1>6. ASSUME NEW x \in Range(list)
      PROVE  /\ hearts(x) \in Int
             /\ LearntOf("hearts", x, HeartsOf(client[c], list, x), to_net', sent')
                  = Learnt("hearts", x, hearts(x), sent')
             /\ hearts(x) = Learnt("hearts", x, HeartsOf(client[c], list, x), to_net)
  BY <1>2, <1>3, ComingAfter, TopicsAre
<1>7. ASSUME game_started
      PROVE  /\ started
             /\ \A p \in 1 .. Len(players) : players[p].id \in Range(list) =>
                  /\ player_turn = p => turn(players[p].id)
                  /\ hearts(players[p].id) = players[p].hp
  BY <1>7, ComingIs DEF GameComes
<1>8. ASSUME ~game_started
      PROVE  \A p \in 1 .. Len(players) : players[p].id \in Range(list) =>
                hearts(players[p].id) = players[p].hp
  <2>1. SUFFICES ASSUME NEW p \in 1 .. Len(players), players[p].id \in Range(list)
                 PROVE  hearts(players[p].id) = MAX_HP
    BY <1>8 DEF IInv, LobbyIsFresh
  <2> DEFINE x == players[p].id
  <2>2. /\ Coming("marks", 0, "none") = Learnt("marks", 0, "none", to_net)
        /\ Coming("marks", 0, "none") \in {"none", "marked", "wiped"}
    BY <1>2, ComingAfter, ComingIs, TopicsAre
  <2>3. CASE Coming("marks", 0, "none") = "none"
    <3>1. Fresh(c)
      BY <1>8, <2>3 DEF LobbyComes
    <3>2. PICK i \in 1 .. Len(list) : list[i] = x
      BY <2>1 DEF PartyTypes, Range
    <3>3. HeartsOf(client[c], list, x) = MAX_HP
      BY <1>1, <3>1, <3>2, HeartsKnown DEF Fresh
    <3>4. Learnt("hearts", x, HeartsOf(client[c], list, x), to_net) = HeartsOf(client[c], list, x)
      BY <1>2, <1>3, <2>1, <2>2, <2>3, MarksAndHearts
    <3> QED
      BY <1>6, <2>1, <3>3, <3>4
  <2>4. CASE Coming("marks", 0, "none") = "wiped"
    BY <1>2, <1>3, <1>6, <2>1, <2>2, <2>4, MarksAndHearts
  <2> QED
    BY <1>8, <2>2, <2>3, <2>4 DEF LobbyComes
<1>9. \A p \in 1 .. Len(players) : players[p].id \in Range(list) =>
         hearts(players[p].id) = players[p].hp
  BY <1>7, <1>8
<1>10. \A i, j \in 1 .. Len(players) : players[i].id = players[j].id => i = j
  BY DEF IInv, UniqueIds
<1> HIDE DEF started, turn, hearts
<1>11. SUFFICES /\ Learnt("started", 0, started, sent')
                /\ \A p \in 1 .. Len(players) : players[p].id \in Range(list) =>
                     /\ player_turn' = p
                          => Learnt("turn", players[p].id, turn(players[p].id), sent')
                     /\ Learnt("hearts", players[p].id, hearts(players[p].id), sent')
                          = players'[p].hp
  BY <1>4, <1>5, <1>6
<1>12. CASE TellsNothing
  <2>1. /\ Learnt("started", 0, started, sent') = started
        /\ \A x : Learnt("turn", x, turn(x), sent') = turn(x)
        /\ \A x \in Range(list) : Learnt("hearts", x, hearts(x), sent') = hearts(x)
    BY <1>4, <1>5, <1>6, <1>12, TopicsAre DEF TellsNothing, SaysNothing
  <2> QED
    BY <1>7, <1>9, <1>12, <2>1 DEF TellsNothing
<1>13. CASE TellsOfTurn
  <2> DEFINE msg == TurnMsg(players[player_turn'].id)
             m == <<"T_GAME_START">>
  <2>1. \A x, b : /\ Reads("started", x, b, msg) = b
                  /\ Reads("started", x, b, m) = TRUE
                  /\ Reads("turn", x, b, msg) = (players[player_turn'].id = x)
                  /\ Reads("turn", x, b, m) = b
                  /\ Reads("hearts", x, b, msg) = b
                  /\ Reads("hearts", x, b, m) = b
    <3>1. m[1] = "T_GAME_START"
      OBVIOUS
    <3>2. msg[1] = "T_PLAYER_TURN" /\ msg[2] = players[player_turn'].id
      BY DEF TurnMsg
    <3> HIDE DEF msg, m
    <3>3. \A x, b : Reads("started", x, b, msg) = b /\ Reads("started", x, b, m) = TRUE
      BY <3>1, <3>2 DEF Reads
    <3>4. \A x, b : /\ Reads("turn", x, b, msg) = (players[player_turn'].id = x)
                    /\ Reads("turn", x, b, m) = b
      BY <3>1, <3>2 DEF Reads
    <3>5. \A x, b : Reads("hearts", x, b, msg) = b /\ Reads("hearts", x, b, m) = b
      BY <3>1, <3>2 DEF Reads
    <3> QED
      BY <3>3, <3>4, <3>5
  <2> HIDE DEF msg, m
  <2>2. /\ players' = players /\ player_turn' \in 1 .. Len(players)
        /\ \/ /\ game_started
              /\ \A what, x, b :
                   what \in Topic /\ b \in Lore(what)
                   => Learnt(what, x, b, sent') = Reads(what, x, b, msg)
           \/ \A what, x, b :
                what \in Topic /\ b \in Lore(what)
                => Learnt(what, x, b, sent') = Reads(what, x, Reads(what, x, b, msg), m)
    BY <1>13 DEF TellsOfTurn, msg, m
  <2>3. Learnt("started", 0, started, sent')
    BY <1>4, <1>7, <2>1, <2>2, TopicsAre
  <2>4. \A x : Learnt("turn", x, turn(x), sent') = (players[player_turn'].id = x)
    BY <1>5, <2>1, <2>2, TopicsAre
  <2>5. \A x \in Range(list) : Learnt("hearts", x, hearts(x), sent') = hearts(x)
    BY <1>6, <2>1, <2>2, TopicsAre
  <2> QED
    BY <1>9, <2>2, <2>3, <2>4, <2>5
<1>14. CASE TellsOfLoss
  <2>1. PICK h \in 1 .. Len(players) :
          /\ player_turn' = h
          /\ \A j \in 1 .. Len(players) :
               players'[j].hp = IF j = player_turn THEN players[j].hp - 1 ELSE players[j].hp
          /\ \A what, x, b :
               what \in Topic /\ b \in Lore(what)
               => Learnt(what, x, b, sent')
                    = Reads(what, x, Reads(what, x, b, LoseMsg(players[player_turn].id)),
                            TurnMsg(players[h].id))
    BY <1>14 DEF TellsOfLoss
  <2> DEFINE one == LoseMsg(players[player_turn].id)
             msg == TurnMsg(players[h].id)
  <2>2. \A x, b : /\ Reads("started", x, b, msg) = b
                  /\ Reads("started", x, b, one) = b
                  /\ Reads("turn", x, b, msg) = (players[h].id = x)
                  /\ Reads("hearts", x, b, msg) = b
                  /\ Reads("hearts", x, b, one) = IF players[player_turn].id = x THEN b - 1 ELSE b
    BY DEF Reads, TurnMsg, LoseMsg
  <2> HIDE DEF msg, one
  <2>3. \A what, x, b :
          what \in Topic /\ b \in Lore(what)
          => Learnt(what, x, b, sent') = Reads(what, x, Reads(what, x, b, one), msg)
    BY <2>1 DEF msg, one
  <2>4. game_started /\ player_turn \in 1 .. Len(players)
    BY <1>14 DEF TellsOfLoss
  <2>5. Learnt("started", 0, started, sent')
    <3>1. Learnt("started", 0, started, sent') = started
      BY <1>4, <2>2, <2>3, TopicsAre
    <3> QED
      BY <1>7, <2>4, <3>1
  <2>6. \A x : Learnt("turn", x, turn(x), sent') = (players[h].id = x)
    BY <1>5, <2>2, <2>3, TopicsAre
  <2>7. \A x \in Range(list) : Learnt("hearts", x, hearts(x), sent')
                                 = IF players[player_turn].id = x THEN hearts(x) - 1 ELSE hearts(x)
    BY <1>6, <2>2, <2>3, TopicsAre
  <2>8. ASSUME NEW p \in 1 .. Len(players), players[p].id \in Range(list)
        PROVE  /\ player_turn' = p
                    => Learnt("turn", players[p].id, turn(players[p].id), sent')
               /\ Learnt("hearts", players[p].id, hearts(players[p].id), sent') = players'[p].hp
    <3>1. player_turn' = p => Learnt("turn", players[p].id, turn(players[p].id), sent')
      BY <2>1, <2>6
    <3>2. hearts(players[p].id) = players[p].hp
      BY <1>9, <2>8
    <3>3. players[player_turn].id = players[p].id <=> p = player_turn
      BY <1>10, <2>4
    <3>4. Learnt("hearts", players[p].id, hearts(players[p].id), sent')
            = IF players[player_turn].id = players[p].id THEN hearts(players[p].id) - 1
              ELSE hearts(players[p].id)
      BY <2>7, <2>8
    <3> QED
      BY <2>1, <3>1, <3>2, <3>3, <3>4
  <2> QED
    BY <2>5, <2>8
<1> QED
  BY <1>12, <1>13, <1>14

GameNews == LobbyComes /\ GameComes /\ TurnsComeFirst

LEMMA TellingKeepsNews ==
  ASSUME IInv, PartyTypes, Rosters, GameNews, sent = <<>>,
         UNCHANGED <<to_net, list, client>>, SamePlayers,
         TellsNothing \/ TellsOfTurn \/ TellsOfLoss
  PROVE  GameNews'
<1>1. IsSeq(to_net) /\ to_net' = to_net /\ list' = list /\ client' = client
  BY DEF PartyTypes
<1>2. LobbyComes'
  <2>1. SUFFICES ASSUME ~game_started'
                 PROVE  /\ LearntOf("marks", 0, "none", to_net', sent') # "marked"
                        /\ LearntOf("marks", 0, "none", to_net', sent') = "none"
                             => \A c \in Id : InMain(c)' => Fresh(c)'
    BY DEF LobbyComes, Coming, LearntOf
  <2> DEFINE marks == LearntOf("marks", 0, "none", to_net, sent)
  <2>2. /\ LearntOf("marks", 0, "none", to_net', sent') = Learnt("marks", 0, marks, sent')
        /\ marks \in Lore("marks")
    BY <1>1, ComingAfter, TopicsAre
  <2>3. ~game_started => /\ marks # "marked"
                         /\ marks = "none" => \A c \in Id : InMain(c) => Fresh(c)
    BY ComingIs DEF GameNews, LobbyComes
  <2>4. \A c \in Id : (InMain(c)' <=> InMain(c)) /\ (Fresh(c)' <=> Fresh(c))
    BY <1>1 DEF InMain, Fresh
  <2> HIDE DEF marks
  <2>5. CASE TellsNothing
    BY <2>1, <2>2, <2>3, <2>4, <2>5, TopicsAre DEF TellsNothing, SaysNothing
  <2>6. CASE TellsOfTurn
    BY <2>1, <2>6 DEF TellsOfTurn
  <2>7. CASE TellsOfLoss
    <3>1. \A x, b : Reads("marks", x, b, <<"T_RESTART_GAME">>) = "wiped"
      BY DEF Reads
    <3>2. Learnt("marks", 0, marks, sent') = "wiped"
      BY <2>1, <2>2, <2>7, <3>1, TopicsAre DEF TellsOfLoss
    <3> QED
      BY <2>2, <3>2
  <2> QED
    BY <2>5, <2>6, <2>7
<1>3. GameComes'
  <2>1. SUFFICES ASSUME game_started', NEW c \in Id, Plays(c)', InMain(c)'
                 PROVE  /\ LearntOf("started", 0, client[c].game_started, to_net', sent')
                        /\ \A p \in 1 .. Len(players') : players'[p].id \in Range(list) =>
                             /\ player_turn' = p
                                  => LearntOf("turn", players'[p].id,
                                              ShowsTurn(client[c], players'[p].id),
                                              to_net', sent')
                             /\ LearntOf("hearts", players'[p].id, HeartsOf(client[c], list, players'[p].id),
                                         to_net', sent')
                                  = players'[p].hp
    BY <1>1 DEF GameComes, Coming, LearntOf
  <2>2. Plays(c) /\ InMain(c)
    BY <1>1, <2>1, SamePlayersSame DEF InMain
  <2>3. /\ LearntOf("started", 0, client[c].game_started, to_net', sent')
        /\ \A p \in 1 .. Len(players) : players[p].id \in Range(list) =>
              /\ player_turn' = p
                   => LearntOf("turn", players[p].id, ShowsTurn(client[c], players[p].id),
                               to_net', sent')
              /\ LearntOf("hearts", players[p].id, HeartsOf(client[c], list, players[p].id), to_net', sent')
                   = players'[p].hp
    BY <2>1, <2>2, GameTold DEF GameNews
  <2>4. Len(players') = Len(players) /\ \A i \in 1 .. Len(players) : players'[i].id = players[i].id
    BY DEF SamePlayers
  <2> QED
    BY <2>3, <2>4
<1>4. TurnsComeFirst'
  <2> DEFINE b == LearntOf("screen", 0, "turn", to_net, sent)
  <2>1. /\ LearntOf("screen", 0, "turn", to_net', sent') = Learnt("screen", 0, b, sent')
        /\ b \in {"lobby", "turn", "broken"} /\ b # "broken"
    BY <1>1, ComingAfter, ComingIs, TopicsAre DEF GameNews, TurnsComeFirst
  <2> HIDE DEF b
  <2>2. Learnt("screen", 0, b, sent') # "broken"
    BY <2>1, TellingBreaksNone
  <2> QED
    BY <2>1, <2>2 DEF TurnsComeFirst, Coming, LearntOf
<1> QED
  BY <1>2, <1>3, <1>4 DEF GameNews

LEMMA JoinKeepsNews ==
  ASSUME PartyTypes, GameNews, sent = <<>>, UNCHANGED <<to_net, list, client>>,
         NEW id \in Id, Join(id)
  PROVE  GameNews'
<1>1. /\ sent' = sent /\ to_net' = to_net /\ list' = list /\ client' = client
      /\ ~game_started /\ ~game_started'
  BY DEF Join
<1>2. LobbyComes'
  BY <1>1 DEF GameNews, LobbyComes, Coming, InMain, Fresh
<1>3. GameComes'
  BY <1>1 DEF GameComes
<1>4. TurnsComeFirst'
  BY <1>1 DEF GameNews, TurnsComeFirst, Coming
<1> QED
  BY <1>2, <1>3, <1>4 DEF GameNews

LEMMA LeftKeepsNews ==
  ASSUME IInv, PartyTypes, GameNews, sent = <<>>, UNCHANGED <<to_net, list, client>>,
         NEW id \in Id, Left(id)
  PROVE  GameNews'
<1>1. /\ sent' = sent /\ to_net' = to_net /\ list' = list /\ client' = client
      /\ game_started' = game_started
  BY DEF Left
<1>2. LobbyComes'
  BY <1>1 DEF GameNews, LobbyComes, Coming, InMain, Fresh
<1>3. TurnsComeFirst'
  BY <1>1 DEF GameNews, TurnsComeFirst, Coming
<1>4. \A p \in 1 .. Len(players') :
        \E q \in 1 .. Len(players) :
          players'[p] = players[q] /\ (player_turn' = p => player_turn = q)
  <2>1. CASE UNCHANGED <<players, player_turn>>
    BY <2>1
  <2>2. ASSUME NEW place \in PlaceOf(players, id),
               players' = DeleteAt(players, place), player_turn' = TurnAfterDelete(place)
        PROVE  \A p \in 1 .. Len(players') :
                 \E q \in 1 .. Len(players) :
                   players'[p] = players[q] /\ (player_turn' = p => player_turn = q)
    <3>1. /\ players \in Seq(Player) /\ Len(players) \in Nat
          /\ player_turn \in 1 .. Len(players) \cup {NULL, FREED}
          /\ place \in 1 .. Len(players)
      BY DEF IInv, TypeOK, Player, PlaceOf
    <3>2. /\ Len(players') = Len(players) - 1
          /\ \A i \in 1 .. Len(players) - 1 :
               players'[i] = IF i < place THEN players[i] ELSE players[i + 1]
      BY <2>2, <3>1, Deleted
    <3>3. player_turn \in Int
      BY <3>1 DEF NULL, FREED
    <3>4. \A p \in 1 .. Len(players) - 1 :
            player_turn' = p => player_turn = IF p < place THEN p ELSE p + 1
      BY <2>2, <3>1, <3>3 DEF TurnAfterDelete, FREED
    <3>5. TAKE p \in 1 .. Len(players')
    <3>6. p \in 1 .. Len(players) - 1
      BY <3>2
    <3>7. (IF p < place THEN p ELSE p + 1) \in 1 .. Len(players)
      BY <3>1, <3>6
    <3>8. players'[p] = players[IF p < place THEN p ELSE p + 1]
      BY <3>2, <3>6
    <3>9. player_turn' = p => player_turn = IF p < place THEN p ELSE p + 1
      BY <3>4, <3>6
    <3>10. WITNESS (IF p < place THEN p ELSE p + 1) \in 1 .. Len(players)
    <3> QED
      BY <3>8, <3>9
  <2>3. \/ UNCHANGED <<players, player_turn>>
        \/ \E place \in PlaceOf(players, id) :
             players' = DeleteAt(players, place) /\ player_turn' = TurnAfterDelete(place)
    BY DEF Left
  <2> QED
    BY <2>1, <2>2, <2>3
<1>5. GameComes'
  <2>1. SUFFICES ASSUME game_started', NEW c \in Id, Plays(c)', InMain(c)'
                 PROVE  /\ LearntOf("started", 0, client[c].game_started, to_net', sent')
                        /\ \A p \in 1 .. Len(players') : players'[p].id \in Range(list) =>
                             /\ player_turn' = p
                                  => LearntOf("turn", players'[p].id,
                                              ShowsTurn(client[c], players'[p].id),
                                              to_net', sent')
                             /\ LearntOf("hearts", players'[p].id, HeartsOf(client[c], list, players'[p].id),
                                         to_net', sent')
                                  = players'[p].hp
    BY <1>1 DEF GameComes, Coming, LearntOf
  <2>2. Plays(c) /\ InMain(c) /\ game_started
    <3>1. Plays(c)
      BY <1>4, <2>1 DEF Plays
    <3> QED
      BY <1>1, <2>1, <3>1 DEF InMain
  <2>3. /\ LearntOf("started", 0, client[c].game_started, to_net, sent)
        /\ \A q \in 1 .. Len(players) : players[q].id \in Range(list) =>
             /\ player_turn = q
                  => LearntOf("turn", players[q].id, ShowsTurn(client[c], players[q].id), to_net, sent)
             /\ LearntOf("hearts", players[q].id, HeartsOf(client[c], list, players[q].id), to_net, sent)
                  = players[q].hp
    BY <2>2, ComingIs DEF GameNews, GameComes
  <2> QED
    BY <1>1, <1>4, <2>3
<1> QED
  BY <1>2, <1>3, <1>5 DEF GameNews

LEMMA ListFacts ==
  ASSUME PartyTypes
  PROVE  /\ list \in Seq(Id) /\ Len(list) \in Nat
         /\ \A i \in 1 .. Len(list) : list[i] \in Id /\ list[i] \in Range(list)
         /\ \A i, j \in 1 .. Len(list) : list[i] = list[j] => i = j
         /\ \A x : x \in Range(list) <=> \E i \in 1 .. Len(list) : list[i] = x
BY DEF PartyTypes, IsInjective, Range

LEMMA RosterFacts ==
  ASSUME PartyTypes, NEW c \in Id, RosterIsList(c)
  PROVE  /\ \A i, j \in 1 .. Len(client[c].players) :
              client[c].players[i].id = client[c].players[j].id => i = j
         /\ \A x : C!Known(client[c], x) <=> x \in Range(list)
<1>1. /\ client[c] \in Screen /\ Len(client[c].players) = Len(list)
      /\ \A i \in 1 .. Len(list) : client[c].players[i].id = list[i]
  BY DEF RosterIsList
<1>2. \A i, j \in 1 .. Len(client[c].players) :
        client[c].players[i].id = client[c].players[j].id => i = j
  BY <1>1, ListFacts
<1>3. \A x : C!Known(client[c], x) <=> \E i \in 1 .. Len(client[c].players) : client[c].players[i].id = x
  BY <1>1, <1>2, FoundAtPlace
<1> QED
  BY <1>1, <1>2, <1>3, ListFacts

(* Whether a client still shows something, or crashed at showing it. *)
Shown(c, after) ==
  \/ client'[c] = after
  \/ after.game_started /\ after.player_turn = C!NoTurn /\ client'[c] = C!Crashed(after)

LEMMA ToldIsShown ==
  ASSUME NEW ids, NEW msg, Tell(ids, msg), NEW c \in Id, c \in ids, client[c].phase = "main",
         NEW after, after = C!process_server_command(client[c], msg)
  PROVE  client'[c] = after \/ (after.phase = "main" /\ Shown(c, after))
<1>1. client'[c] = after \/ (after.phase = "main" /\ client'[c] = C!display_ui(after))
  BY ToldOne
<1> QED
  BY <1>1 DEF C!display_ui, Shown

LEMMA RelayReaches ==
  ASSUME PartyTypes, Rosters, MessagesAreOfLogic, Relay, NEW c \in Id,
         NEW msg, msg = Head(to_net), ForAll(msg)
  PROVE  \/ ~InMain(c) /\ client'[c] = client[c]
         \/ /\ InMain(c) /\ client'[c] = C!Crashed(client[c])
            /\ msg[1] \in About /\ msg[2] \notin Range(list)
         \/ /\ InMain(c)
            /\ \E after \in Screen :
                 /\ Shown(c, after)
                 /\ Len(after.players) = Len(list)
                 /\ \A i \in 1 .. Len(list) :
                      /\ after.players[i].id = list[i]
                      /\ after.players[i].hp = Reads("hearts", list[i], client[c].players[i].hp, msg)
                 /\ after.game_started = Reads("started", 0, client[c].game_started, msg)
                 /\ after.player_turn
                      = IF msg[1] = "T_PLAYER_TURN"
                          THEN IF msg[2] \in Range(list) THEN msg[2] ELSE C!NoTurn
                        ELSE IF msg[1] = "T_RESTART_GAME" THEN C!NoTurn ELSE client[c].player_turn
<1> DEFINE cl == client[c]
           after == C!process_server_command(cl, Relayed(msg))
<1>1. Tell(Range(list), Relayed(msg))
  BY DEF Relay
<1>2. CASE ~InMain(c)
  <2>1. client'[c] = client[c]
    BY <1>1, <1>2, ToldOne DEF InMain
  <2> QED
    BY <1>2, <2>1
<1>3. CASE InMain(c)
  <2>1. RosterIsList(c) /\ cl.phase = "main" /\ c \in Range(list) /\ cl \in Screen
    BY <1>3 DEF Rosters, RosterIsList, InMain
  <2>2. msg \in NetMsg
    BY SeqOps DEF Relay, PartyTypes, MessagesAreOfLogic
  <2>3. /\ \A i, j \in 1 .. Len(cl.players) : cl.players[i].id = cl.players[j].id => i = j
        /\ \A x : C!Known(cl, x) <=> x \in Range(list)
    BY <2>1, RosterFacts
  <2>4. client'[c] = after \/ (after.phase = "main" /\ Shown(c, after))
    BY <1>1, <2>1, ToldIsShown
  <2>5. Len(cl.players) = Len(list) /\ \A i \in 1 .. Len(list) : cl.players[i].id = list[i]
    BY <2>1 DEF RosterIsList
  <2>6. \/ after = C!Crashed(cl) /\ msg[1] \in About /\ ~C!Known(cl, msg[2])
        \/ /\ after \in Screen
           /\ Len(after.players) = Len(cl.players)
           /\ \A i \in 1 .. Len(cl.players) :
                /\ after.players[i].id = cl.players[i].id
                /\ after.players[i].hp
                     = Reads("hearts", cl.players[i].id, cl.players[i].hp, msg)
           /\ after.game_started = Reads("started", 0, cl.game_started, msg)
           /\ after.player_turn
                = IF msg[1] = "T_PLAYER_TURN" THEN IF C!Known(cl, msg[2]) THEN msg[2] ELSE C!NoTurn
                  ELSE IF msg[1] = "T_RESTART_GAME" THEN C!NoTurn ELSE cl.player_turn
    <3> HIDE DEF cl
    <3> QED
      BY <2>1, <2>2, <2>3, ClientReads
  <2>7. CASE after = C!Crashed(cl) /\ msg[1] \in About /\ ~C!Known(cl, msg[2])
    <3>1. after.phase = "crashed"
      BY <2>1, <2>7 DEF C!Crashed, Screen
    <3> QED
      BY <1>3, <2>3, <2>4, <2>7, <3>1
  <2>8. CASE /\ after \in Screen
             /\ Len(after.players) = Len(cl.players)
             /\ \A i \in 1 .. Len(cl.players) :
                  /\ after.players[i].id = cl.players[i].id
                  /\ after.players[i].hp
                       = Reads("hearts", cl.players[i].id, cl.players[i].hp, msg)
             /\ after.game_started = Reads("started", 0, cl.game_started, msg)
             /\ after.player_turn
                  = IF msg[1] = "T_PLAYER_TURN" THEN IF C!Known(cl, msg[2]) THEN msg[2] ELSE C!NoTurn
                    ELSE IF msg[1] = "T_RESTART_GAME" THEN C!NoTurn ELSE cl.player_turn
    <3> HIDE DEF after
    <3>1. Shown(c, after)
      BY <2>4 DEF Shown
    <3>2. \A i \in 1 .. Len(list) :
                 /\ after.players[i].id = list[i]
                 /\ after.players[i].hp = Reads("hearts", list[i], client[c].players[i].hp, msg)
      BY <2>5, <2>8
    <3>3. after.player_turn
                 = IF msg[1] = "T_PLAYER_TURN"
                     THEN IF msg[2] \in Range(list) THEN msg[2] ELSE C!NoTurn
                   ELSE IF msg[1] = "T_RESTART_GAME" THEN C!NoTurn ELSE client[c].player_turn
      BY <2>3, <2>8
    <3>4. /\ after \in Screen /\ Len(after.players) = Len(list)
          /\ after.game_started = Reads("started", 0, client[c].game_started, msg)
      BY <2>5, <2>8
    <3> QED
      BY <1>3, <3>1, <3>2, <3>3, <3>4
  <2> QED
    BY <2>6, <2>7, <2>8
<1> QED
  BY <1>2, <1>3

LEMMA RefusalReaches ==
  ASSUME PartyTypes, Rosters, MessagesAreOfLogic, Relay,
         NEW msg, msg = Head(to_net), ~ForAll(msg)
  PROVE  /\ msg[2] \in Id /\ msg = Refusal(msg[2])
         /\ \A c \in Id : client'[c] = client[c] \/ (c = msg[2] /\ client'[c].phase = "exited")
<1>1. msg \in NetMsg
  BY SeqOps DEF Relay, PartyTypes, MessagesAreOfLogic
<1>2. msg[2] \in Id /\ msg = Refusal(msg[2])
  <2>1. DOMAIN NetCode = {"T_GAME_START", "T_SEND_REQ_STR", "T_TURN_TIME", "T_PLAYER_TURN",
                          "T_CORRECT_WORD", "T_INCORRECT_WORD", "T_LOSE_HP", "T_PLAYER_WON",
                          "T_RESTART_GAME"}
    BY DEF NetCode
  <2>2. msg[1] \notin {"T_GAME_START", "T_SEND_REQ_STR", "T_TURN_TIME", "T_PLAYER_TURN",
                       "T_CORRECT_WORD", "T_INCORRECT_WORD", "T_LOSE_HP", "T_PLAYER_WON",
                       "T_RESTART_GAME"}
    BY <2>1 DEF ForAll
  <2> QED
    BY <1>1, <2>2 DEF NetMsg, Refusal
<1>3. ASSUME NEW c \in Id
      PROVE  client'[c] = client[c] \/ (c = msg[2] /\ client'[c].phase = "exited")
  <2> DEFINE no == <<"N_GAME_STARTED_NO_JOINING">>
             after == C!process_server_command(client[c], no)
  <2>1. Tell({msg[2]}, no)
    BY DEF Relay
  <2>2. CASE c = msg[2] /\ client[c].phase = "main"
    <3>1. no[1] = "N_GAME_STARTED_NO_JOINING"
      OBVIOUS
    <3>2. InMain(c) /\ client[c] \in Screen
      BY <2>2 DEF InMain, Rosters, RosterIsList
    <3> HIDE DEF no
    <3>3. after = [client[c] EXCEPT !.phase = "exited"]
      BY <3>1 DEF C!process_server_command
    <3>4. after.phase = "exited"
      BY <3>2, <3>3 DEF Screen
    <3>5. client'[c] = after
      BY <2>1, <2>2, <3>4, ToldOne
    <3> QED
      BY <2>2, <3>4, <3>5
  <2>3. CASE ~(c = msg[2] /\ client[c].phase = "main")
    <3>1. client'[c] = client[c]
      <4> HIDE DEF no
      <4> QED
        BY <2>1, <2>3, ToldOne
    <3> QED
      BY <3>1
  <2> QED
    BY <2>2, <2>3
<1> QED
  BY <1>2, <1>3

LEMMA ServeReaches ==
  ASSUME PartyTypes, Rosters, NEW id \in Id, ServeEnd(id)
  PROVE  \E at \in 1 .. Len(list) :
           /\ list[at] = id
           /\ Len(list') = Len(list) - 1
           /\ \A k \in 1 .. Len(list) - 1 : list'[k] = IF k < at THEN list[k] ELSE list[k + 1]
           /\ ~InMain(id)
           /\ \A c \in Id :
                \/ ~InMain(c) /\ client'[c] = client[c]
                \/ /\ InMain(c)
                   /\ \E after \in Screen :
                        /\ Shown(c, after)
                        /\ Len(after.players) = Len(list) - 1
                        /\ \A k \in 1 .. Len(list) - 1 :
                             after.players[k] = IF k < at THEN client[c].players[k]
                                                ELSE client[c].players[k + 1]
                        /\ after.game_started = client[c].game_started
                        /\ after.player_turn = IF client[c].player_turn = id THEN C!FreedTurn
                                               ELSE client[c].player_turn
<1>1. PICK at \in 1 .. Len(list) : list[at] = id
  BY DEF ServeEnd, Serving
<1>2. /\ Len(list') = Len(list) - 1
      /\ \A k \in 1 .. Len(list) - 1 : list'[k] = IF k < at THEN list[k] ELSE list[k + 1]
  <2>1. list \in Seq(Id) /\ IsInjective(list) /\ at \in 1 .. Len(list)
    BY DEF PartyTypes
  <2>2. list' = RemoveFirst(list, list[at])
    BY <1>1 DEF ServeEnd
  <2>3. /\ Len(RemoveFirst(list, list[at])) = Len(list) - 1
        /\ \A k \in 1 .. Len(list) - 1 :
             RemoveFirst(list, list[at])[k] = IF k < at THEN list[k] ELSE list[k + 1]
    BY ONLY <2>1, OffTheList
  <2> QED
    BY <2>2, <2>3
<1>3. ~InMain(id)
  BY DEF ServeEnd, Ended, InMain
<1> DEFINE msg == <<"N_PLAYER_LEFT", id>>
<1>4. Tell(Range(list) \ {id}, msg)
  BY DEF ServeEnd
<1>5. ASSUME NEW c \in Id
      PROVE  \/ ~InMain(c) /\ client'[c] = client[c]
             \/ /\ InMain(c)
                /\ \E after \in Screen :
                     /\ Shown(c, after)
                     /\ Len(after.players) = Len(list) - 1
                     /\ \A k \in 1 .. Len(list) - 1 :
                          after.players[k] = IF k < at THEN client[c].players[k]
                                             ELSE client[c].players[k + 1]
                     /\ after.game_started = client[c].game_started
                     /\ after.player_turn = IF client[c].player_turn = id THEN C!FreedTurn
                                            ELSE client[c].player_turn
  <2> DEFINE cl == client[c]
             after == C!process_server_command(cl, msg)
  <2>1. CASE ~InMain(c)
    <3>1. client'[c] = client[c]
      BY <1>4, <2>1, ToldOne DEF InMain
    <3> QED
      BY <2>1, <3>1
  <2>2. CASE InMain(c)
    <3>1. /\ RosterIsList(c) /\ cl.phase = "main" /\ c \in Range(list) \ {id} /\ cl \in Screen
          /\ Len(cl.players) = Len(list) /\ cl.players[at].id = id
      BY <1>1, <1>3, <2>2 DEF Rosters, RosterIsList, InMain
    <3>2. \A i, j \in 1 .. Len(cl.players) : cl.players[i].id = cl.players[j].id => i = j
      BY <3>1, RosterFacts
    <3>3. client'[c] = after \/ (after.phase = "main" /\ Shown(c, after))
      BY <1>4, <3>1, ToldIsShown
    <3>4. after = C!process_server_command(cl, <<"N_PLAYER_LEFT", cl.players[at].id>>)
      BY <3>1
    <3> HIDE DEF after, cl
    <3>5. /\ after \in Screen
          /\ Len(after.players) = Len(cl.players) - 1
          /\ \A k \in 1 .. Len(cl.players) - 1 :
               after.players[k] = IF k < at THEN cl.players[k] ELSE cl.players[k + 1]
          /\ after.game_started = cl.game_started
          /\ after.player_turn
               = IF cl.player_turn = cl.players[at].id THEN C!FreedTurn ELSE cl.player_turn
      BY <1>1, <3>1, <3>2, <3>4, ClientLosesPlayer
    <3>6. Shown(c, after)
      BY <3>3 DEF Shown
    <3> QED
      BY <2>2, <3>1, <3>5, <3>6 DEF cl
  <2> QED
    BY <2>1, <2>2
<1> QED
  BY <1>1, <1>2, <1>3, <1>5

LEMMA AcceptReaches ==
  ASSUME PartyTypes, Rosters, Accept
  PROVE  \E id \in Stranger :
           /\ ReportJoin(id) /\ id \in Id
           /\ list' = Append(list, id) /\ Len(list') = Len(list) + 1
           /\ \A k \in 1 .. Len(list) : list'[k] = list[k]
           /\ list'[Len(list) + 1] = id
           /\ client'[id] \in Screen
           /\ Len(client'[id].players) = Len(list) + 1
           /\ \A k \in 1 .. Len(list) + 1 :
                client'[id].players[k].id = list'[k] /\ client'[id].players[k].hp = MAX_HP
           /\ ~client'[id].game_started /\ client'[id].player_turn = C!NoTurn
           /\ \A c \in Id \ {id} :
                \/ ~InMain(c) /\ client'[c].phase = client[c].phase /\ ~InMain(c)'
                \/ /\ InMain(c)
                   /\ client'[c] \in Screen
                   /\ Len(client'[c].players) = Len(list) + 1
                   /\ \A k \in 1 .. Len(list) : client'[c].players[k] = client[c].players[k]
                   /\ client'[c].players[Len(list) + 1].id = id
                   /\ client'[c].players[Len(list) + 1].hp = MAX_HP
                   /\ client'[c].game_started = client[c].game_started
                   /\ client'[c].player_turn = client[c].player_turn
<1>1. PICK id \in Stranger :
        /\ ReportJoin(id)
        /\ list' = Append(list, id)
        /\ client' = [other \in Id |->
                        IF other = id THEN Welcomed(id)
                        ELSE IF other \in Range(list) /\ ~Ended(other)
                          THEN C!create_player(client[other], id, <<>>)
                        ELSE client[other]]
  BY DEF Accept
<1>2. id \in Id
  BY DEF Stranger
<1>3. /\ list' \in Seq(Id) /\ Len(list') = Len(list) + 1
      /\ \A k \in 1 .. Len(list) : list'[k] = list[k]
      /\ list'[Len(list) + 1] = id
  BY <1>1, <1>2, ListFacts, AppendProperties
<1>4. /\ client'[id] \in Screen
      /\ Len(client'[id].players) = Len(list) + 1
      /\ \A k \in 1 .. Len(list) + 1 :
           client'[id].players[k].id = list'[k] /\ client'[id].players[k].hp = MAX_HP
      /\ ~client'[id].game_started /\ client'[id].player_turn = C!NoTurn
  <2> DEFINE them == [k \in 1 .. Len(list) + 1 |-> C!new_player(Append(list, id)[k], <<>>)]
  <2>1. client'[id] = Welcomed(id)
    BY <1>1, <1>2
  <2>2. \A k \in 1 .. Len(list) + 1 : list'[k] \in Id
    BY <1>3
  <2>3. MAX_HP \in Int
    BY GameAssumption
  <2>4. \A x \in Id : /\ C!new_player(x, <<>>) \in Entry
                      /\ C!new_player(x, <<>>).id = x /\ C!new_player(x, <<>>).hp = MAX_HP
    BY <2>3 DEF C!new_player, Entry
  <2>5. them \in Seq(Entry) /\ Len(them) = Len(list) + 1
        /\ \A k \in 1 .. Len(list) + 1 : them[k].id = list'[k] /\ them[k].hp = MAX_HP
    BY <1>1, <2>2, <2>4, ListFacts
  <2>6. Welcomed(id) = [C!NewClient EXCEPT !.phase = "main", !.my_id = id, !.players = them]
    BY DEF Welcomed
  <2> HIDE DEF them
  <2>7. Welcomed(id) = [phase |-> "main", players |-> them, my_id |-> id, game_started |-> FALSE,
                        player_turn |-> C!NoTurn, req_substr |-> "none"]
    BY <2>6 DEF C!NewClient
  <2>8. C!NoTurn \in Int
    BY DEF C!NoTurn
  <2>9. /\ Welcomed(id) \in Screen /\ Welcomed(id).players = them
        /\ ~Welcomed(id).game_started /\ Welcomed(id).player_turn = C!NoTurn
    BY <1>2, <2>5, <2>7, <2>8 DEF Screen
  <2> QED
    BY <2>1, <2>5, <2>9
<1>5. ASSUME NEW c \in Id \ {id}
      PROVE  \/ ~InMain(c) /\ client'[c].phase = client[c].phase /\ ~InMain(c)'
             \/ /\ InMain(c)
                /\ client'[c] \in Screen
                /\ Len(client'[c].players) = Len(list) + 1
                /\ \A k \in 1 .. Len(list) : client'[c].players[k] = client[c].players[k]
                /\ client'[c].players[Len(list) + 1].id = id
                /\ client'[c].players[Len(list) + 1].hp = MAX_HP
                /\ client'[c].game_started = client[c].game_started
                /\ client'[c].player_turn = client[c].player_turn
  <2>1. CASE ~InMain(c)
    <3>1. client'[c] = client[c] \/ client'[c] = C!create_player(client[c], id, <<>>)
      BY <1>1
    <3>2. "phase" \in DOMAIN client[c]
      BY DEF PartyTypes
    <3>3. C!create_player(client[c], id, <<>>).phase = client[c].phase
      BY <3>2 DEF C!create_player
    <3> QED
      BY <2>1, <3>1, <3>3 DEF InMain
  <2>2. CASE InMain(c)
    <3>1. /\ client[c] \in Screen /\ c \in Range(list) /\ ~Ended(c)
          /\ Len(client[c].players) = Len(list)
      BY <2>2 DEF InMain, Rosters, RosterIsList, Ended
    <3>2. client'[c] = C!create_player(client[c], id, <<>>)
      BY <1>1, <3>1
    <3> DEFINE cl == client[c]
               after == client'[c]
    <3>3. after = C!create_player(cl, id, <<>>) /\ cl \in Screen /\ id \in Id
      BY <1>2, <3>1, <3>2
    <3> HIDE DEF cl, after
    <3>4. /\ after \in Screen
          /\ Len(after.players) = Len(cl.players) + 1
          /\ \A k \in 1 .. Len(cl.players) : after.players[k] = cl.players[k]
          /\ after.players[Len(cl.players) + 1].id = id
          /\ after.players[Len(cl.players) + 1].hp = MAX_HP
          /\ after.game_started = cl.game_started
          /\ after.player_turn = cl.player_turn
      BY ONLY <3>3, ClientGainsPlayer
    <3> QED
      BY <2>2, <3>1, <3>4 DEF cl, after
  <2> QED
    BY <2>1, <2>2
<1> QED
  BY <1>1, <1>2, <1>3, <1>4, <1>5

(* What the logic thread does but let players in and out. *)
LogicActs ==
  \/ NoLine \/ StartRefused \/ Start \/ StartThroughFreed \/ NoMoreMessages \/ Clock
  \/ \E id \in Id :
       \/ JoinRefused(id) \/ WordWithoutTurn(id) \/ WordOutOfTurn(id)
       \/ \E word \in Word : WordWrong(id, word) \/ WordRight(id, word)

LogicDoes ==
  /\ sent = <<>> /\ UNCHANGED <<to_net, list, client, quits, between>>
  /\ LogicActs \/ \E id \in Id : (Comes(id) /\ Join(id)) \/ (Goes(id) /\ Left(id))
  /\ to_logic' = to_logic \/ (to_logic # <<>> /\ to_logic' = Tail(to_logic))

Idles ==
  UNCHANGED <<players, player_turn, game_started, to_net, sent, list, client, quits, between>>

LEMMA StepKinds ==
  ASSUME PartyTypes, [PartyNext]_partyVars
  PROVE  \/ LogicDoes \/ SendNext \/ Relay \/ Accept \/ \E id \in Id : ServeEnd(id)
         \/ People /\ \E id \in Id : Quit(id)
         \/ Idles
<1>1. CASE OwnStep \/ StartTyped \/ AllHandled
  <2>1. sent = <<>> /\ UNCHANGED <<to_net, list, client, quits, between, to_logic>>
    BY <1>1 DEF OwnStep, StartTyped, AllHandled, LogicStep, network, outside
  <2>2. LogicActs
    BY <1>1 DEF OwnStep, StartTyped, AllHandled, LogicStep, LogicActs
  <2> QED
    BY <2>1, <2>2 DEF LogicDoes
<1>2. CASE HandleNext
  <2> DEFINE msg == Head(to_logic)
  <2>1. /\ to_logic # <<>> /\ Handle(msg) /\ to_logic' = Tail(to_logic)
        /\ UNCHANGED <<to_net, list, client, quits, between>> /\ sent = <<>>
    BY <1>2 DEF HandleNext, LogicStep, network, outside
  <2>2. msg \in LogicMsg /\ 1 \in 1 .. Len(to_logic) /\ to_logic[1] = msg
    BY <2>1 DEF PartyTypes
  <2> HIDE DEF msg
  <2>3. msg[2] \in Id /\ (msg[1] = "T_SEND_WORD" => msg[3] \in Word)
    BY <2>2, MsgShape
  <2>4. \/ LogicActs
        \/ msg[1] = "T_PLAYER_JOIN" /\ Join(msg[2])
        \/ msg[1] = "T_PLAYER_LEFT" /\ Left(msg[2])
    BY <2>1, <2>3 DEF Handle, LogicActs
  <2>5. /\ msg[1] = "T_PLAYER_JOIN" => Joins(1, msg[2])
        /\ msg[1] = "T_PLAYER_LEFT" => Leaves(1, msg[2])
    BY <2>2, MsgShape DEF Joins, Leaves
  <2>6. /\ msg[1] = "T_PLAYER_JOIN" => Comes(msg[2])
        /\ msg[1] = "T_PLAYER_LEFT" => Goes(msg[2])
    BY <2>2, <2>5 DEF Comes, Goes
  <2>7. LogicActs \/ \E id \in Id : (Comes(id) /\ Join(id)) \/ (Goes(id) /\ Left(id))
    BY <2>3, <2>4, <2>6
  <2> QED
    BY <2>1, <2>7 DEF LogicDoes
<1>3. CASE Select \/ RelayDone \/ ClientsDone \/ \E id \in Id : ServeWord(id)
  BY <1>3 DEF Select, RelayDone, ClientsDone, ServeWord, Serving, NetStep, vars, playing, Idles
<1>4. CASE People
  <2>1. UNCHANGED <<players, player_turn, game_started, to_net, sent, list>>
    BY <1>4 DEF People, vars, playing, network
  <2>2. (\E id \in Id : Quit(id)) \/ \E id \in Id, word \in Word : Type(id, word)
    BY <1>4 DEF People
  <2>3. ASSUME NEW id \in Id, NEW word \in Word, Type(id, word)
        PROVE  Idles
    BY <2>1, <2>3 DEF Type, Idles
  <2> QED
    BY <1>4, <2>2, <2>3
<1>5. CASE Over \/ UNCHANGED partyVars
  BY <1>5 DEF Over, partyVars, vars, playing, network, outside, Idles
<1> QED
  BY <1>1, <1>2, <1>3, <1>4, <1>5 DEF PartyNext, LogicThread, NetworkThread

LEMMA RunningBefore ==
  ASSUME [PartyNext]_partyVars, Running'
  PROVE  Running
<1>1. CASE LogicThread
  BY <1>1 DEF LogicThread, SendNext, OwnStep, StartTyped, HandleNext, AllHandled, LogicStep
<1>2. CASE NetworkThread
  BY <1>2 DEF NetworkThread, Select, Relay, RelayDone, Accept, ServeWord, ServeEnd, Serving,
              ClientsDone, NetStep
<1>3. CASE People
  BY <1>3 DEF People
<1>4. CASE Over \/ UNCHANGED partyVars
  BY <1>4 DEF Over, partyVars, vars, Running
<1> QED
  BY <1>1, <1>2, <1>3, <1>4 DEF PartyNext

LEMMA SendNextMoves ==
  ASSUME PartyTypes, IsSeq(sent), SendNext
  PROVE  /\ UNCHANGED <<players, player_turn, game_started, to_logic, list, client, quits, between>>
         /\ sent # <<>> /\ sent' = Tail(sent)
         /\ Len(sent') = Len(sent) - 1 /\ Len(sent) \in Nat \ {0}
         /\ \A k \in 1 .. Len(sent) - 1 : sent'[k] = sent[k + 1]
         /\ Head(sent) = sent[1]
         /\ \/ to_net' = to_net /\ (Head(sent)[1] = "T_TURN_TIME" \/ lost')
            \/ /\ to_net' = Append(to_net, Head(sent))
               /\ Len(to_net') = Len(to_net) + 1 /\ Len(to_net) \in Nat
               /\ \A k \in 1 .. Len(to_net) : to_net'[k] = to_net[k]
               /\ to_net'[Len(to_net) + 1] = Head(sent)
<1>1. /\ UNCHANGED <<players, player_turn, game_started, to_logic, list, client, quits, between>>
      /\ sent # <<>> /\ sent' = Tail(sent)
      /\ \/ to_net' = to_net /\ (Head(sent)[1] = "T_TURN_TIME" \/ lost')
         \/ to_net' = Append(to_net, Head(sent))
  BY DEF SendNext, playing, network, outside
<1>2. IsSeq(to_net) /\ Len(to_net) \in Nat
  BY DEF PartyTypes, IsSeq
<1>3. /\ Len(sent') = Len(sent) - 1 /\ Len(sent) \in Nat \ {0}
      /\ \A k \in 1 .. Len(sent) - 1 : sent'[k] = sent[k + 1]
      /\ Head(sent) = sent[1]
  BY <1>1, SeqOps DEF IsSeq
<1>4. \A m : /\ Len(Append(to_net, m)) = Len(to_net) + 1
             /\ \A k \in 1 .. Len(to_net) : Append(to_net, m)[k] = to_net[k]
             /\ Append(to_net, m)[Len(to_net) + 1] = m
  BY <1>2, SeqOps
<1>5. \/ to_net' = to_net /\ (Head(sent)[1] = "T_TURN_TIME" \/ lost')
      \/ /\ to_net' = Append(to_net, Head(sent))
         /\ Len(to_net') = Len(to_net) + 1
         /\ \A k \in 1 .. Len(to_net) : to_net'[k] = to_net[k]
         /\ to_net'[Len(to_net) + 1] = Head(sent)
  BY <1>1, <1>4
<1> QED
  BY <1>1, <1>2, <1>3, <1>5

LEMMA RelayMoves ==
  ASSUME PartyTypes, Relay
  PROVE  /\ UNCHANGED <<players, player_turn, game_started, to_logic, list, sent, quits, between>>
         /\ to_net # <<>> /\ to_net' = Tail(to_net) /\ IsSeq(to_net')
         /\ Len(to_net') = Len(to_net) - 1 /\ Len(to_net) \in Nat \ {0}
         /\ \A k \in 1 .. Len(to_net) - 1 : to_net'[k] = to_net[k + 1]
         /\ Head(to_net) = to_net[1]
<1>1. /\ UNCHANGED <<players, player_turn, game_started, to_logic, list, sent, quits, between>>
      /\ to_net # <<>> /\ to_net' = Tail(to_net)
  BY DEF Relay, NetStep, network, vars, playing
<1>2. IsSeq(to_net) /\ Len(to_net) \in Nat
  BY DEF PartyTypes, IsSeq
<1> QED
  BY <1>1, <1>2, SeqOps

LEMMA AcceptMoves ==
  ASSUME Accept
  PROVE  UNCHANGED <<players, player_turn, game_started, to_net, sent, quits, connected>>
BY DEF Accept, NetStep, vars, playing, clients

LEMMA ServeMoves ==
  ASSUME NEW id, ServeEnd(id)
  PROVE  UNCHANGED <<players, player_turn, game_started, to_net, sent, quits, between>>
BY DEF ServeEnd, Serving, NetStep, vars, playing

LEMMA QuitMoves ==
  ASSUME DOMAIN client = Id, PartyTypes, People, NEW id \in Id, Quit(id)
  PROVE  /\ UNCHANGED <<players, player_turn, game_started, to_logic, to_net, sent, list, between>>
         /\ quits' = quits + 1
         /\ client'[id].phase = "exited" /\ \A c \in Id \ {id} : client'[c] = client[c]
<1>1. /\ UNCHANGED <<players, player_turn, game_started, to_logic, to_net, sent, list, between>>
      /\ quits' = quits + 1 /\ client' = [client EXCEPT ![id].phase = "exited"]
  BY DEF People, Quit, vars, playing, network
<1>2. "phase" \in DOMAIN client[id]
  BY DEF PartyTypes
<1> QED
  BY <1>1, <1>2

LEMMA NextClients ==
  ASSUME PartyTypes, DOMAIN client = Id, [PartyNext]_partyVars
  PROVE  DOMAIN client' = Id
<1>1. \A ids, msg : Tell(ids, msg) => DOMAIN client' = Id
  BY DEF Tell
<1>2. CASE Relay \/ \E id \in Id : ServeEnd(id)
  BY <1>1, <1>2 DEF Relay, ServeEnd
<1>3. CASE Accept
  BY <1>3 DEF Accept
<1>4. CASE \E id \in Id : Quit(id)
  BY <1>4 DEF Quit
<1>5. CASE LogicDoes \/ SendNext \/ Idles
  BY <1>5 DEF LogicDoes, SendNext, Idles, outside
<1> QED
  BY <1>2, <1>3, <1>4, <1>5, StepKinds

LEMMA NextMessages ==
  ASSUME IInv, PartyTypes, IsSeq(sent), MessagesAreOfLogic, [PartyNext]_partyVars,
         DOMAIN client = Id
  PROVE  MessagesAreOfLogic'
<1>1. CASE LogicDoes
  <2>1. CASE LogicActs
    <3>1. sent' \in Seq(Fit)
      BY <2>1, LogicTells DEF LogicActs
    <3>2. \A k \in 1 .. Len(sent') : sent'[k] \in NetMsg
      BY <3>1 DEF Fit
    <3>3. to_net' = to_net
      BY <1>1 DEF LogicDoes
    <3> QED
      BY <3>2, <3>3 DEF MessagesAreOfLogic, NetMsg
  <2>2. CASE \E id \in Id : Join(id) \/ Left(id)
    <3>1. sent' = <<>> /\ to_net' = to_net
      BY <1>1, <2>2 DEF LogicDoes, Join, Left
    <3> QED
      BY <3>1 DEF MessagesAreOfLogic, NetMsg
  <2> QED
    BY <1>1, <2>1, <2>2 DEF LogicDoes
<1>2. CASE SendNext
  <2>1. \A k \in 1 .. Len(sent') : sent'[k] \in NetMsg
    BY <1>2, SendNextMoves DEF MessagesAreOfLogic
  <2>2. Head(sent) \in NetMsg
    BY <1>2, SendNextMoves DEF MessagesAreOfLogic
  <2>3. \A k \in 1 .. Len(to_net') : to_net'[k] \in NetMsg
    BY <1>2, <2>2, SendNextMoves DEF MessagesAreOfLogic
  <2> QED
    BY <2>1, <2>3 DEF MessagesAreOfLogic, NetMsg
<1>3. CASE Relay
  <2>1. \A k \in 1 .. Len(to_net') : to_net'[k] \in NetMsg
    BY <1>3, RelayMoves DEF MessagesAreOfLogic
  <2>2. sent' = sent
    BY <1>3, RelayMoves
  <2> QED
    BY <2>1, <2>2 DEF MessagesAreOfLogic, NetMsg
<1>4. CASE Accept \/ (\E id \in Id : ServeEnd(id)) \/ (People /\ \E id \in Id : Quit(id)) \/ Idles
  <2>1. to_net' = to_net /\ sent' = sent
    BY <1>4, AcceptMoves, ServeMoves, QuitMoves DEF Idles
  <2> QED
    BY <2>1 DEF MessagesAreOfLogic, NetMsg
<1> QED
  BY <1>1, <1>2, <1>3, <1>4, StepKinds

LEMMA ShownInMain ==
  ASSUME NEW c \in Id, NEW after \in Screen, Shown(c, after), InMain(c)'
  PROVE  client'[c] = after
<1>1. C!Crashed(after).phase = "crashed"
  BY DEF C!Crashed, Screen
<1> QED
  BY <1>1 DEF Shown, InMain

(* What a relayed message leaves of a client that is still in its main loop. *)
LEMMA RelayedInMain ==
  ASSUME PartyTypes, Rosters, MessagesAreOfLogic, Relay, NEW c \in Id, InMain(c)',
         NEW msg, msg = Head(to_net)
  PROVE  /\ InMain(c) /\ RosterIsList(c) /\ RosterIsList(c)'
         /\ \A i \in 1 .. Len(list) :
              client'[c].players[i].hp = Reads("hearts", list[i], client[c].players[i].hp, msg)
         /\ client'[c].game_started = Reads("started", 0, client[c].game_started, msg)
         /\ client'[c].player_turn
              = IF msg[1] = "T_PLAYER_TURN"
                  THEN IF msg[2] \in Range(list) THEN msg[2] ELSE C!NoTurn
                ELSE IF msg[1] = "T_RESTART_GAME" THEN C!NoTurn ELSE client[c].player_turn
<1>1. list' = list
  BY RelayMoves
<1>2. CASE ForAll(msg)
  <2>1. \/ ~InMain(c) /\ client'[c] = client[c]
        \/ InMain(c) /\ client'[c] = C!Crashed(client[c])
        \/ /\ InMain(c)
           /\ \E after \in Screen :
                /\ Shown(c, after)
                /\ Len(after.players) = Len(list)
                /\ \A i \in 1 .. Len(list) :
                     /\ after.players[i].id = list[i]
                     /\ after.players[i].hp = Reads("hearts", list[i], client[c].players[i].hp, msg)
                /\ after.game_started = Reads("started", 0, client[c].game_started, msg)
                /\ after.player_turn
                     = IF msg[1] = "T_PLAYER_TURN"
                         THEN IF msg[2] \in Range(list) THEN msg[2] ELSE C!NoTurn
                       ELSE IF msg[1] = "T_RESTART_GAME" THEN C!NoTurn ELSE client[c].player_turn
    BY <1>2, RelayReaches
  <2>2. ~(~InMain(c) /\ client'[c] = client[c])
    BY DEF InMain
  <2>3. ~(InMain(c) /\ client'[c] = C!Crashed(client[c]))
    <3>1. SUFFICES ASSUME InMain(c), client'[c] = C!Crashed(client[c]) PROVE FALSE
      OBVIOUS
    <3>2. client[c] \in Screen
      BY <3>1 DEF Rosters, RosterIsList
    <3>3. C!Crashed(client[c]).phase = "crashed"
      BY <3>2 DEF C!Crashed, Screen
    <3> QED
      BY <3>1, <3>3 DEF InMain
  <2>4. PICK after \in Screen :
          /\ Shown(c, after)
          /\ Len(after.players) = Len(list)
          /\ \A i \in 1 .. Len(list) :
               /\ after.players[i].id = list[i]
               /\ after.players[i].hp = Reads("hearts", list[i], client[c].players[i].hp, msg)
          /\ after.game_started = Reads("started", 0, client[c].game_started, msg)
          /\ after.player_turn
               = IF msg[1] = "T_PLAYER_TURN"
                   THEN IF msg[2] \in Range(list) THEN msg[2] ELSE C!NoTurn
                 ELSE IF msg[1] = "T_RESTART_GAME" THEN C!NoTurn ELSE client[c].player_turn
    BY <2>1, <2>2, <2>3
  <2>5. client'[c] = after
    BY <2>4, ShownInMain
  <2>6. InMain(c) /\ RosterIsList(c) /\ c \in Range(list)
    BY <2>1, <2>2, <2>3 DEF Rosters, RosterIsList
  <2>7. RosterIsList(c)'
    BY <1>1, <2>4, <2>5, <2>6 DEF RosterIsList, Screen
  <2> QED
    BY <2>4, <2>5, <2>6, <2>7
<1>3. CASE ~ForAll(msg)
  <2>1. msg = Refusal(msg[2]) /\ client'[c] = client[c]
    <3>1. /\ msg = Refusal(msg[2])
          /\ client'[c] = client[c] \/ (c = msg[2] /\ client'[c].phase = "exited")
      BY <1>3, RefusalReaches
    <3> QED
      BY <3>1 DEF InMain
  <2>2. InMain(c) /\ RosterIsList(c)
    BY <2>1 DEF Rosters, InMain
  <2>3. RosterIsList(c)'
    BY <1>1, <2>1, <2>2 DEF RosterIsList, Screen
  <2>4. msg[1] = "T_GAME_STARTED_NO_JOINING"
    BY <2>1 DEF Refusal
  <2>5. \A what, x, b : what \in Topic => Reads(what, x, b, msg) = b
    BY <2>4, OthersTeachNothing
  <2> QED
    BY <2>1, <2>2, <2>3, <2>4, <2>5, TopicsAre
<1> QED
  BY <1>2, <1>3

LEMMA NextRosters ==
  ASSUME PartyTypes, DOMAIN client = Id, Rosters, MessagesAreOfLogic, IsSeq(sent),
         [PartyNext]_partyVars
  PROVE  Rosters'
<1>1. ASSUME NEW c \in Id, InMain(c)', client'[c] = client[c], list' = list
      PROVE  RosterIsList(c)'
  <2>1. RosterIsList(c)
    BY <1>1 DEF Rosters, InMain
  <2> QED
    BY <1>1, <2>1 DEF RosterIsList, Screen
<1>2. CASE LogicDoes \/ SendNext \/ Idles
  <2>1. client' = client /\ list' = list
    BY <1>2, SendNextMoves DEF LogicDoes, Idles
  <2> QED
    BY <1>1, <2>1 DEF Rosters
<1>3. CASE People /\ \E id \in Id : Quit(id)
  <2>1. list' = list /\ \A c \in Id : client'[c] = client[c] \/ client'[c].phase = "exited"
    BY <1>3, QuitMoves
  <2> QED
    BY <1>1, <2>1 DEF Rosters, InMain
<1>4. CASE Relay
  BY <1>4, RelayedInMain DEF Rosters
<1>5. CASE Accept
  <2>1. PICK id \in Id :
           /\ list' = Append(list, id) /\ Len(list') = Len(list) + 1
           /\ \A k \in 1 .. Len(list) : list'[k] = list[k]
           /\ list'[Len(list) + 1] = id
           /\ client'[id] \in Screen
           /\ Len(client'[id].players) = Len(list) + 1
           /\ \A k \in 1 .. Len(list) + 1 : client'[id].players[k].id = list'[k]
           /\ \A c \in Id \ {id} :
                \/ ~InMain(c) /\ ~InMain(c)'
                \/ /\ InMain(c)
                   /\ client'[c] \in Screen
                   /\ Len(client'[c].players) = Len(list) + 1
                   /\ \A k \in 1 .. Len(list) : client'[c].players[k] = client[c].players[k]
                   /\ client'[c].players[Len(list) + 1].id = id
    BY <1>5, AcceptReaches
  <2>2. Len(list) \in Nat /\ list \in Seq(Id)
    BY ListFacts
  <2>3. Range(list') = Range(list) \cup {id}
    BY <2>1, <2>2 DEF Range
  <2>4. RosterIsList(id)'
    BY <2>1, <2>3 DEF RosterIsList, Screen
  <2>5. ASSUME NEW c \in Id \ {id}, InMain(c)'
        PROVE  RosterIsList(c)'
    <3>1. /\ InMain(c)
          /\ client'[c] \in Screen
          /\ Len(client'[c].players) = Len(list) + 1
          /\ \A k \in 1 .. Len(list) : client'[c].players[k] = client[c].players[k]
          /\ client'[c].players[Len(list) + 1].id = id
      BY <2>1, <2>5
    <3>2. /\ c \in Range(list) /\ \A i \in 1 .. Len(list) : client[c].players[i].id = list[i]
      BY <3>1 DEF Rosters, RosterIsList
    <3>3. \A i \in 1 .. Len(list') : client'[c].players[i].id = list'[i]
      BY <2>1, <2>2, <3>1, <3>2
    <3>4. c \in Range(list') /\ Len(client'[c].players) = Len(list')
      BY <2>1, <2>3, <3>1, <3>2
    <3> QED
      BY <3>1, <3>3, <3>4 DEF RosterIsList, Screen
  <2> QED
    BY <2>4, <2>5 DEF Rosters
<1>6. ASSUME NEW id \in Id, ServeEnd(id)
      PROVE  Rosters'
  <2>1. PICK at \in 1 .. Len(list) :
           /\ list[at] = id
           /\ Len(list') = Len(list) - 1
           /\ \A k \in 1 .. Len(list) - 1 : list'[k] = IF k < at THEN list[k] ELSE list[k + 1]
           /\ ~InMain(id)
           /\ \A c \in Id :
                \/ ~InMain(c) /\ client'[c] = client[c]
                \/ /\ InMain(c)
                   /\ \E after \in Screen :
                        /\ Shown(c, after)
                        /\ Len(after.players) = Len(list) - 1
                        /\ \A k \in 1 .. Len(list) - 1 :
                             after.players[k] = IF k < at THEN client[c].players[k]
                                                ELSE client[c].players[k + 1]
                        /\ after.game_started = client[c].game_started
                        /\ after.player_turn = IF client[c].player_turn = id THEN C!FreedTurn
                                               ELSE client[c].player_turn
    BY <1>6, ServeReaches
  <2>2. Len(list) \in Nat /\ \A k \in 1 .. Len(list) : list[k] \in Id
    BY ListFacts
  <2>3. ASSUME NEW x, x \in Range(list), x # id
        PROVE  x \in Range(list')
    <3>1. PICK i \in 1 .. Len(list) : list[i] = x
      BY <2>3, ListFacts
    <3>2. i # at
      BY <2>1, <2>3, <3>1
    <3>3. \E k \in 1 .. Len(list) - 1 : list'[k] = x
      <4>1. CASE i < at
        <5>1. i \in 1 .. Len(list) - 1
          BY <2>2, <4>1
        <5> QED
          BY <2>1, <3>1, <4>1, <5>1
      <4>2. CASE i > at
        <5>1. i - 1 \in 1 .. Len(list) - 1 /\ ~(i - 1 < at) /\ (i - 1) + 1 = i
          BY <2>2, <4>2
        <5> DEFINE k == i - 1
        <5>2. k \in 1 .. Len(list) - 1 /\ ~(k < at) /\ k + 1 = i
          BY <5>1
        <5> HIDE DEF k
        <5>3. list'[k] = list[k + 1]
          BY <2>1, <5>2
        <5>4. list'[k] = x
          BY <3>1, <5>2, <5>3
        <5> QED
          BY <5>2, <5>4
      <4> QED
        BY <2>2, <3>2, <4>1, <4>2
    <3> QED
      BY <2>1, <3>3 DEF Range
  <2>4. ASSUME NEW c \in Id, InMain(c)'
        PROVE  RosterIsList(c)'
    <3>1. InMain(c) /\ c # id
      BY <2>1, <2>4 DEF InMain
    <3>2. PICK after \in Screen :
            /\ Shown(c, after)
            /\ Len(after.players) = Len(list) - 1
            /\ \A k \in 1 .. Len(list) - 1 :
                 after.players[k] = IF k < at THEN client[c].players[k] ELSE client[c].players[k + 1]
      BY <2>1, <3>1
    <3>3. client'[c] = after
      BY <2>4, <3>2, ShownInMain
    <3>4. /\ c \in Range(list) /\ \A i \in 1 .. Len(list) : client[c].players[i].id = list[i]
      BY <3>1 DEF Rosters, RosterIsList
    <3>5. \A k \in 1 .. Len(list) - 1 : after.players[k].id = list'[k]
      <4>1. TAKE k \in 1 .. Len(list) - 1
      <4>2. k \in 1 .. Len(list) /\ k + 1 \in 1 .. Len(list)
        BY <2>2
      <4>3. list'[k] = IF k < at THEN list[k] ELSE list[k + 1]
        BY <2>1
      <4>4. after.players[k].id = IF k < at THEN client[c].players[k].id
                                  ELSE client[c].players[k + 1].id
        BY <3>2
      <4> QED
        BY <3>4, <4>2, <4>3, <4>4
    <3>6. c \in Range(list')
      BY <2>3, <3>1, <3>4
    <3> QED
      BY <2>1, <3>2, <3>3, <3>5, <3>6 DEF RosterIsList, Screen
  <2> QED
    BY <2>4 DEF Rosters
<1> QED
  BY <1>2, <1>3, <1>4, <1>5, <1>6, StepKinds

LEMMA GameComesStill ==
  ASSUME GameComes, UNCHANGED <<players, player_turn, game_started>>,
         \A c \in Id : InMain(c)' /\ Plays(c) =>
           /\ InMain(c)
           /\ LearntOf("started", 0, client'[c].game_started, to_net', sent')
                = LearntOf("started", 0, client[c].game_started, to_net, sent)
           /\ \A x : x \in Range(list') /\ Plays(x) =>
                /\ x \in Range(list)
                /\ LearntOf("turn", x, ShowsTurn(client'[c], x), to_net', sent')
                     = LearntOf("turn", x, ShowsTurn(client[c], x), to_net, sent)
                /\ LearntOf("hearts", x, HeartsOf(client'[c], list', x), to_net', sent')
                     = LearntOf("hearts", x, HeartsOf(client[c], list, x), to_net, sent)
  PROVE  GameComes'
<1>1. SUFFICES ASSUME game_started', NEW c \in Id, Plays(c)', InMain(c)'
               PROVE  /\ LearntOf("started", 0, client'[c].game_started, to_net', sent')
                      /\ \A p \in 1 .. Len(players') : players'[p].id \in Range(list') =>
                           /\ player_turn' = p
                                => LearntOf("turn", players'[p].id, ShowsTurn(client'[c], players'[p].id),
                                            to_net', sent')
                           /\ LearntOf("hearts", players'[p].id, HeartsOf(client'[c], list', players'[p].id),
                                       to_net', sent')
                                = players'[p].hp
  BY DEF GameComes, Coming, LearntOf
<1>2. Plays(c) /\ InMain(c) /\ game_started
  BY <1>1 DEF Plays
<1>3. /\ LearntOf("started", 0, client[c].game_started, to_net, sent)
      /\ \A q \in 1 .. Len(players) : players[q].id \in Range(list) =>
           /\ player_turn = q
                => LearntOf("turn", players[q].id, ShowsTurn(client[c], players[q].id), to_net, sent)
           /\ LearntOf("hearts", players[q].id, HeartsOf(client[c], list, players[q].id), to_net, sent)
                = players[q].hp
  BY <1>2, ComingIs DEF GameComes
<1>4. \A p \in 1 .. Len(players) : Plays(players[p].id)
  BY DEF Plays
<1>5. LearntOf("started", 0, client'[c].game_started, to_net', sent')
        = LearntOf("started", 0, client[c].game_started, to_net, sent)
  BY <1>1, <1>2
<1>6. ASSUME NEW p \in 1 .. Len(players), players[p].id \in Range(list')
      PROVE  /\ player_turn = p
                  => LearntOf("turn", players[p].id, ShowsTurn(client'[c], players[p].id), to_net', sent')
             /\ LearntOf("hearts", players[p].id, HeartsOf(client'[c], list', players[p].id), to_net', sent')
                  = players[p].hp
  <2> DEFINE x == players[p].id
  <2>1. Plays(x)
    BY <1>4
  <2> HIDE DEF x
  <2>2. x \in Range(list')
    BY <1>6 DEF x
  <2>3. /\ x \in Range(list)
        /\ LearntOf("turn", x, ShowsTurn(client'[c], x), to_net', sent')
             = LearntOf("turn", x, ShowsTurn(client[c], x), to_net, sent)
        /\ LearntOf("hearts", x, HeartsOf(client'[c], list', x), to_net', sent')
             = LearntOf("hearts", x, HeartsOf(client[c], list, x), to_net, sent)
    BY <1>1, <1>2, <2>1, <2>2
  <2>4. /\ player_turn = p => LearntOf("turn", x, ShowsTurn(client[c], x), to_net, sent)
        /\ LearntOf("hearts", x, HeartsOf(client[c], list, x), to_net, sent) = players[p].hp
    BY <1>3, <2>3 DEF x
  <2>5. /\ player_turn = p => LearntOf("turn", x, ShowsTurn(client'[c], x), to_net', sent')
        /\ LearntOf("hearts", x, HeartsOf(client'[c], list', x), to_net', sent') = players[p].hp
    BY <2>3, <2>4
  <2> QED
    BY <2>5 DEF x
<1> QED
  BY <1>3, <1>5, <1>6

LEMMA RosterLore ==
  ASSUME PartyTypes, NEW c \in Id, RosterIsList(c)
  PROVE  /\ client[c].game_started \in Lore("started")
         /\ \A x : ShowsTurn(client[c], x) \in Lore("turn")
         /\ \A x \in Range(list) : HeartsOf(client[c], list, x) \in Lore("hearts")
<1>1. client[c].game_started \in BOOLEAN
  BY DEF RosterIsList, Screen
<1>2. \A x : ShowsTurn(client[c], x) \in BOOLEAN
  BY DEF ShowsTurn
<1>3. \A x \in Range(list) : HeartsOf(client[c], list, x) \in Int
  <2>1. \A x \in Range(list) : \E i \in 1 .. Len(list) : list[i] = x
    BY ListFacts
  <2> QED
    BY <2>1, HeartsKnown
<1> QED
  BY <1>1, <1>2, <1>3, TopicsAre

(* What is yet to be read stays the same, and so do those who read it. *)
LEMMA NewsUntouched ==
  ASSUME PartyTypes, Rosters, GameNews,
         UNCHANGED <<players, player_turn, game_started, list>>,
         \A c \in Id : InMain(c)' => client'[c] = client[c],
         \A what, x, b :
           what \in Topic /\ b \in Lore(what)
           => LearntOf(what, x, b, to_net', sent') = LearntOf(what, x, b, to_net, sent)
  PROVE  GameNews'
<1>1. \A c \in Id : InMain(c)' => InMain(c) /\ RosterIsList(c)
  BY DEF InMain, Rosters
<1>2. LobbyComes'
  <2>1. SUFFICES ASSUME ~game_started'
                 PROVE  /\ LearntOf("marks", 0, "none", to_net', sent') # "marked"
                        /\ LearntOf("marks", 0, "none", to_net', sent') = "none"
                             => \A c \in Id : InMain(c)' => Fresh(c)'
    BY DEF LobbyComes, Coming, LearntOf
  <2>2. LearntOf("marks", 0, "none", to_net', sent') = LearntOf("marks", 0, "none", to_net, sent)
    BY TopicsAre
  <2>3. \A c \in Id : InMain(c)' /\ Fresh(c) => Fresh(c)'
    BY DEF Fresh
  <2> QED
    BY <1>1, <2>1, <2>2, <2>3, ComingIs DEF GameNews, LobbyComes
<1>3. TurnsComeFirst'
  <2>1. LearntOf("screen", 0, "turn", to_net', sent') # "broken"
    BY ComingIs, TopicsAre DEF GameNews, TurnsComeFirst
  <2> QED
    BY <2>1 DEF TurnsComeFirst, Coming, LearntOf
<1>4. GameComes'
  <2>1. ASSUME NEW c \in Id, InMain(c)', Plays(c)
        PROVE  /\ InMain(c)
               /\ LearntOf("started", 0, client'[c].game_started, to_net', sent')
                    = LearntOf("started", 0, client[c].game_started, to_net, sent)
               /\ \A x : x \in Range(list') /\ Plays(x) =>
                    /\ x \in Range(list)
                    /\ LearntOf("turn", x, ShowsTurn(client'[c], x), to_net', sent')
                         = LearntOf("turn", x, ShowsTurn(client[c], x), to_net, sent)
                    /\ LearntOf("hearts", x, HeartsOf(client'[c], list', x), to_net', sent')
                         = LearntOf("hearts", x, HeartsOf(client[c], list, x), to_net, sent)
    BY <1>1, <2>1, RosterLore, TopicsAre
  <2> QED
    BY <2>1, GameComesStill DEF GameNews
<1> QED
  BY <1>2, <1>3, <1>4 DEF GameNews

LEMMA SendNextKeepsComing ==
  ASSUME PartyTypes, IsSeq(sent), SendNext, ~lost'
  PROVE  \A what, x, b :
           what \in Topic /\ b \in Lore(what)
           => LearntOf(what, x, b, to_net', sent') = LearntOf(what, x, b, to_net, sent)
<1> TAKE what, x, b
<1> HAVE what \in Topic /\ b \in Lore(what)
<1>1. IsSeq(to_net)
  BY DEF PartyTypes
<1>2. /\ sent # <<>> /\ sent' = Tail(sent)
      /\ \/ to_net' = to_net /\ Head(sent)[1] = "T_TURN_TIME"
         \/ to_net' = Append(to_net, Head(sent))
  BY SendNextMoves
<1>3. /\ LearntOf(what, x, b, Append(to_net, Head(sent)), Tail(sent)) = LearntOf(what, x, b, to_net, sent)
      /\ Head(sent)[1] = "T_TURN_TIME"
           => LearntOf(what, x, b, to_net, Tail(sent)) = LearntOf(what, x, b, to_net, sent)
  BY <1>1, <1>2, LearntMoves
<1> QED
  BY <1>2, <1>3

LEMMA OthersKeepNews ==
  ASSUME DOMAIN client = Id, PartyTypes, IsSeq(sent), Rosters, GameNews, ~lost',
         SendNext \/ (People /\ \E id \in Id : Quit(id)) \/ Idles
  PROVE  GameNews'
<1>1. CASE SendNext
  BY <1>1, SendNextMoves, SendNextKeepsComing, NewsUntouched
<1>2. CASE People /\ \E id \in Id : Quit(id)
  <2>1. /\ UNCHANGED <<players, player_turn, game_started, list>> /\ to_net' = to_net /\ sent' = sent
        /\ \A c \in Id : client'[c] = client[c] \/ client'[c].phase = "exited"
    BY <1>2, QuitMoves
  <2>2. \A c \in Id : InMain(c)' => client'[c] = client[c]
    BY <2>1 DEF InMain
  <2>3. \A what, x, b : LearntOf(what, x, b, to_net', sent') = LearntOf(what, x, b, to_net, sent)
    BY <2>1
  <2> QED
    BY <2>1, <2>2, <2>3, NewsUntouched
<1>3. CASE Idles
  <2>1. /\ UNCHANGED <<players, player_turn, game_started, list>> /\ to_net' = to_net /\ sent' = sent
        /\ client' = client
    BY <1>3 DEF Idles
  <2>2. \A what, x, b : LearntOf(what, x, b, to_net', sent') = LearntOf(what, x, b, to_net, sent)
    BY <2>1
  <2> QED
    BY <2>1, <2>2, NewsUntouched
<1> QED
  BY <1>1, <1>2, <1>3

LEMMA HeartsAt ==
  \A cl, l, i :
    i \in 1 .. Len(l) /\ (\A j \in 1 .. Len(l) : l[j] = l[i] => j = i)
    => HeartsOf(cl, l, l[i]) = cl.players[i].hp
<1> TAKE cl, l, i
<1> HAVE i \in 1 .. Len(l) /\ (\A j \in 1 .. Len(l) : l[j] = l[i] => j = i)
<1>1. (CHOOSE j \in 1 .. Len(l) : l[j] = l[i]) = i
  OBVIOUS
<1> QED
  BY <1>1 DEF HeartsOf

LEMMA IdsAreNoPointers == \A id \in Id : id # C!NoTurn /\ id # C!FreedTurn /\ id \in Nat
<1>1. \A id : id \in Id => id \in Nat
  BY ONLY GameAssumption
<1>2. \A id \in Id : id # 0
  BY PartyAssumption
<1> QED
  BY <1>1, <1>2 DEF C!NoTurn, C!FreedTurn

LEMMA RelayKeepsNews ==
  ASSUME PartyTypes, IsSeq(sent), Rosters, MessagesAreOfLogic, GameNews, Relay
  PROVE  GameNews'
<1> DEFINE msg == Head(to_net)
<1>1. /\ UNCHANGED <<players, player_turn, game_started>> /\ list' = list /\ sent' = sent
      /\ to_net # <<>> /\ to_net' = Tail(to_net) /\ IsSeq(to_net')
      /\ IsSeq(to_net) /\ IsSeq(sent)
  BY RelayMoves DEF PartyTypes
<1>2. ASSUME NEW what, NEW x, NEW b, what \in Topic, b \in Lore(what)
      PROVE  LearntOf(what, x, b, to_net, sent)
               = LearntOf(what, x, Reads(what, x, b, msg), to_net', sent')
  BY <1>1, <1>2, LearntRead
<1> HIDE DEF msg
<1>3. ASSUME NEW c \in Id, InMain(c)'
      PROVE  /\ InMain(c) /\ RosterIsList(c)
             /\ \A i \in 1 .. Len(list) :
                  client'[c].players[i].hp = Reads("hearts", list[i], client[c].players[i].hp, msg)
             /\ client'[c].game_started = Reads("started", 0, client[c].game_started, msg)
             /\ client'[c].player_turn
                  = IF msg[1] = "T_PLAYER_TURN"
                      THEN IF msg[2] \in Range(list) THEN msg[2] ELSE C!NoTurn
                    ELSE IF msg[1] = "T_RESTART_GAME" THEN C!NoTurn ELSE client[c].player_turn
  BY <1>3, RelayedInMain DEF msg
<1>4. LobbyComes'
  <2>1. SUFFICES ASSUME ~game_started'
                 PROVE  /\ LearntOf("marks", 0, "none", to_net', sent') # "marked"
                        /\ LearntOf("marks", 0, "none", to_net', sent') = "none"
                             => \A c \in Id : InMain(c)' => Fresh(c)'
    BY DEF LobbyComes, Coming, LearntOf
  <2> DEFINE before == LearntOf("marks", 0, "none", to_net, sent)
             after == LearntOf("marks", 0, "none", to_net', sent')
             b == Reads("marks", 0, "none", msg)
  <2>2. /\ before # "marked"
        /\ before = "none" => \A c \in Id : InMain(c) => Fresh(c)
    BY <1>1, <2>1, ComingIs DEF GameNews, LobbyComes
  <2>3. "none" \in Lore("marks") /\ b \in Lore("marks")
    BY ReadsLore, TopicsAre
  <2>4. before = LearntOf("marks", 0, b, to_net', sent')
    BY <1>2, <2>3, TopicsAre
  <2>5. /\ IsSeq(to_net' \o sent')
        /\ after = Learnt("marks", 0, "none", to_net' \o sent')
        /\ LearntOf("marks", 0, b, to_net', sent') = Learnt("marks", 0, b, to_net' \o sent')
    <3>1. \A e : e \in Lore("marks") =>
            /\ IsSeq(to_net' \o sent')
            /\ LearntOf("marks", 0, e, to_net', sent') = Learnt("marks", 0, e, to_net' \o sent')
      BY <1>1, LearntOfBoth, TopicsAre
    <3> HIDE DEF b
    <3> QED
      BY <2>3, <3>1
  <2>6. Learnt("marks", 0, b, to_net' \o sent')
          = IF Learnt("marks", 0, "none", to_net' \o sent') = "none" THEN b
            ELSE Learnt("marks", 0, "none", to_net' \o sent')
    <3> HIDE DEF b
    <3> QED
      BY <2>3, <2>5, MarksOfBefore
  <2> HIDE DEF before, after, b
  <2>7. before = IF after = "none" THEN b ELSE after
    BY <2>4, <2>5, <2>6
  <2>8. ASSUME after = "none", NEW c \in Id, InMain(c)'
        PROVE  Fresh(c)'
    <3>1. b = "none" \/ b = "wiped"
      BY <2>2, <2>3, <2>7, <2>8, TopicsAre
    <3>2. CASE b = "wiped"
      <4>1. msg[1] = "T_RESTART_GAME"
        BY <3>2 DEF b, Reads
      <4>2. /\ client'[c].game_started = FALSE
            /\ \A i \in 1 .. Len(list) : client'[c].players[i].hp = MAX_HP
            /\ client'[c].player_turn = C!NoTurn
        BY <1>3, <2>8, <4>1 DEF Reads
      <4> QED
        BY <1>1, <4>2 DEF Fresh
    <3>3. CASE b = "none"
      <4>1. msg[1] \notin {"T_GAME_START", "T_RESTART_GAME", "T_PLAYER_TURN", "T_LOSE_HP"}
        BY <3>3 DEF b, Reads
      <4>2. /\ \A x, h : Reads("hearts", x, h, msg) = h
            /\ \A x, h : Reads("started", x, h, msg) = h
        BY <4>1, OthersTeachNothing, TopicsAre
      <4>3. /\ client'[c].game_started = client[c].game_started
            /\ \A i \in 1 .. Len(list) : client'[c].players[i].hp = client[c].players[i].hp
            /\ client'[c].player_turn = client[c].player_turn
        BY <1>3, <2>8, <4>1, <4>2
      <4>4. Fresh(c)
        BY <1>3, <2>2, <2>7, <2>8, <3>3
      <4> QED
        BY <1>1, <4>3, <4>4 DEF Fresh
    <3> QED
      BY <3>1, <3>2, <3>3
  <2> QED
    BY <2>2, <2>7, <2>8 DEF after
<1>5. TurnsComeFirst'
  <2> DEFINE b == Reads("screen", 0, "turn", msg)
  <2>1. LearntOf("screen", 0, "turn", to_net, sent) # "broken"
    BY ComingIs DEF GameNews, TurnsComeFirst
  <2>2. b \in {"turn", "lobby"}
    BY DEF Reads
  <2> HIDE DEF b
  <2>3. LearntOf("screen", 0, b, to_net', sent') # "broken"
    BY <1>2, <2>1, TopicsAre DEF b
  <2>4. \A e : e \in Lore("screen") =>
          /\ IsSeq(to_net' \o sent')
          /\ LearntOf("screen", 0, e, to_net', sent') = Learnt("screen", 0, e, to_net' \o sent')
    BY <1>1, LearntOfBoth, TopicsAre
  <2>5. Learnt("screen", 0, b, to_net' \o sent') # "broken" /\ IsSeq(to_net' \o sent')
    BY <2>2, <2>3, <2>4, TopicsAre
  <2>6. Learnt("screen", 0, "turn", to_net' \o sent') # "broken"
    BY <2>2, <2>5, ScreensInStep
  <2>7. LearntOf("screen", 0, "turn", to_net', sent') # "broken"
    BY <2>4, <2>6, TopicsAre
  <2> QED
    BY <2>7 DEF TurnsComeFirst, Coming, LearntOf
<1>6. GameComes'
  <2>1. ASSUME NEW c \in Id, InMain(c)', Plays(c)
        PROVE  /\ InMain(c)
               /\ LearntOf("started", 0, client'[c].game_started, to_net', sent')
                    = LearntOf("started", 0, client[c].game_started, to_net, sent)
               /\ \A x : x \in Range(list') /\ Plays(x) =>
                    /\ x \in Range(list)
                    /\ LearntOf("turn", x, ShowsTurn(client'[c], x), to_net', sent')
                         = LearntOf("turn", x, ShowsTurn(client[c], x), to_net, sent)
                    /\ LearntOf("hearts", x, HeartsOf(client'[c], list', x), to_net', sent')
                         = LearntOf("hearts", x, HeartsOf(client[c], list, x), to_net, sent)
    <3>1. /\ client[c].game_started \in Lore("started")
          /\ \A x : ShowsTurn(client[c], x) \in Lore("turn")
          /\ \A x \in Range(list) : HeartsOf(client[c], list, x) \in Lore("hearts")
      BY <1>3, <2>1, RosterLore
    <3>2. LearntOf("started", 0, client'[c].game_started, to_net', sent')
                    = LearntOf("started", 0, client[c].game_started, to_net, sent)
      BY <1>2, <1>3, <2>1, <3>1, TopicsAre
    <3>3. ASSUME NEW x, x \in Range(list)
          PROVE  /\ LearntOf("turn", x, ShowsTurn(client'[c], x), to_net', sent')
                      = LearntOf("turn", x, ShowsTurn(client[c], x), to_net, sent)
                 /\ LearntOf("hearts", x, HeartsOf(client'[c], list', x), to_net', sent')
                      = LearntOf("hearts", x, HeartsOf(client[c], list, x), to_net, sent)
      <4>1. PICK i \in 1 .. Len(list) : list[i] = x
        BY <3>3, ListFacts
      <4>2. /\ HeartsOf(client[c], list, x) = client[c].players[i].hp
            /\ HeartsOf(client'[c], list', x) = client'[c].players[i].hp
        <5>1. \A j \in 1 .. Len(list) : list[j] = list[i] => j = i
          BY <4>1, ListFacts
        <5>2. \A cl : HeartsOf(cl, list, list[i]) = cl.players[i].hp
          BY <4>1, <5>1, HeartsAt
        <5>3. \A cl : HeartsOf(cl, list, x) = cl.players[i].hp
          BY <4>1, <5>2
        <5> QED
          BY <1>1, <5>3
      <4>3. HeartsOf(client'[c], list', x) = Reads("hearts", x, HeartsOf(client[c], list, x), msg)
        BY <1>3, <2>1, <4>1, <4>2
      <4>4. x \in Id
        BY <4>1, ListFacts
      <4>5. ShowsTurn(client'[c], x) = Reads("turn", x, ShowsTurn(client[c], x), msg)
        <5>1. x # C!NoTurn
          BY <4>4, IdsAreNoPointers
        <5>2. client'[c].player_turn
                = IF msg[1] = "T_PLAYER_TURN"
                    THEN IF msg[2] \in Range(list) THEN msg[2] ELSE C!NoTurn
                  ELSE IF msg[1] = "T_RESTART_GAME" THEN C!NoTurn ELSE client[c].player_turn
          BY <1>3, <2>1
        <5>3. CASE msg[1] = "T_PLAYER_TURN"
          <6>1. Reads("turn", x, ShowsTurn(client[c], x), msg) = (msg[2] = x)
            BY <5>3 DEF Reads
          <6>2. (client'[c].player_turn = x) <=> (msg[2] = x)
            BY <3>3, <5>1, <5>2, <5>3
          <6> QED
            BY <6>1, <6>2 DEF ShowsTurn
        <5>4. CASE msg[1] = "T_RESTART_GAME"
          <6>1. Reads("turn", x, ShowsTurn(client[c], x), msg) = FALSE
            BY <5>4 DEF Reads
          <6>2. client'[c].player_turn # x
            BY <5>1, <5>2, <5>4
          <6> QED
            BY <6>1, <6>2 DEF ShowsTurn
        <5>5. CASE msg[1] \notin {"T_PLAYER_TURN", "T_RESTART_GAME"}
          <6>1. Reads("turn", x, ShowsTurn(client[c], x), msg) = ShowsTurn(client[c], x)
            BY <5>5 DEF Reads
          <6>2. client'[c].player_turn = client[c].player_turn
            BY <5>2, <5>5
          <6> QED
            BY <6>1, <6>2 DEF ShowsTurn
        <5> QED
          BY <5>3, <5>4, <5>5
      <4> QED
        BY <1>2, <3>1, <3>3, <4>3, <4>5, TopicsAre
    <3> QED
      BY <1>1, <1>3, <2>1, <3>2, <3>3
  <2> QED
    BY <1>1, <2>1, GameComesStill DEF GameNews
<1> QED
  BY <1>4, <1>5, <1>6 DEF GameNews

(* A list without repetition, whose entries are found by place. *)
LEMMA ListPlaces ==
  ASSUME PartyTypes, NEW i \in 1 .. Len(list), NEW x, x = list[i]
  PROVE  \A cl : HeartsOf(cl, list, x) = cl.players[i].hp
<1>1. \A j \in 1 .. Len(list) : list[j] = list[i] => j = i
  BY ListFacts
<1>2. \A cl : HeartsOf(cl, list, list[i]) = cl.players[i].hp
  BY <1>1, HeartsAt
<1> QED
  BY <1>2

LEMMA AcceptKeepsNews ==
  ASSUME IInv, PartyTypes, StrangersAreUnknown, Rosters, GameNews, Accept
  PROVE  GameNews'
<1>1. PICK id \in Stranger :
        /\ id \in Id
        /\ list' = Append(list, id) /\ Len(list') = Len(list) + 1
        /\ \A k \in 1 .. Len(list) : list'[k] = list[k]
        /\ list'[Len(list) + 1] = id
        /\ client'[id] \in Screen
        /\ \A k \in 1 .. Len(list) + 1 :
             client'[id].players[k].id = list'[k] /\ client'[id].players[k].hp = MAX_HP
        /\ ~client'[id].game_started /\ client'[id].player_turn = C!NoTurn
        /\ \A c \in Id \ {id} :
             \/ ~InMain(c) /\ client'[c].phase = client[c].phase /\ ~InMain(c)'
             \/ /\ InMain(c)
                /\ \A k \in 1 .. Len(list) : client'[c].players[k] = client[c].players[k]
                /\ client'[c].players[Len(list) + 1].hp = MAX_HP
                /\ client'[c].game_started = client[c].game_started
                /\ client'[c].player_turn = client[c].player_turn
  BY AcceptReaches
<1>2. id \notin Range(list) /\ ~Plays(id)
  BY SeatsArePlayers DEF StrangersAreUnknown
<1>3. /\ UNCHANGED <<players, player_turn, game_started>> /\ to_net' = to_net /\ sent' = sent
      /\ Len(list) \in Nat
  BY AcceptMoves, ListFacts
<1>4. LobbyComes'
  <2>1. SUFFICES ASSUME ~game_started'
                 PROVE  /\ LearntOf("marks", 0, "none", to_net', sent') # "marked"
                        /\ LearntOf("marks", 0, "none", to_net', sent') = "none"
                             => \A c \in Id : InMain(c)' => Fresh(c)'
    BY DEF LobbyComes, Coming, LearntOf
  <2>2. /\ LearntOf("marks", 0, "none", to_net', sent') # "marked"
        /\ LearntOf("marks", 0, "none", to_net', sent') = "none"
             => \A c \in Id : InMain(c) => Fresh(c)
    BY <1>3, <2>1, ComingIs DEF GameNews, LobbyComes
  <2>3. Fresh(id)'
    BY <1>1 DEF Fresh
  <2>4. ASSUME NEW c \in Id \ {id}, InMain(c)', Fresh(c)
        PROVE  Fresh(c)'
    <3>1. /\ \A k \in 1 .. Len(list) : client'[c].players[k] = client[c].players[k]
          /\ client'[c].players[Len(list) + 1].hp = MAX_HP
          /\ client'[c].game_started = client[c].game_started
          /\ client'[c].player_turn = client[c].player_turn
      BY <1>1, <2>4
    <3>2. \A i \in 1 .. Len(list) + 1 : client'[c].players[i].hp = MAX_HP
      BY <1>3, <2>4, <3>1 DEF Fresh
    <3> QED
      BY <1>1, <2>4, <3>1, <3>2 DEF Fresh
  <2>5. \A c \in Id \ {id} : InMain(c)' => InMain(c)
    BY <1>1
  <2> QED
    BY <2>2, <2>3, <2>4, <2>5
<1>5. TurnsComeFirst'
  BY <1>3 DEF GameNews, TurnsComeFirst, Coming
<1>6. GameComes'
  <2>1. ASSUME NEW c \in Id, InMain(c)', Plays(c)
        PROVE  /\ InMain(c)
               /\ LearntOf("started", 0, client'[c].game_started, to_net', sent')
                    = LearntOf("started", 0, client[c].game_started, to_net, sent)
               /\ \A x : x \in Range(list') /\ Plays(x) =>
                    /\ x \in Range(list)
                    /\ LearntOf("turn", x, ShowsTurn(client'[c], x), to_net', sent')
                         = LearntOf("turn", x, ShowsTurn(client[c], x), to_net, sent)
                    /\ LearntOf("hearts", x, HeartsOf(client'[c], list', x), to_net', sent')
                         = LearntOf("hearts", x, HeartsOf(client[c], list, x), to_net, sent)
    <3>1. c # id
      BY <1>2, <2>1
    <3>2. /\ InMain(c)
          /\ \A k \in 1 .. Len(list) : client'[c].players[k] = client[c].players[k]
          /\ client'[c].game_started = client[c].game_started
          /\ client'[c].player_turn = client[c].player_turn
      BY <1>1, <2>1, <3>1
    <3>3. ASSUME NEW x, x \in Range(list'), Plays(x)
          PROVE  /\ x \in Range(list)
                 /\ ShowsTurn(client'[c], x) = ShowsTurn(client[c], x)
                 /\ HeartsOf(client'[c], list', x) = HeartsOf(client[c], list, x)
      <4>1. x # id
        BY <1>2, <3>3
      <4>2. PICK i \in 1 .. Len(list) + 1 : list'[i] = x
        BY <1>1, <3>3 DEF Range
      <4>3. i \in 1 .. Len(list) /\ list[i] = x
        BY <1>1, <1>3, <4>1, <4>2
      <4>4. \A j \in 1 .. Len(list') : list'[j] = list'[i] => j = i
        <5>1. TAKE j \in 1 .. Len(list')
        <5>2. HAVE list'[j] = list'[i]
        <5>3. j # Len(list) + 1
          BY <1>1, <4>1, <4>2, <5>2
        <5>4. j \in 1 .. Len(list)
          BY <1>1, <1>3, <5>3
        <5>5. list[j] = list[i]
          BY <1>1, <4>2, <4>3, <5>2, <5>4
        <5> QED
          BY <4>3, <5>4, <5>5, ListFacts
      <4>5. i \in 1 .. Len(list')
        BY <1>1, <4>2
      <4>6. \A cl : HeartsOf(cl, list', list'[i]) = cl.players[i].hp
        BY <4>4, <4>5, HeartsAt
      <4>7. HeartsOf(client'[c], list', x) = client'[c].players[i].hp
        BY <4>2, <4>6
      <4>8. HeartsOf(client[c], list, x) = client[c].players[i].hp
        BY <4>3, ListPlaces
      <4>9. x \in Range(list)
        BY <4>3, ListFacts
      <4> QED
        BY <3>2, <4>3, <4>7, <4>8, <4>9 DEF ShowsTurn
    <3> QED
      BY <1>3, <3>2, <3>3
  <2> QED
    BY <1>3, <2>1, GameComesStill DEF GameNews
<1> QED
  BY <1>4, <1>5, <1>6 DEF GameNews

LEMMA ServeKeepsNews ==
  ASSUME PartyTypes, Rosters, GameNews, NEW id \in Id, ServeEnd(id)
  PROVE  GameNews'
<1>1. PICK at \in 1 .. Len(list) :
        /\ list[at] = id
        /\ Len(list') = Len(list) - 1
        /\ \A k \in 1 .. Len(list) - 1 : list'[k] = IF k < at THEN list[k] ELSE list[k + 1]
        /\ ~InMain(id)
        /\ \A c \in Id :
             \/ ~InMain(c) /\ client'[c] = client[c]
             \/ /\ InMain(c)
                /\ \E after \in Screen :
                     /\ Shown(c, after)
                     /\ Len(after.players) = Len(list) - 1
                     /\ \A k \in 1 .. Len(list) - 1 :
                          after.players[k] = IF k < at THEN client[c].players[k]
                                             ELSE client[c].players[k + 1]
                     /\ after.game_started = client[c].game_started
                     /\ after.player_turn = IF client[c].player_turn = id THEN C!FreedTurn
                                            ELSE client[c].player_turn
  BY ServeReaches
<1>2. /\ UNCHANGED <<players, player_turn, game_started>> /\ to_net' = to_net /\ sent' = sent
      /\ Len(list) \in Nat
  BY ServeMoves, ListFacts
<1>3. ASSUME NEW c \in Id, InMain(c)'
      PROVE  /\ InMain(c)
             /\ \A k \in 1 .. Len(list) - 1 :
                  client'[c].players[k] = IF k < at THEN client[c].players[k]
                                          ELSE client[c].players[k + 1]
             /\ client'[c].game_started = client[c].game_started
             /\ client'[c].player_turn = IF client[c].player_turn = id THEN C!FreedTurn
                                         ELSE client[c].player_turn
  <2>1. InMain(c)
    BY <1>1, <1>3 DEF InMain
  <2>2. PICK after \in Screen :
          /\ Shown(c, after)
          /\ \A k \in 1 .. Len(list) - 1 :
               after.players[k] = IF k < at THEN client[c].players[k]
                                  ELSE client[c].players[k + 1]
          /\ after.game_started = client[c].game_started
          /\ after.player_turn = IF client[c].player_turn = id THEN C!FreedTurn
                                 ELSE client[c].player_turn
    BY <1>1, <2>1
  <2>3. client'[c] = after
    BY <1>3, <2>2, ShownInMain
  <2> QED
    BY <2>1, <2>2, <2>3
<1>4. LobbyComes'
  <2>1. SUFFICES ASSUME ~game_started'
                 PROVE  /\ LearntOf("marks", 0, "none", to_net', sent') # "marked"
                        /\ LearntOf("marks", 0, "none", to_net', sent') = "none"
                             => \A c \in Id : InMain(c)' => Fresh(c)'
    BY DEF LobbyComes, Coming, LearntOf
  <2>2. /\ LearntOf("marks", 0, "none", to_net', sent') # "marked"
        /\ LearntOf("marks", 0, "none", to_net', sent') = "none"
             => \A c \in Id : InMain(c) => Fresh(c)
    BY <1>2, <2>1, ComingIs DEF GameNews, LobbyComes
  <2>3. ASSUME NEW c \in Id, InMain(c)', Fresh(c)
        PROVE  Fresh(c)'
    <3>1. \A k \in 1 .. Len(list) - 1 : client'[c].players[k].hp = MAX_HP
      <4>1. TAKE k \in 1 .. Len(list) - 1
      <4>2. k \in 1 .. Len(list) /\ k + 1 \in 1 .. Len(list)
        BY <1>2
      <4>3. client[c].players[k].hp = MAX_HP /\ client[c].players[k + 1].hp = MAX_HP
        BY <2>3, <4>2 DEF Fresh
      <4> QED
        BY <1>3, <2>3, <4>3
    <3>2. C!NoTurn # id
      BY IdsAreNoPointers
    <3>3. ~client'[c].game_started /\ client'[c].player_turn = C!NoTurn
      BY <1>3, <2>3, <3>2 DEF Fresh
    <3> QED
      BY <1>1, <3>1, <3>3 DEF Fresh
  <2> QED
    BY <1>3, <2>2, <2>3
<1>5. TurnsComeFirst'
  BY <1>2 DEF GameNews, TurnsComeFirst, Coming
<1>6. GameComes'
  <2>1. ASSUME NEW c \in Id, InMain(c)', Plays(c)
        PROVE  /\ InMain(c)
               /\ LearntOf("started", 0, client'[c].game_started, to_net', sent')
                    = LearntOf("started", 0, client[c].game_started, to_net, sent)
               /\ \A x : x \in Range(list') /\ Plays(x) =>
                    /\ x \in Range(list)
                    /\ LearntOf("turn", x, ShowsTurn(client'[c], x), to_net', sent')
                         = LearntOf("turn", x, ShowsTurn(client[c], x), to_net, sent)
                    /\ LearntOf("hearts", x, HeartsOf(client'[c], list', x), to_net', sent')
                         = LearntOf("hearts", x, HeartsOf(client[c], list, x), to_net, sent)
    <3>2. /\ InMain(c)
          /\ \A k \in 1 .. Len(list) - 1 :
               client'[c].players[k] = IF k < at THEN client[c].players[k]
                                       ELSE client[c].players[k + 1]
          /\ client'[c].game_started = client[c].game_started
          /\ client'[c].player_turn = IF client[c].player_turn = id THEN C!FreedTurn
                                      ELSE client[c].player_turn
      BY <1>3, <2>1
    <3>3. ASSUME NEW x, x \in Range(list')
          PROVE  /\ x \in Range(list)
                 /\ ShowsTurn(client'[c], x) = ShowsTurn(client[c], x)
                 /\ HeartsOf(client'[c], list', x) = HeartsOf(client[c], list, x)
      <4>2. PICK k \in 1 .. Len(list) - 1 : list'[k] = x
        BY <1>1, <3>3 DEF Range
      <4> DEFINE i == IF k < at THEN k ELSE k + 1
      <4>3. i \in 1 .. Len(list) /\ i # at
        BY <1>1, <1>2, <4>2
      <4>4. list[i] = x
        BY <1>1, <4>2
      <4>5. client'[c].players[k] = client[c].players[i]
        BY <3>2, <4>2
      <4>6. \A j \in 1 .. Len(list') : list'[j] = list'[k] => j = k
        <5>1. TAKE j \in 1 .. Len(list')
        <5>2. HAVE list'[j] = list'[k]
        <5>3. j \in 1 .. Len(list) - 1
          BY <1>1, <5>1
        <5> DEFINE l == IF j < at THEN j ELSE j + 1
        <5>4. l \in 1 .. Len(list) /\ list'[j] = list[l]
          BY <1>1, <1>2, <5>3
        <5>5. l = i
          <6> HIDE DEF i, l
          <6> QED
            BY <4>2, <4>3, <4>4, <5>2, <5>4, ListFacts
        <5> QED
          BY <1>1, <1>2, <4>2, <5>3, <5>5
      <4> HIDE DEF i
      <4>7. k \in 1 .. Len(list')
        BY <1>1, <4>2
      <4>8. \A cl : HeartsOf(cl, list', list'[k]) = cl.players[k].hp
        BY <4>6, <4>7, HeartsAt
      <4>9. HeartsOf(client'[c], list', x) = client'[c].players[k].hp
        BY <4>2, <4>8
      <4>10. HeartsOf(client[c], list, x) = client[c].players[i].hp
        BY <4>3, <4>4, ListPlaces
      <4>11. x \in Range(list) /\ x \in Id
        BY <4>3, <4>4, ListFacts
      <4>12. x # id
        BY <1>1, <4>3, <4>4, ListFacts
      <4>13. x # C!FreedTurn
        BY <4>11, IdsAreNoPointers
      <4>14. client'[c].player_turn = x <=> client[c].player_turn = x
        BY <3>2, <4>12, <4>13
      <4> QED
        BY <4>5, <4>9, <4>10, <4>11, <4>14 DEF ShowsTurn
    <3> QED
      BY <1>2, <3>2, <3>3
  <2> QED
    BY <1>2, <2>1, GameComesStill DEF GameNews
<1> QED
  BY <1>4, <1>5, <1>6 DEF GameNews

LEMMA LogicKeepsNews ==
  ASSUME IInv, PartyTypes, Rosters, GameNews, Running', LogicDoes
  PROVE  GameNews'
<1>1. sent = <<>> /\ UNCHANGED <<to_net, list, client>>
  BY DEF LogicDoes
<1>2. CASE LogicActs
  <2>1. TellsNothing \/ TellsOfTurn \/ TellsOfLoss
    BY <1>2, LogicTells DEF LogicActs, Dies, Running
  <2>2. SamePlayers
    BY <1>2, OthersKeepPlayers DEF LogicActs
  <2> QED
    BY <1>1, <2>1, <2>2, TellingKeepsNews
<1>3. ASSUME NEW id \in Id, Join(id)
      PROVE  GameNews'
  BY <1>1, <1>3, JoinKeepsNews
<1>4. ASSUME NEW id \in Id, Left(id)
      PROVE  GameNews'
  BY <1>1, <1>4, LeftKeepsNews
<1> QED
  BY <1>2, <1>3, <1>4 DEF LogicDoes

(* What clients will read still tells them of the game after every step. *)
LEMMA NextNews ==
  ASSUME IInv, PartyTypes, StrangersAreUnknown, IsSeq(sent), DOMAIN client = Id, Rosters,
         MessagesAreOfLogic, GameNews, [PartyNext]_partyVars, Running'
  PROVE  GameNews'
<1>1. CASE LogicDoes
  BY <1>1, LogicKeepsNews
<1>2. CASE SendNext \/ (People /\ \E id \in Id : Quit(id)) \/ Idles
  <2>1. ~lost'
    BY DEF Running
  <2> QED
    BY <1>2, <2>1, OthersKeepNews
<1>3. CASE Relay
  BY <1>3, RelayKeepsNews
<1>4. CASE Accept
  BY <1>4, AcceptKeepsNews
<1>5. ASSUME NEW id \in Id, ServeEnd(id)
      PROVE  GameNews'
  BY <1>5, ServeKeepsNews
<1> QED
  BY <1>1, <1>2, <1>3, <1>4, <1>5, StepKinds

(* What is true of the clients' screens whatever happens. *)
Pictured ==
  /\ DOMAIN client = Id
  /\ MessagesAreOfLogic
  /\ Rosters
  /\ Running => GameNews

LEMMA InitPictured == PartyInit => Pictured
<1> SUFFICES ASSUME PartyInit PROVE Pictured
  OBVIOUS
<1>1. sent = <<>> /\ to_net = <<>> /\ ~game_started
  BY DEF PartyInit, Init
<1>2. DOMAIN client = Id /\ \A c : ~InMain(c)
  BY DEF PartyInit, InMain, C!NewClient
<1>3. MessagesAreOfLogic
  BY <1>1 DEF MessagesAreOfLogic
<1>4. \A what, x, b :
        what \in Topic /\ b \in Lore(what) => LearntOf(what, x, b, to_net, sent) = b
  BY <1>1, LearntNothing DEF LearntOf
<1>5. LobbyComes
  <2>1. LearntOf("marks", 0, "none", to_net, sent) = "none"
    BY <1>4, TopicsAre
  <2> QED
    BY <1>2, <2>1, ComingIs DEF LobbyComes
<1>6. TurnsComeFirst
  <2>1. LearntOf("screen", 0, "turn", to_net, sent) = "turn"
    BY <1>4, TopicsAre
  <2> QED
    BY <2>1, ComingIs DEF TurnsComeFirst
<1> QED
  BY <1>1, <1>2, <1>3, <1>5, <1>6 DEF Pictured, Rosters, GameNews, GameComes

LEMMA NextPictured ==
  IInv /\ Threads /\ Agreement /\ Pictured /\ [PartyNext]_partyVars => Pictured'
<1> SUFFICES ASSUME IInv, Threads, Agreement, Pictured, [PartyNext]_partyVars PROVE Pictured'
  OBVIOUS
<1>1. PartyTypes /\ StrangersAreUnknown /\ IsSeq(sent)
  BY DEF Threads, Agreement
<1>2. /\ DOMAIN client = Id /\ MessagesAreOfLogic /\ Rosters
      /\ Running => GameNews
  BY DEF Pictured
<1>3. (DOMAIN client)' = Id
  BY <1>1, <1>2, NextClients
<1>4. MessagesAreOfLogic'
  BY <1>1, <1>2, NextMessages
<1>5. Rosters'
  BY <1>1, <1>2, NextRosters
<1>6. ASSUME Running' PROVE GameNews'
  <2>1. GameNews
    BY <1>2, <1>6, RunningBefore
  <2> QED
    BY <1>1, <1>2, <1>6, <2>1, NextNews
<1> QED
  BY <1>3, <1>4, <1>5, <1>6 DEF Pictured

LEMMA AlwaysPictured == PartySpec => []Pictured
<1>1. PartySpec => [](IInv /\ Threads)
  BY AlwaysThreads
<1>2. PartySpec => []Agreement
  BY AlwaysAgreement
<1> QED
  BY <1>1, <1>2, InitPictured, NextPictured, PTL DEF PartySpec

(* Once nothing is on its way, every player's screen shows the game that   *)
(* the logic thread plays: who has the turn and everybody's hearts.        *)
THEOREM PlayersSeeTheGame == PartySpec => []ClientsShowTheGame
<1>1. IInv /\ Threads /\ Agreement /\ Pictured => ClientsShowTheGame
  <2> SUFFICES ASSUME IInv, Threads, Agreement, Pictured, Quiet,
                      NEW c \in Players, client[c].phase = "main"
               PROVE  Shows(client[c])
    BY DEF ClientsShowTheGame
  <2> DEFINE cl == client[c]
  <2>1. /\ PartyTypes /\ PlayersAreListed /\ GameNews /\ Rosters
        /\ to_logic = <<>> /\ to_net = <<>> /\ sent = <<>>
    BY DEF Threads, Agreement, Pictured, Quiet
  <2>2. \A what, x, b :
          what \in Topic /\ b \in Lore(what) => LearntOf(what, x, b, to_net, sent) = b
    BY <2>1, LearntNothing DEF LearntOf
  <2>3. /\ Len(players) \in Nat
        /\ \A i \in 1 .. Len(players) : players[i].id \in Id /\ Plays(players[i].id)
    BY SeatsArePlayers DEF Plays
  <2>4. c \in Id /\ Plays(c) /\ InMain(c)
    BY <2>3 DEF Players, InMain
  <2>5. RosterIsList(c) /\ cl \in Screen /\ Len(cl.players) = Len(list)
        /\ \A i \in 1 .. Len(list) : cl.players[i].id = list[i]
    BY <2>1, <2>4 DEF Rosters, RosterIsList
  <2>6. \A i \in 1 .. Len(players) : players[i].id \in Range(list)
    <3>1. \A id : ~Goes(id)
      BY <2>1 DEF Goes
    <3> QED
      BY <2>1, <2>3, <3>1 DEF PlayersAreListed
  <2>7. ASSUME NEW i \in 1 .. Len(players)
        PROVE  cl.players[C!FirstOf(cl, players[i].id)].hp = HeartsOf(cl, list, players[i].id)
    <3>1. PICK k \in 1 .. Len(list) : list[k] = players[i].id
      BY <2>1, <2>6, ListFacts
    <3>2. C!FirstOf(cl, cl.players[k].id) = k
      <4>1. \A a, b \in 1 .. Len(cl.players) : cl.players[a].id = cl.players[b].id => a = b
        BY <2>1, <2>4, <2>5, RosterFacts
      <4> HIDE DEF cl
      <4> QED
        BY <2>5, <3>1, <4>1, FoundAtPlace
    <3>3. HeartsOf(cl, list, players[i].id) = cl.players[k].hp
      BY <2>1, <3>1, ListPlaces
    <3> QED
      BY <2>5, <3>1, <3>2, <3>3
  <2>8. View.player_turn = IF player_turn \in 1 .. Len(players)
                             THEN players[player_turn].id ELSE player_turn
    BY DEF View, C!NewClient
  <2>9. CASE game_started
    <3>1. /\ LearntOf("started", 0, cl.game_started, to_net, sent)
          /\ \A p \in 1 .. Len(players) :
               /\ player_turn = p => LearntOf("turn", players[p].id, ShowsTurn(cl, players[p].id), to_net, sent)
               /\ LearntOf("hearts", players[p].id, HeartsOf(cl, list, players[p].id), to_net, sent)
                    = players[p].hp
      BY <2>1, <2>4, <2>6, <2>9, ComingIs DEF GameNews, GameComes
    <3>2. /\ cl.game_started \in Lore("started")
          /\ \A x : ShowsTurn(cl, x) \in Lore("turn")
          /\ \A x \in Range(list) : HeartsOf(cl, list, x) \in Lore("hearts")
      BY <2>1, <2>4, <2>5, RosterLore
    <3>3. cl.game_started = game_started
      <4>1. LearntOf("started", 0, cl.game_started, to_net, sent) = cl.game_started
        BY <2>2, <3>2, TopicsAre
      <4>2. cl.game_started \in BOOLEAN /\ game_started \in BOOLEAN
        BY <2>9, <3>2, TopicsAre DEF IInv, TypeOK
      <4> QED
        BY <2>9, <3>1, <4>1, <4>2
    <3>4. player_turn # FREED => cl.player_turn = View.player_turn
      <4>1. SUFFICES ASSUME player_turn # FREED PROVE cl.player_turn = View.player_turn
        OBVIOUS
      <4>2. player_turn \in 1 .. Len(players)
        BY <2>9, <4>1 DEF IInv, TurnHolderAlive, AlivePlaces
      <4> DEFINE x == players[player_turn].id
      <4>3. LearntOf("turn", x, ShowsTurn(cl, x), to_net, sent)
        BY <3>1, <4>2
      <4>4. LearntOf("turn", x, ShowsTurn(cl, x), to_net, sent) = ShowsTurn(cl, x)
        BY <2>2, <3>2, TopicsAre
      <4>5. ShowsTurn(cl, x)
        BY <4>3, <4>4
      <4> QED
        BY <2>8, <4>2, <4>5 DEF ShowsTurn
    <3>5. \A i \in 1 .. Len(players) : HeartsOf(cl, list, players[i].id) = players[i].hp
      <4> TAKE i \in 1 .. Len(players)
      <4>1. LearntOf("hearts", players[i].id, HeartsOf(cl, list, players[i].id), to_net, sent)
              = HeartsOf(cl, list, players[i].id)
        BY <2>2, <2>6, <3>2, TopicsAre
      <4> QED
        BY <3>1, <4>1
    <3> QED
      BY <2>7, <3>3, <3>4, <3>5 DEF Shows
  <2>10. CASE ~game_started
    <3>1. Fresh(c)
      <4>1. LearntOf("marks", 0, "none", to_net, sent) = "none"
        BY <2>2, TopicsAre
      <4> QED
        BY <2>1, <2>4, <2>10, <4>1, ComingIs DEF GameNews, LobbyComes
    <3>2. player_turn = NULL /\ \A i \in 1 .. Len(players) : players[i].hp = MAX_HP
      BY <2>10 DEF IInv, LobbyIsFresh
    <3>3. View.player_turn = NULL /\ C!NoTurn = NULL
      BY <2>3, <2>8, <3>2 DEF NULL, C!NoTurn
    <3>4. ASSUME NEW i \in 1 .. Len(players) PROVE HeartsOf(cl, list, players[i].id) = MAX_HP
      <4>1. PICK k \in 1 .. Len(list) : list[k] = players[i].id
        BY <2>1, <2>6, ListFacts
      <4>2. HeartsOf(cl, list, players[i].id) = cl.players[k].hp
        BY <2>1, <4>1, ListPlaces
      <4> QED
        BY <3>1, <4>1, <4>2 DEF Fresh
    <3>5. cl.game_started = game_started
      BY <2>5, <2>10, <3>1 DEF Fresh, Screen, IInv, TypeOK
    <3> QED
      BY <2>7, <3>1, <3>2, <3>3, <3>4, <3>5 DEF Shows, Fresh
  <2> QED
    BY <2>9, <2>10
<1> QED
  BY <1>1, AlwaysThreads, AlwaysAgreement, AlwaysPictured, PTL

(* Where a message to the logic thread comes from. *)
LEMMA QueueKinds ==
  ASSUME PartyTypes, [PartyNext]_partyVars
  PROVE  \/ to_logic' = to_logic
         \/ to_logic # <<>> /\ to_logic' = Tail(to_logic)
         \/ \E msg \in LogicMsg :
              /\ Enqueue(msg)
              /\ \/ msg[1] = "T_SEND_WORD"
                 \/ \E id \in Stranger : Accept /\ msg = <<"T_PLAYER_JOIN", id>>
                 \/ \E id \in Id : ServeEnd(id) /\ msg = <<"T_PLAYER_LEFT", id>>
<1>1. CASE LogicThread
  BY <1>1 DEF LogicThread, SendNext, OwnStep, StartTyped, HandleNext, AllHandled
<1>2. CASE Select \/ Relay \/ RelayDone \/ ClientsDone
  BY <1>2 DEF Select, Relay, RelayDone, ClientsDone
<1>3. CASE Accept
  <2>1. PICK id \in Stranger : Enqueue(<<"T_PLAYER_JOIN", id>>)
    BY <1>3 DEF Accept, ReportJoin
  <2>2. <<"T_PLAYER_JOIN", id>> \in LogicMsg
    BY DEF LogicMsg, Stranger
  <2> QED
    BY <1>3, <2>1, <2>2
<1>4. ASSUME NEW id \in Id, ServeWord(id)
      PROVE  \E msg \in LogicMsg : Enqueue(msg) /\ msg[1] = "T_SEND_WORD"
  <2>1. Head(outbox[id]) \in Word
    BY <1>4 DEF ServeWord, PartyTypes
  <2> DEFINE msg == <<"T_SEND_WORD", id, Head(outbox[id])>>
  <2>2. msg \in LogicMsg /\ msg[1] = "T_SEND_WORD"
    BY <2>1 DEF LogicMsg
  <2>3. Enqueue(msg)
    BY <1>4 DEF ServeWord
  <2> QED
    BY <2>2, <2>3
<1>5. ASSUME NEW id \in Id, ServeEnd(id)
      PROVE  \E msg \in LogicMsg : Enqueue(msg) /\ msg = <<"T_PLAYER_LEFT", id>>
  <2>1. <<"T_PLAYER_LEFT", id>> \in LogicMsg
    BY DEF LogicMsg
  <2> QED
    BY <1>5, <2>1 DEF ServeEnd
<1>6. CASE People \/ Over \/ UNCHANGED partyVars
  BY <1>6 DEF People, Over, partyVars
<1> QED
  BY <1>1, <1>2, <1>3, <1>4, <1>5, <1>6 DEF PartyNext, NetworkThread

LEMMA QueueOrigins ==
  ASSUME PartyTypes, [PartyNext]_partyVars, NEW x
  PROVE  /\ Goes(x)' => Goes(x) \/ (x \in Id /\ ServeEnd(x))
         /\ Comes(x)' => Comes(x) \/ (x \in Stranger /\ Accept)
<1>1. Len(to_logic) \in Nat
  BY DEF PartyTypes
<1>2. CASE to_logic' = to_logic
  BY <1>2 DEF Goes, Comes, Joins, Leaves
<1>3. CASE to_logic # <<>> /\ to_logic' = Tail(to_logic)
  <2>1. \A k \in 1 .. Len(to_logic') : k + 1 \in 1 .. Len(to_logic) /\ to_logic'[k] = to_logic[k + 1]
    BY <1>3 DEF PartyTypes
  <2> QED
    BY <2>1 DEF Goes, Comes, Joins, Leaves
<1>4. ASSUME NEW msg \in LogicMsg, Enqueue(msg),
             \/ msg[1] = "T_SEND_WORD"
             \/ \E id \in Stranger : Accept /\ msg = <<"T_PLAYER_JOIN", id>>
             \/ \E id \in Id : ServeEnd(id) /\ msg = <<"T_PLAYER_LEFT", id>>
      PROVE  /\ Goes(x)' => Goes(x) \/ (x \in Id /\ ServeEnd(x))
             /\ Comes(x)' => Comes(x) \/ (x \in Stranger /\ Accept)
  <2>1. \A k \in 1 .. Len(to_logic') :
          (k \in 1 .. Len(to_logic) /\ to_logic'[k] = to_logic[k]) \/ to_logic'[k] = msg
    BY <1>1, <1>4, Enqueued
  <2>2. msg = <<"T_PLAYER_LEFT", x>> => x \in Id /\ ServeEnd(x)
    BY <1>4
  <2>3. msg = <<"T_PLAYER_JOIN", x>> => x \in Stranger /\ Accept
    BY <1>4
  <2> QED
    BY <2>1, <2>2, <2>3 DEF Goes, Comes, Joins, Leaves
<1> QED
  BY <1>2, <1>3, <1>4, QueueKinds

(* Nobody comes back: not from its end, and not to the door. *)
LEMMA PhasesGo ==
  ASSUME PartyTypes, DOMAIN client = Id, Rosters, [PartyNext]_partyVars, NEW c \in Id
  PROVE  /\ Ended(c) => Ended(c)'
         /\ client'[c].phase = "greet" => client[c].phase = "greet"
<1>1. CASE LogicDoes \/ SendNext \/ Idles
  <2>1. client' = client
    BY <1>1 DEF LogicDoes, SendNext, Idles, outside
  <2> QED
    BY <2>1 DEF Ended
<1>2. \A ids, msg : Tell(ids, msg)
        => /\ Ended(c) => Ended(c)'
           /\ client'[c].phase = "greet" => client[c].phase = "greet"
  BY Told DEF Stranger
<1>3. CASE Relay \/ \E id \in Id : ServeEnd(id)
  BY <1>2, <1>3 DEF Relay, ServeEnd
<1>4. CASE Accept
  <2>1. PICK id \in Stranger :
          /\ client'[id] \in Screen
          /\ \A other \in Id \ {id} :
               \/ ~InMain(other) /\ client'[other].phase = client[other].phase
               \/ InMain(other) /\ client'[other] \in Screen
    BY <1>4, AcceptReaches
  <2>2. ~Ended(id) /\ client'[id].phase = "main"
    BY <2>1 DEF Stranger, Ended, Screen
  <2>3. CASE c = id
    BY <2>2, <2>3
  <2>4. CASE c # id
    BY <2>1, <2>4 DEF InMain, Ended, Screen
  <2> QED
    BY <2>3, <2>4
<1>5. CASE People /\ \E id \in Id : Quit(id)
  <2>1. client'[c] = client[c] \/ client'[c].phase = "exited"
    BY <1>5, QuitMoves
  <2> QED
    BY <2>1 DEF Ended
<1> QED
  BY <1>1, <1>3, <1>4, <1>5, StepKinds

LEMMA NextGone ==
  ASSUME PartyTypes, DOMAIN client = Id, Rosters, GoneHasEnded, [PartyNext]_partyVars
  PROVE  GoneHasEnded'
<1> SUFFICES ASSUME NEW id \in Id, Goes(id)' PROVE Ended(id)'
  BY DEF GoneHasEnded
<1>1. Goes(id) \/ ServeEnd(id)
  BY QueueOrigins
<1>2. Ended(id)
  BY <1>1 DEF GoneHasEnded, ServeEnd
<1> QED
  BY <1>2, PhasesGo

LEMMA CalmBefore ==
  ASSUME PartyTypes, DOMAIN client = Id, quits \in Nat, Calm', [PartyNext]_partyVars
  PROVE  /\ Calm
         /\ ~(People /\ \E id \in Id : Quit(id))
         /\ Accept => ~Starting
<1>1. ASSUME NEW id \in Id, People, Quit(id) PROVE FALSE
  <2>1. quits' = quits + 1
    BY <1>1, QuitMoves
  <2> QED
    BY <2>1 DEF Calm
<1>2. ASSUME LogicDoes \/ SendNext \/ Idles \/ Relay \/ \E id \in Id : ServeEnd(id)
      PROVE  Calm
  <2>1. quits' = quits /\ between' = between
    BY <1>2, RelayMoves, ServeMoves DEF LogicDoes, SendNext, outside, Idles
  <2> QED
    BY <1>1, <2>1 DEF Calm
<1>3. ASSUME Accept PROVE ~Starting /\ ~between /\ quits = 0
  <2>1. between' = (between \/ Starting) /\ quits' = quits
    BY <1>3, AcceptMoves DEF Accept
  <2> QED
    BY <2>1 DEF Calm
<1>4. Accept => ~Starting
  BY <1>3
<1>5. ~(People /\ \E id \in Id : Quit(id))
  BY <1>1
<1>6. Calm
  <2>1. CASE LogicDoes \/ SendNext \/ Idles \/ Relay \/ \E id \in Id : ServeEnd(id)
    BY <1>2, <2>1
  <2>2. CASE Accept
    BY <1>3, <2>2 DEF Calm
  <2> QED
    BY <1>5, <2>1, <2>2, StepKinds
<1> QED
  BY <1>4, <1>5, <1>6

(* In calm, whoever plays is in the networking thread's list. *)
LEMMA CalmLists ==
  ASSUME PlayersAreListed, GoneHasEnded, NobodyIsMissed,
         \A c \in Id : client[c].phase # "crashed"
  PROVE  /\ \A x \in Id : Goes(x) => ~Plays(x) /\ ~Comes(x)
         /\ \A x \in Id : Plays(x) => x \in Range(list)
<1>1. ASSUME NEW x \in Id, Goes(x)
      PROVE  ~Plays(x) /\ ~Comes(x)
  <2>1. client[x].phase = "exited"
    BY <1>1 DEF GoneHasEnded, Ended
  <2> QED
    BY <2>1 DEF NobodyIsMissed
<1> QED
  BY <1>1 DEF PlayersAreListed

(* What a message makes of a screen that has what it shows. *)
LEMMA ScreenReads ==
  ASSUME NEW cl, NEW after, NEW msg, NEW S,
         after.game_started = Reads("started", 0, cl.game_started, msg),
         after.player_turn
           = IF msg[1] = "T_PLAYER_TURN"
               THEN IF msg[2] \in S THEN msg[2] ELSE C!NoTurn
             ELSE IF msg[1] = "T_RESTART_GAME" THEN C!NoTurn ELSE cl.player_turn,
         msg[1] = "T_PLAYER_TURN" => msg[2] \in S /\ msg[2] # C!NoTurn,
         ScreenOf(cl) # "broken"
  PROVE  ScreenOf(after) = Reads("screen", 0, ScreenOf(cl), msg)
<1>1. CASE msg[1] = "T_PLAYER_TURN"
  <2>1. Reads("screen", 0, ScreenOf(cl), msg) = "turn"
    BY <1>1 DEF Reads
  <2>2. after.player_turn # C!NoTurn
    BY <1>1
  <2> QED
    BY <2>1, <2>2 DEF ScreenOf
<1>2. CASE msg[1] = "T_RESTART_GAME"
  <2>1. Reads("screen", 0, ScreenOf(cl), msg) = "lobby"
    BY <1>2 DEF Reads
  <2>2. after.player_turn = C!NoTurn
    BY <1>2
  <2>3. Reads("started", 0, cl.game_started, msg) = FALSE
    BY <1>2 DEF Reads
  <2>4. ~after.game_started
    BY <2>3
  <2> QED
    BY <2>1, <2>2, <2>4 DEF ScreenOf
<1>3. CASE msg[1] = "T_GAME_START"
  <2>1. Reads("screen", 0, ScreenOf(cl), msg)
          = IF ScreenOf(cl) = "lobby" THEN "broken" ELSE ScreenOf(cl)
    BY <1>3 DEF Reads
  <2>2. after.player_turn = cl.player_turn
    BY <1>3
  <2>3. Reads("started", 0, cl.game_started, msg) = TRUE
    BY <1>3 DEF Reads
  <2>4. after.game_started
    BY <2>3
  <2> QED
    BY <2>1, <2>2, <2>4 DEF ScreenOf
<1>4. CASE msg[1] \notin {"T_PLAYER_TURN", "T_RESTART_GAME", "T_GAME_START"}
  <2>1. Reads("screen", 0, ScreenOf(cl), msg) = ScreenOf(cl)
    BY <1>4 DEF Reads
  <2>2. after.player_turn = cl.player_turn
    BY <1>4
  <2>3. Reads("started", 0, cl.game_started, msg) = cl.game_started
    BY <1>4 DEF Reads
  <2>4. after.game_started = cl.game_started
    BY <2>3
  <2> QED
    BY <2>1, <2>2, <2>4 DEF ScreenOf
<1> QED
  BY <1>1, <1>2, <1>3, <1>4

(* What is broken stays so: a screen that comes to be ready can read on. *)
LEMMA ReadyReads ==
  \A b, q, s :
    b \in Lore("screen") /\ IsSeq(q) /\ IsSeq(s) /\ LearntOf("screen", 0, b, q, s) # "broken"
    => b # "broken" /\ (q # <<>> => /\ Reads("screen", 0, b, Head(q)) # "broken"
                                    /\ LearntOf("screen", 0, Reads("screen", 0, b, Head(q)), Tail(q), s)
                                         # "broken")
<1> TAKE b, q, s
<1> HAVE b \in Lore("screen") /\ IsSeq(q) /\ IsSeq(s) /\ LearntOf("screen", 0, b, q, s) # "broken"
<1>1. \A u, v : IsSeq(u) /\ IsSeq(v) => LearntOf("screen", 0, "broken", u, v) = "broken"
  <2> TAKE u, v
  <2> HAVE IsSeq(u) /\ IsSeq(v)
  <2>1. IsSeq(u \o v) /\ LearntOf("screen", 0, "broken", u, v) = Learnt("screen", 0, "broken", u \o v)
    BY LearntOfBoth, TopicsAre
  <2> QED
    BY <2>1, ScreensInStep
<1>2. b # "broken"
  BY <1>1
<1>3. ASSUME q # <<>>
      PROVE  /\ Reads("screen", 0, b, Head(q)) # "broken"
             /\ LearntOf("screen", 0, Reads("screen", 0, b, Head(q)), Tail(q), s) # "broken"
  <2>1. LearntOf("screen", 0, b, q, s)
          = LearntOf("screen", 0, Reads("screen", 0, b, Head(q)), Tail(q), s)
    BY <1>3, LearntRead, TopicsAre
  <2>2. IsSeq(Tail(q))
    BY <1>3, SeqOps
  <2>3. Reads("screen", 0, b, Head(q)) # "broken"
    BY <1>1, <2>1, <2>2
  <2> QED
    BY <2>1, <2>3
<1> QED
  BY <1>2, <1>3

LEMMA ScreenLore == \A cl : ScreenOf(cl) \in Lore("screen")
BY TopicsAre DEF ScreenOf

(* What holds as long as nobody quit, and nobody came in amid a start.     *)
Untroubled ==
  /\ quits \in Nat
  /\ GoneHasEnded
  /\ Calm => \A c \in Id : client[c].phase # "crashed"
  /\ Calm /\ Running => NobodyIsMissed /\ ScreensComeReady

LEMMA RelayInCalm ==
  ASSUME PartyTypes, IsSeq(sent), Rosters, MessagesAreOfLogic, PlayersAreListed, GoneHasEnded,
         NobodyIsMissed, ScreensComeReady, \A c \in Id : client[c].phase # "crashed",
         Relay, NEW c \in Id
  PROVE  /\ client'[c].phase # "crashed"
         /\ client'[c].phase = "exited" => client[c].phase = "exited" \/ Refusing(c)
         /\ InMain(c)' =>
              /\ InMain(c)
              /\ ScreenOf(client'[c]) = Reads("screen", 0, ScreenOf(client[c]), Head(to_net))
<1> DEFINE msg == Head(to_net)
<1>1. /\ IsSeq(to_net) /\ to_net # <<>> /\ 1 \in 1 .. Len(to_net) /\ msg = to_net[1]
  BY RelayMoves DEF PartyTypes
<1>2. msg \in NetMsg /\ (msg[1] \in About => Plays(msg[2]))
  BY <1>1 DEF MessagesAreOfLogic, NobodyIsMissed
<1>3. \A x \in Id : Plays(x) => x \in Range(list)
  BY CalmLists
<1>4. InMain(c) => /\ ScreenOf(client[c]) # "broken"
                   /\ Reads("screen", 0, ScreenOf(client[c]), msg) # "broken"
  <2>1. SUFFICES ASSUME InMain(c)
                 PROVE  /\ ScreenOf(client[c]) # "broken"
                        /\ Reads("screen", 0, ScreenOf(client[c]), msg) # "broken"
    OBVIOUS
  <2>2. LearntOf("screen", 0, ScreenOf(client[c]), to_net, sent) # "broken"
    BY <2>1, ComingIs DEF ScreensComeReady
  <2> QED
    BY <1>1, <2>2, ScreenLore, ReadyReads
<1> HIDE DEF msg
<1>5. msg[1] \in About => msg[2] \in Id /\ msg[2] \in Range(list)
  <2>1. msg[1] \in About => msg[2] \in Id
    BY <1>2 DEF NetMsg, About
  <2> QED
    BY <1>2, <1>3, <2>1
<1>6. msg[1] = "T_PLAYER_TURN" => msg[2] \in Range(list) /\ msg[2] # C!NoTurn
  BY <1>5, IdsAreNoPointers DEF About
<1>7. CASE ForAll(msg)
  <2>1. \/ ~InMain(c) /\ client'[c] = client[c]
        \/ InMain(c) /\ client'[c] = C!Crashed(client[c]) /\ msg[1] \in About /\ msg[2] \notin Range(list)
        \/ /\ InMain(c)
           /\ \E after \in Screen :
                /\ Shown(c, after)
                /\ Len(after.players) = Len(list)
                /\ \A i \in 1 .. Len(list) :
                     /\ after.players[i].id = list[i]
                     /\ after.players[i].hp = Reads("hearts", list[i], client[c].players[i].hp, msg)
                /\ after.game_started = Reads("started", 0, client[c].game_started, msg)
                /\ after.player_turn
                     = IF msg[1] = "T_PLAYER_TURN"
                         THEN IF msg[2] \in Range(list) THEN msg[2] ELSE C!NoTurn
                       ELSE IF msg[1] = "T_RESTART_GAME" THEN C!NoTurn ELSE client[c].player_turn
    BY <1>7, RelayReaches DEF msg
  <2>2. CASE ~InMain(c) /\ client'[c] = client[c]
    BY <2>2 DEF InMain
  <2>3. CASE InMain(c) /\ ~(~InMain(c) /\ client'[c] = client[c])
    <3>1. PICK after \in Screen :
            /\ Shown(c, after)
            /\ after.game_started = Reads("started", 0, client[c].game_started, msg)
            /\ after.player_turn
                 = IF msg[1] = "T_PLAYER_TURN"
                     THEN IF msg[2] \in Range(list) THEN msg[2] ELSE C!NoTurn
                   ELSE IF msg[1] = "T_RESTART_GAME" THEN C!NoTurn ELSE client[c].player_turn
      BY <1>5, <2>1, <2>3
    <3>2. ScreenOf(after) = Reads("screen", 0, ScreenOf(client[c]), msg)
      <4> DEFINE cl == client[c]
                 S == Range(list)
      <4>1. /\ after.game_started = Reads("started", 0, cl.game_started, msg)
            /\ after.player_turn
                 = IF msg[1] = "T_PLAYER_TURN"
                     THEN IF msg[2] \in S THEN msg[2] ELSE C!NoTurn
                   ELSE IF msg[1] = "T_RESTART_GAME" THEN C!NoTurn ELSE cl.player_turn
            /\ msg[1] = "T_PLAYER_TURN" => msg[2] \in S /\ msg[2] # C!NoTurn
            /\ ScreenOf(cl) # "broken"
        BY <1>4, <1>6, <2>3, <3>1
      <4> HIDE DEF cl, S
      <4>2. ScreenOf(after) = Reads("screen", 0, ScreenOf(cl), msg)
        BY <4>1, ScreenReads
      <4> QED
        BY <4>2 DEF cl
    <3>3. ~(after.game_started /\ after.player_turn = C!NoTurn)
      BY <1>4, <2>3, <3>2 DEF ScreenOf
    <3>4. client'[c] = after
      BY <3>1, <3>3 DEF Shown
    <3>5. client'[c].phase = "main"
      BY <3>4 DEF Screen
    <3> QED
      BY <2>3, <3>2, <3>4, <3>5 DEF msg
  <2> QED
    BY <2>1, <2>2, <2>3
<1>8. CASE ~ForAll(msg)
  <2>1. /\ msg[2] \in Id /\ msg = Refusal(msg[2])
        /\ client'[c] = client[c] \/ (c = msg[2] /\ client'[c].phase = "exited")
    BY <1>8, RefusalReaches DEF msg
  <2>2. CASE client'[c] = client[c]
    <3>1. msg[1] = "T_GAME_STARTED_NO_JOINING"
      BY <2>1 DEF Refusal
    <3>2. Reads("screen", 0, ScreenOf(client[c]), msg) = ScreenOf(client[c])
      BY <3>1, OthersTeachNothing, TopicsAre
    <3> QED
      BY <2>2, <3>2 DEF InMain, msg
  <2>3. CASE c = msg[2] /\ client'[c].phase = "exited"
    <3>1. Refusing(c)
      BY <1>1, <2>1, <2>3 DEF Refusing
    <3> QED
      BY <2>3, <3>1 DEF InMain
  <2> QED
    BY <2>1, <2>2, <2>3
<1> QED
  BY <1>7, <1>8

LEMMA ServeInCalm ==
  ASSUME PartyTypes, IsSeq(sent), Rosters, ScreensComeReady,
         \A c \in Id : client[c].phase # "crashed",
         NEW id \in Id, ServeEnd(id), NEW c \in Id
  PROVE  /\ client'[c].phase # "crashed"
         /\ client'[c].phase = "exited" => client[c].phase = "exited"
         /\ InMain(c)' => InMain(c) /\ ScreenOf(client'[c]) = ScreenOf(client[c])
<1>1. PICK at \in 1 .. Len(list) :
        /\ list[at] = id
        /\ Len(list') = Len(list) - 1
        /\ \A k \in 1 .. Len(list) - 1 : list'[k] = IF k < at THEN list[k] ELSE list[k + 1]
        /\ ~InMain(id)
        /\ \A other \in Id :
             \/ ~InMain(other) /\ client'[other] = client[other]
             \/ /\ InMain(other)
                /\ \E after \in Screen :
                     /\ Shown(other, after)
                     /\ Len(after.players) = Len(list) - 1
                     /\ \A k \in 1 .. Len(list) - 1 :
                          after.players[k] = IF k < at THEN client[other].players[k]
                                             ELSE client[other].players[k + 1]
                     /\ after.game_started = client[other].game_started
                     /\ after.player_turn = IF client[other].player_turn = id THEN C!FreedTurn
                                            ELSE client[other].player_turn
  BY ServeReaches
<1>2. CASE ~InMain(c) /\ client'[c] = client[c]
  BY <1>2 DEF InMain
<1>3. CASE InMain(c) /\ ~(~InMain(c) /\ client'[c] = client[c])
  <2>1. PICK after \in Screen :
          /\ Shown(c, after)
          /\ after.game_started = client[c].game_started
          /\ after.player_turn = IF client[c].player_turn = id THEN C!FreedTurn
                                 ELSE client[c].player_turn
    BY <1>1, <1>3
  <2>2. C!FreedTurn # C!NoTurn /\ id # C!NoTurn
    BY IdsAreNoPointers DEF C!FreedTurn, C!NoTurn
  <2>3. after.player_turn = C!NoTurn <=> client[c].player_turn = C!NoTurn
    BY <2>1, <2>2
  <2>4. ScreenOf(after) = ScreenOf(client[c])
    BY <2>1, <2>3 DEF ScreenOf
  <2>5. ScreenOf(client[c]) # "broken"
    <3>1. LearntOf("screen", 0, ScreenOf(client[c]), to_net, sent) # "broken"
      BY <1>3, ComingIs DEF ScreensComeReady
    <3>2. IsSeq(to_net)
      BY DEF PartyTypes
    <3> QED
      BY <3>1, <3>2, ScreenLore, ReadyReads
  <2>6. ~(after.game_started /\ after.player_turn = C!NoTurn)
    BY <2>4, <2>5 DEF ScreenOf
  <2>7. client'[c] = after
    BY <2>1, <2>6 DEF Shown
  <2>8. client'[c].phase = "main"
    BY <2>7 DEF Screen
  <2> QED
    BY <1>3, <2>4, <2>7, <2>8
<1> QED
  BY <1>1, <1>2, <1>3

LEMMA AcceptInCalm ==
  ASSUME PartyTypes, Rosters, \A c \in Id : client[c].phase # "crashed", Accept, NEW c \in Id
  PROVE  /\ client'[c].phase # "crashed"
         /\ client'[c].phase = "exited" => client[c].phase = "exited"
         /\ InMain(c)' => \/ InMain(c) /\ ScreenOf(client'[c]) = ScreenOf(client[c])
                          \/ ScreenOf(client'[c]) = "lobby"
<1>1. PICK id \in Stranger :
        /\ client'[id] \in Screen
        /\ ~client'[id].game_started /\ client'[id].player_turn = C!NoTurn
        /\ \A other \in Id \ {id} :
             \/ ~InMain(other) /\ client'[other].phase = client[other].phase /\ ~InMain(other)'
             \/ /\ InMain(other)
                /\ client'[other] \in Screen
                /\ client'[other].game_started = client[other].game_started
                /\ client'[other].player_turn = client[other].player_turn
  BY AcceptReaches
<1>2. CASE c = id
  <2>1. client'[c].phase = "main" /\ ScreenOf(client'[c]) = "lobby"
    BY <1>1, <1>2 DEF Screen, ScreenOf
  <2> QED
    BY <2>1
<1>3. CASE c # id
  <2>1. CASE ~InMain(c) /\ client'[c].phase = client[c].phase /\ ~InMain(c)'
    BY <2>1
  <2>2. CASE /\ InMain(c)
             /\ client'[c] \in Screen
             /\ client'[c].game_started = client[c].game_started
             /\ client'[c].player_turn = client[c].player_turn
    <3>1. client'[c].phase = "main"
      BY <2>2 DEF Screen
    <3>2. ScreenOf(client'[c]) = ScreenOf(client[c])
      BY <2>2 DEF ScreenOf
    <3> QED
      BY <2>2, <3>1, <3>2
  <2> QED
    BY <1>1, <1>3, <2>1, <2>2
<1> QED
  BY <1>2, <1>3

(* In calm nobody crashes, and only who is refused is ended. *)
LEMMA CalmClients ==
  ASSUME PartyTypes, DOMAIN client = Id, Agreement, Pictured, Untroubled, Calm',
         [PartyNext]_partyVars, NEW c \in Id
  PROVE  /\ client'[c].phase # "crashed"
         /\ client'[c].phase = "exited" => client[c].phase = "exited" \/ (Refusing(c) /\ Running)
<1>1. Calm /\ ~(People /\ \E id \in Id : Quit(id))
  BY CalmBefore DEF Untroubled
<1>2. \A d \in Id : client[d].phase # "crashed"
  BY <1>1 DEF Untroubled
<1>3. ASSUME Running
      PROVE  /\ IsSeq(sent) /\ Rosters /\ MessagesAreOfLogic /\ PlayersAreListed /\ GoneHasEnded
             /\ NobodyIsMissed /\ ScreensComeReady
  BY <1>1, <1>3 DEF Agreement, Pictured, Untroubled
<1>4. CASE LogicDoes \/ SendNext \/ Idles
  <2>1. client' = client
    BY <1>4 DEF LogicDoes, SendNext, Idles, outside
  <2> QED
    BY <1>2, <2>1
<1>5. CASE Relay
  <2>1. Running
    BY <1>5 DEF Relay, NetStep
  <2> QED
    BY <1>2, <1>3, <1>5, <2>1, RelayInCalm
<1>6. ASSUME NEW id \in Id, ServeEnd(id)
      PROVE  /\ client'[c].phase # "crashed"
             /\ client'[c].phase = "exited" => client[c].phase = "exited"
  <2>1. Running
    BY <1>6 DEF ServeEnd, Serving, NetStep
  <2> QED
    BY <1>2, <1>3, <1>6, <2>1, ServeInCalm
<1>7. CASE Accept
  <2>1. Running
    BY <1>7 DEF Accept, NetStep
  <2> QED
    BY <1>2, <1>3, <1>7, <2>1, AcceptInCalm
<1> QED
  BY <1>1, <1>4, <1>5, <1>6, <1>7, StepKinds

LEMMA PlayersInCalm ==
  ASSUME IInv, PartyTypes, IsSeq(sent), DOMAIN client = Id,
         \A x \in Id : Goes(x) => ~Plays(x), [PartyNext]_partyVars
  PROVE  \A x : /\ Plays(x) => \E i \in 1 .. Len(players') : players'[i].id = x
                /\ (\E i \in 1 .. Len(players') : players'[i].id = x) => Plays(x) \/ Comes(x)
<1>1. SUFFICES ASSUME NEW x
               PROVE  (Plays(x) => Plays(x)') /\ (Plays(x)' => Plays(x) \/ Comes(x))
  BY DEF Plays
<1>2. ASSUME SamePlayers
      PROVE  Plays(x)' <=> Plays(x)
  BY <1>2, SamePlayersSame
<1>3. CASE LogicDoes
  <2>1. CASE LogicActs
    <3>1. SamePlayers
      BY <2>1, OthersKeepPlayers DEF LogicActs
    <3> QED
      BY <1>2, <3>1
  <2>2. ASSUME NEW id \in Id, Comes(id), Join(id)
        PROVE  (Plays(x) => Plays(x)') /\ (Plays(x)' => Plays(x) \/ Comes(x))
    <3>1. Plays(x)' <=> Plays(x) \/ x = id
      BY <2>2, JoinIsLast
    <3> QED
      BY <2>2, <3>1
  <2>3. ASSUME NEW id \in Id, Goes(id), Left(id)
        PROVE  (Plays(x) => Plays(x)') /\ (Plays(x)' => Plays(x) \/ Comes(x))
    <3>1. ~Plays(id)' /\ ~Plays(id) /\ (x # id => (Plays(x)' <=> Plays(x)))
      BY <2>3, LeftKeepsOrder
    <3> QED
      BY <3>1
  <2> QED
    BY <1>3, <2>1, <2>2, <2>3 DEF LogicDoes
<1>4. CASE SendNext \/ Relay \/ Accept \/ (\E id \in Id : ServeEnd(id))
           \/ (People /\ \E id \in Id : Quit(id)) \/ Idles
  <2>1. players' = players
    BY <1>4, SendNextMoves, RelayMoves, AcceptMoves, ServeMoves, QuitMoves DEF Idles
  <2> QED
    BY <1>2, <2>1 DEF SamePlayers
<1> QED
  BY <1>3, <1>4, StepKinds

(* Only the logic thread refuses. *)
LEMMA RefusingOrigins ==
  ASSUME IInv, PartyTypes, IsSeq(sent), DOMAIN client = Id, [PartyNext]_partyVars, NEW x \in Id,
         \/ \E k \in 1 .. Len(to_net') : to_net'[k] = Refusal(x)
         \/ \E k \in 1 .. Len(sent') : sent'[k] = Refusal(x)
  PROVE  Refusing(x) \/ JoinRefused(x)
<1>1. CASE LogicDoes
  <2>1. to_net' = to_net
    BY <1>1 DEF LogicDoes
  <2>2. CASE LogicActs
    <3>1. sent' \in Seq(Fit)
      BY <2>2, LogicTells DEF LogicActs
    <3>2. ASSUME NEW k \in 1 .. Len(sent'), sent'[k] = Refusal(x)
          PROVE  JoinRefused(x)
      <4>1. Refusal(x) \in Fit
        BY <3>1, <3>2
      <4>2. Refusal(x)[1] = "T_GAME_STARTED_NO_JOINING" /\ Refusal(x)[2] = x
        BY DEF Refusal
      <4>3. JoinRefused(Refusal(x)[2])
        BY <4>1, <4>2 DEF Fit
      <4> QED
        BY <4>2, <4>3
    <3> QED
      BY <2>1, <3>2 DEF Refusing
  <2>3. CASE \E id \in Id : Join(id) \/ Left(id)
    <3>1. sent' = <<>>
      BY <2>3 DEF Join, Left
    <3> QED
      BY <2>1, <3>1 DEF Refusing
  <2> QED
    BY <1>1, <2>2, <2>3 DEF LogicDoes
<1>2. CASE SendNext
  <2>1. /\ Len(sent') = Len(sent) - 1 /\ Len(sent) \in Nat \ {0}
        /\ \A k \in 1 .. Len(sent) - 1 : sent'[k] = sent[k + 1]
        /\ Head(sent) = sent[1]
        /\ \/ to_net' = to_net
           \/ /\ Len(to_net') = Len(to_net) + 1 /\ Len(to_net) \in Nat
              /\ \A k \in 1 .. Len(to_net) : to_net'[k] = to_net[k]
              /\ to_net'[Len(to_net) + 1] = Head(sent)
    BY <1>2, SendNextMoves
  <2>2. \A k \in 1 .. Len(sent') : k + 1 \in 1 .. Len(sent) /\ sent'[k] = sent[k + 1]
    BY <2>1
  <2>3. \A k \in 1 .. Len(to_net') :
          (k \in 1 .. Len(to_net) /\ to_net'[k] = to_net[k]) \/ to_net'[k] = sent[1]
    BY <2>1
  <2>4. 1 \in 1 .. Len(sent)
    BY <2>1
  <2> QED
    BY <2>2, <2>3, <2>4 DEF Refusing
<1>3. CASE Relay
  <2>1. /\ sent' = sent
        /\ \A k \in 1 .. Len(to_net') : k + 1 \in 1 .. Len(to_net) /\ to_net'[k] = to_net[k + 1]
    BY <1>3, RelayMoves
  <2> QED
    BY <2>1 DEF Refusing
<1>4. CASE Accept \/ (\E id \in Id : ServeEnd(id)) \/ (People /\ \E id \in Id : Quit(id)) \/ Idles
  <2>1. to_net' = to_net /\ sent' = sent
    BY <1>4, AcceptMoves, ServeMoves, QuitMoves DEF Idles
  <2> QED
    BY <2>1 DEF Refusing
<1> QED
  BY <1>1, <1>2, <1>3, <1>4, StepKinds

LEMMA NextMissed ==
  ASSUME IInv, Threads, StrangersAreUnknown', QueueInOrder', Agreement, Pictured, Untroubled,
         Calm', Running', [PartyNext]_partyVars
  PROVE  NobodyIsMissed'
<1>1. Calm /\ Running /\ PartyTypes /\ DOMAIN client = Id /\ IsSeq(sent) /\ Rosters
  BY CalmBefore, RunningBefore DEF Threads, Pictured, Agreement, Untroubled
<1>2. /\ NobodyIsMissed /\ PlayersAreListed /\ GoneHasEnded
      /\ \A c \in Id : client[c].phase # "crashed"
  BY <1>1 DEF Agreement, Untroubled
<1>3. \A x \in Id : Goes(x) => ~Plays(x)
  BY <1>2, CalmLists
<1>4. \A x : /\ Plays(x) => \E i \in 1 .. Len(players') : players'[i].id = x
             /\ (\E i \in 1 .. Len(players') : players'[i].id = x) => Plays(x) \/ Comes(x)
  BY <1>1, <1>3, PlayersInCalm
<1> DEFINE InGame(m) == m[1] \in About => Plays(m[2])
<1>5. /\ \A k \in 1 .. Len(to_net') : InGame(to_net'[k])
      /\ \A k \in 1 .. Len(sent') : InGame(sent'[k])
  <2>1. /\ \A k \in 1 .. Len(to_net) : InGame(to_net[k])
        /\ \A k \in 1 .. Len(sent) : InGame(sent[k])
    BY <1>2 DEF NobodyIsMissed
  <2>2. CASE LogicDoes
    <3>1. to_net' = to_net
      BY <2>2 DEF LogicDoes
    <3>2. CASE LogicActs
      <4>1. sent' \in Seq(Fit)
        BY <3>2, LogicTells DEF LogicActs
      <4>2. \A m \in Fit : InGame(m)
        BY DEF Fit
      <4> HIDE DEF InGame
      <4> QED
        BY <2>1, <3>1, <4>1, <4>2
    <3>3. CASE \E id \in Id : Join(id) \/ Left(id)
      <4>1. sent' = <<>>
        BY <3>3 DEF Join, Left
      <4> HIDE DEF InGame
      <4> QED
        BY <2>1, <3>1, <4>1
    <3> QED
      BY <2>2, <3>2, <3>3 DEF LogicDoes
  <2>3. CASE SendNext
    <3> HIDE DEF InGame
    <3>1. /\ Len(sent') = Len(sent) - 1 /\ Len(sent) \in Nat \ {0}
          /\ \A k \in 1 .. Len(sent) - 1 : sent'[k] = sent[k + 1]
          /\ Head(sent) = sent[1]
          /\ \/ to_net' = to_net
             \/ /\ Len(to_net') = Len(to_net) + 1 /\ Len(to_net) \in Nat
                /\ \A k \in 1 .. Len(to_net) : to_net'[k] = to_net[k]
                /\ to_net'[Len(to_net) + 1] = Head(sent)
      BY <1>1, <2>3, SendNextMoves
    <3>2. \A k \in 1 .. Len(sent') : k + 1 \in 1 .. Len(sent) /\ sent'[k] = sent[k + 1]
      BY <3>1
    <3>3. \A k \in 1 .. Len(to_net') :
            (k \in 1 .. Len(to_net) /\ to_net'[k] = to_net[k]) \/ to_net'[k] = sent[1]
      BY <3>1
    <3>4. 1 \in 1 .. Len(sent)
      BY <3>1
    <3> QED
      BY <2>1, <3>2, <3>3, <3>4
  <2>4. CASE Relay
    <3> HIDE DEF InGame
    <3>1. /\ sent' = sent
          /\ \A k \in 1 .. Len(to_net') : k + 1 \in 1 .. Len(to_net) /\ to_net'[k] = to_net[k + 1]
      BY <1>1, <2>4, RelayMoves
    <3> QED
      BY <2>1, <3>1
  <2>5. CASE Accept \/ (\E id \in Id : ServeEnd(id)) \/ (People /\ \E id \in Id : Quit(id)) \/ Idles
    <3>1. to_net' = to_net /\ sent' = sent
      BY <1>1, <2>5, AcceptMoves, ServeMoves, QuitMoves DEF Idles
    <3> HIDE DEF InGame
    <3> QED
      BY <2>1, <3>1
  <2> QED
    BY <1>1, <2>2, <2>3, <2>4, <2>5, StepKinds
<1>6. /\ \A k \in 1 .. Len(to_net') :
           to_net'[k][1] \in About => \E i \in 1 .. Len(players') : players'[i].id = to_net'[k][2]
      /\ \A k \in 1 .. Len(sent') :
           sent'[k][1] \in About => \E i \in 1 .. Len(players') : players'[i].id = sent'[k][2]
  BY <1>4, <1>5
<1>7. ASSUME NEW id \in Id
      PROVE  /\ Refusing(id)' => client'[id].phase # "greet"
             /\ Refusing(id)' \/ client'[id].phase = "exited" => ~Plays(id)' /\ ~Comes(id)'
  <2>1. Refusing(id)' => Refusing(id) \/ JoinRefused(id)
    <3>1. SUFFICES ASSUME Refusing(id)' PROVE Refusing(id) \/ JoinRefused(id)
      OBVIOUS
    <3>2. \/ \E k \in 1 .. Len(to_net') : to_net'[k] = Refusal(id)
          \/ \E k \in 1 .. Len(sent') : sent'[k] = Refusal(id)
      BY <3>1 DEF Refusing, Refusal
    <3> QED
      BY <1>1, <3>2, RefusingOrigins
  <2>2. client'[id].phase = "exited" => client[id].phase = "exited" \/ Refusing(id)
    BY <1>1, CalmClients
  <2>3. ASSUME JoinRefused(id)
        PROVE  client'[id].phase # "greet" /\ ~Plays(id)' /\ ~Comes(id)'
    <3>1. id \notin connected /\ id \in connected' /\ players' = players
      BY <2>3 DEF JoinRefused, playing
    <3>2. client'[id].phase # "greet"
      BY <3>1 DEF StrangersAreUnknown, Stranger
    <3>3. ~Plays(id)'
      <4>1. ~Plays(id)
        BY <3>1, SeatsArePlayers
      <4> QED
        BY <3>1, <4>1 DEF Plays
    <3>4. ~Comes(id)'
      <4>1. SUFFICES ASSUME NEW k \in 1 .. Len(to_logic'), to_logic'[k] = <<"T_PLAYER_JOIN", id>>
                     PROVE  FALSE
        BY DEF Comes, Joins
      <4>2. to_logic'[k][1] = "T_PLAYER_JOIN" /\ to_logic'[k][2] = id
        BY <4>1
      <4> QED
        BY <3>1, <4>2 DEF QueueInOrder
    <3> QED
      BY <3>2, <3>3, <3>4
  <2>4. ASSUME Refusing(id)
        PROVE  client'[id].phase # "greet"
    BY <1>1, <1>2, <2>4, PhasesGo DEF NobodyIsMissed
  <2>5. ASSUME Refusing(id) \/ client[id].phase = "exited"
        PROVE  ~Plays(id)' /\ ~Comes(id)'
    <3>1. ~Plays(id) /\ ~Comes(id) /\ id \notin Stranger
      BY <1>2, <2>5 DEF NobodyIsMissed, Stranger
    <3>2. ~Plays(id)'
      BY <1>4, <3>1 DEF Plays
    <3>3. ~Comes(id)'
      BY <1>1, <3>1, QueueOrigins
    <3> QED
      BY <3>2, <3>3
  <2> QED
    BY <2>1, <2>2, <2>3, <2>4, <2>5
<1> QED
  BY <1>6, <1>7 DEF NobodyIsMissed, Plays

LEMMA NextReady ==
  ASSUME IInv, Threads, Agreement, Pictured, Untroubled, Calm', Running', [PartyNext]_partyVars
  PROVE  ScreensComeReady'
<1>1. /\ Calm /\ Running /\ PartyTypes /\ DOMAIN client = Id /\ IsSeq(sent) /\ IsSeq(to_net)
      /\ ~(People /\ \E id \in Id : Quit(id)) /\ (Accept => ~Starting)
  BY CalmBefore, RunningBefore DEF Threads, PartyTypes, Pictured, Agreement, Untroubled
<1>2. /\ NobodyIsMissed /\ ScreensComeReady /\ PlayersAreListed /\ GoneHasEnded
      /\ Rosters /\ MessagesAreOfLogic /\ TurnsComeFirst
      /\ \A c \in Id : client[c].phase # "crashed"
  BY <1>1 DEF Agreement, Pictured, GameNews, Untroubled
<1>3. SUFFICES ASSUME NEW c \in Id, InMain(c)'
               PROVE  LearntOf("screen", 0, ScreenOf(client'[c]), to_net', sent') # "broken"
  BY DEF ScreensComeReady, Coming, LearntOf
<1> DEFINE b == ScreenOf(client[c])
<1>4. b \in Lore("screen") /\ (InMain(c) => LearntOf("screen", 0, b, to_net, sent) # "broken")
  BY <1>2, ScreenLore, ComingIs DEF ScreensComeReady
<1> HIDE DEF b
<1>5. ASSUME client'[c] = client[c] \/ (InMain(c) /\ ScreenOf(client'[c]) = ScreenOf(client[c]))
      PROVE  /\ InMain(c) /\ ScreenOf(client'[c]) = b
             /\ to_net' = to_net /\ sent' = sent
                  => LearntOf("screen", 0, ScreenOf(client'[c]), to_net', sent') # "broken"
  <2>1. InMain(c) /\ ScreenOf(client'[c]) = b
    BY <1>3, <1>5 DEF InMain, b
  <2> QED
    BY <1>4, <2>1
<1>6. CASE LogicDoes
  <2>1. sent = <<>> /\ to_net' = to_net /\ client' = client
    BY <1>6 DEF LogicDoes
  <2>2. CASE LogicActs
    <3>1. TellsNothing \/ TellsOfTurn \/ TellsOfLoss
      BY <2>2, LogicTells DEF LogicActs, Dies, Running
    <3>2. InMain(c) /\ ScreenOf(client'[c]) = b
      BY <1>5, <2>1
    <3> DEFINE d == LearntOf("screen", 0, b, to_net, sent)
    <3>3. /\ LearntOf("screen", 0, b, to_net', sent') = Learnt("screen", 0, d, sent')
          /\ d \in Lore("screen") /\ d # "broken"
      BY <1>1, <1>4, <2>1, <3>2, ComingAfter, TopicsAre
    <3> HIDE DEF d
    <3>4. Learnt("screen", 0, d, sent') # "broken"
      BY <3>1, <3>3, TellingBreaksNone, TopicsAre
    <3> QED
      BY <3>2, <3>3, <3>4
  <2>3. CASE \E id \in Id : Join(id) \/ Left(id)
    <3>1. sent' = sent
      BY <2>1, <2>3 DEF Join, Left
    <3> QED
      BY <1>5, <2>1, <3>1
  <2> QED
    BY <1>6, <2>2, <2>3 DEF LogicDoes
<1>7. CASE SendNext
  <2>1. client' = client
    BY <1>1, <1>7, SendNextMoves
  <2>2. InMain(c) /\ ScreenOf(client'[c]) = b
    BY <1>5, <2>1
  <2>3. ~lost'
    BY DEF Running
  <2>4. LearntOf("screen", 0, b, to_net', sent') = LearntOf("screen", 0, b, to_net, sent)
    BY <1>1, <1>4, <1>7, <2>3, SendNextKeepsComing, TopicsAre
  <2> QED
    BY <1>4, <2>2, <2>4
<1>8. CASE Relay
  <2>1. InMain(c) /\ ScreenOf(client'[c]) = Reads("screen", 0, b, Head(to_net))
    BY <1>1, <1>2, <1>3, <1>8, RelayInCalm DEF b
  <2>2. to_net # <<>> /\ to_net' = Tail(to_net) /\ sent' = sent
    BY <1>1, <1>8, RelayMoves
  <2>3. LearntOf("screen", 0, Reads("screen", 0, b, Head(to_net)), Tail(to_net), sent) # "broken"
    BY <1>1, <1>4, <2>1, <2>2, ReadyReads
  <2> QED
    BY <2>1, <2>2, <2>3
<1>9. ASSUME NEW id \in Id, ServeEnd(id)
      PROVE  LearntOf("screen", 0, ScreenOf(client'[c]), to_net', sent') # "broken"
  <2>1. InMain(c) /\ ScreenOf(client'[c]) = ScreenOf(client[c])
    BY <1>1, <1>2, <1>3, <1>9, ServeInCalm
  <2>2. to_net' = to_net /\ sent' = sent
    BY <1>9, ServeMoves
  <2> QED
    BY <1>5, <2>1, <2>2
<1>10. CASE Accept
  <2>1. to_net' = to_net /\ sent' = sent
    BY <1>10, AcceptMoves
  <2>2. \/ InMain(c) /\ ScreenOf(client'[c]) = ScreenOf(client[c])
        \/ ScreenOf(client'[c]) = "lobby"
    BY <1>1, <1>2, <1>3, <1>10, AcceptInCalm
  <2>3. CASE InMain(c) /\ ScreenOf(client'[c]) = ScreenOf(client[c])
    BY <1>5, <2>1, <2>3
  <2>4. CASE ScreenOf(client'[c]) = "lobby"
    <3> DEFINE s == to_net \o sent
    <3>1. /\ IsSeq(s)
          /\ LearntOf("screen", 0, "turn", to_net, sent) = Learnt("screen", 0, "turn", s)
          /\ LearntOf("screen", 0, "lobby", to_net, sent) = Learnt("screen", 0, "lobby", s)
      BY <1>1, LearntOfBoth, TopicsAre
    <3>2. LearntOf("screen", 0, "turn", to_net, sent) # "broken"
      BY <1>2, ComingIs DEF TurnsComeFirst
    <3>3. \A k \in 1 .. Len(s) :
            s[k][1] = "T_GAME_START" => \E j \in 1 .. k : s[j][1] = "T_PLAYER_TURN"
      BY <1>1, <1>10 DEF Starting
    <3> HIDE DEF s
    <3>4. Learnt("screen", 0, "lobby", s) # "broken"
      BY <3>1, <3>2, <3>3, ScreensInStep
    <3> QED
      BY <2>1, <2>4, <3>1, <3>4
  <2> QED
    BY <2>2, <2>3, <2>4
<1>11. CASE Idles
  <2>1. client' = client /\ to_net' = to_net /\ sent' = sent
    BY <1>11 DEF Idles
  <2> QED
    BY <1>5, <2>1
<1> QED
  BY <1>1, <1>6, <1>7, <1>8, <1>9, <1>10, <1>11, StepKinds

LEMMA InitUntroubled == PartyInit => Untroubled
<1> SUFFICES ASSUME PartyInit PROVE Untroubled
  OBVIOUS
<1>1. /\ sent = <<>> /\ to_net = <<>> /\ to_logic = <<>> /\ players = <<>> /\ quits = 0
      /\ \A c \in Id : client[c].phase = "greet"
  BY DEF PartyInit, Init, C!NewClient
<1>2. \A x : ~Goes(x) /\ ~Comes(x) /\ ~Plays(x) /\ ~Refusing(x)
  BY <1>1 DEF Goes, Comes, Plays, Refusing
<1>3. GoneHasEnded /\ NobodyIsMissed /\ ScreensComeReady
  BY <1>1, <1>2 DEF GoneHasEnded, NobodyIsMissed, ScreensComeReady, InMain
<1> QED
  BY <1>1, <1>3 DEF Untroubled

LEMMA NextUntroubled ==
  IInv /\ Threads /\ Threads' /\ Agreement /\ Pictured /\ Untroubled /\ [PartyNext]_partyVars
  => Untroubled'
<1> SUFFICES ASSUME IInv, Threads, Threads', Agreement, Pictured, Untroubled,
                    [PartyNext]_partyVars
             PROVE  Untroubled'
  OBVIOUS
<1>1. PartyTypes /\ DOMAIN client = Id /\ Rosters /\ IsSeq(sent)
  BY DEF Threads, Pictured, Agreement
<1>2. quits' \in Nat
  <2>1. quits \in Nat
    BY DEF Untroubled
  <2>2. quits' = quits \/ quits' = quits + 1
    <3>1. CASE Accept \/ \E id \in Id : ServeEnd(id)
      BY <3>1, AcceptMoves, ServeMoves
    <3>2. CASE LogicDoes \/ SendNext \/ Relay \/ Idles
      BY <1>1, <3>2, SendNextMoves, RelayMoves DEF LogicDoes, Idles
    <3>3. CASE People /\ \E id \in Id : Quit(id)
      BY <1>1, <3>3, QuitMoves
    <3> QED
      BY <1>1, <3>1, <3>2, <3>3, StepKinds
  <2> QED
    BY <2>1, <2>2
<1>3. GoneHasEnded'
  BY <1>1, NextGone DEF Untroubled
<1>4. ASSUME Calm' PROVE \A c \in Id : client'[c].phase # "crashed"
  BY <1>1, <1>4, CalmClients
<1>5. ASSUME Calm', Running' PROVE NobodyIsMissed' /\ ScreensComeReady'
  <2>1. StrangersAreUnknown' /\ QueueInOrder'
    BY DEF Threads
  <2> QED
    BY <1>5, <2>1, NextMissed, NextReady
<1> QED
  BY <1>2, <1>3, <1>4, <1>5 DEF Untroubled

LEMMA AlwaysUntroubled == PartySpec => []Untroubled
<1>1. PartySpec => [](IInv /\ Threads)
  BY AlwaysThreads
<1>2. PartySpec => []Agreement
  BY AlwaysAgreement
<1>3. PartySpec => []Pictured
  BY AlwaysPictured
<1> QED
  BY <1>1, <1>2, <1>3, InitUntroubled, NextUntroubled, PTL DEF PartySpec

(* No client crashes but over somebody who quit, or because it was let in  *)
(* just after the turn of a new game was announced and before the game     *)
(* was: whatever the order in which the threads and the clients move.      *)
THEOREM ClientsCrashForAReason == PartySpec => []CrashesAreExplained
<1>1. Untroubled => CrashesAreExplained
  BY DEF Untroubled, CrashesAreExplained, Calm
<1> QED
  BY <1>1, AlwaysUntroubled, PTL
=============================================================================
