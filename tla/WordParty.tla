------------------------------ MODULE WordParty ------------------------------
(***************************************************************************)
(* The whole program: the logic thread of GameLogic, the two queues, the   *)
(* networking thread and the clients of ClientState.  The networking       *)
(* thread is that of Networking, as far as the game depends on it: nobody  *)
(* is turned away, no send fails, and nobody comes back.  A client is      *)
(* shown as if it had read all that was sent to it; that it is slow is     *)
(* seen in what it does, which may reach the server any time later.        *)
(***************************************************************************)
EXTENDS ClientView

CONSTANTS
  QUEUE_ROOM,   \* messages a queue has room for, 19
  MaxStarts,    \* bound: games started, and turns passed on by "start"
  MaxWords,     \* bound: words typed
  MaxQuits      \* bound: clients stopped by their users

ASSUME PartyAssumption ==
  /\ Id \cap (0 .. 4) = {}
  /\ QUEUE_ROOM \in Nat \ {0}
  /\ MaxStarts \in Nat /\ MaxWords \in Nat /\ MaxQuits \in Nat

VARIABLES
  to_logic,   \* the queue from the networking thread to the logic thread
  to_net,     \* the queue back; sent is what has not entered it yet
  lost,       \* a message was refused by a full queue
  pc,         \* where the networking thread's loop stands
  reads,      \* what select() found readable, less what was served
  list,       \* the networking thread's clients
  client,     \* external: the client processes
  outbox,     \* external: words the server has not read
  starts,     \* external: how often "start" was obeyed
  words,      \* external: how many words were typed
  quits,      \* external: how many clients were stopped
  between     \* history: somebody was let in between the messages of a start

network == <<pc, reads, list>>
outside == <<client, outbox, words, quits, between>>
partyVars == <<vars, to_logic, to_net, lost, network, outside, starts>>

(* Descriptors of the networking thread that are not clients. *)
READ_PIPE == 3
SOCKET_LISTEN == 4

PartyInit ==
  /\ Init
  /\ to_logic = <<>>
  /\ to_net = <<>>
  /\ lost = FALSE
  /\ pc = "select"
  /\ reads = {}
  /\ list = <<>>
  /\ client = [id \in Id |-> C!NewClient]
  /\ outbox = [id \in Id |-> <<>>]
  /\ starts = 0
  /\ words = 0
  /\ quits = 0
  /\ between = FALSE

Running == fault = "none" /\ ~lost

----------------------------------------------------------------------------
(* The logic thread *)

(* A handler's messages enter the queue one by one.  T_TURN_TIME, which    *)
(* only sets the time that is shown, is left out here.                     *)
SendNext ==
  /\ Running /\ sent # <<>>
  /\ IF Head(sent)[1] = "T_TURN_TIME" THEN UNCHANGED <<to_net, lost>>
     ELSE IF Len(to_net) < QUEUE_ROOM
       THEN to_net' = Append(to_net, Head(sent)) /\ UNCHANGED lost
       ELSE lost' = TRUE /\ UNCHANGED to_net
  /\ sent' = Tail(sent)
  /\ UNCHANGED <<playing, clocks, step, fault, clients, to_logic, network, outside, starts>>

LogicStep(action) ==
  /\ Running /\ sent = <<>>
  /\ action
  /\ UNCHANGED <<to_net, lost, network, outside>>

(* Whoever is connected may be told of a game.                             *)
Handle(msg) ==
  \/ /\ msg[1] = "T_PLAYER_JOIN"
     /\ Join(msg[2]) \/ JoinRefused(msg[2])
     /\ told' = told \cup {msg[2]}
  \/ msg[1] = "T_PLAYER_LEFT" /\ Left(msg[2])
  \/ /\ msg[1] = "T_SEND_WORD"
     /\ \/ WordWithoutTurn(msg[2])
        \/ WordOutOfTurn(msg[2])
        \/ WordWrong(msg[2], msg[3])
        \/ WordRight(msg[2], msg[3])

OwnStep ==
  /\ LogicStep(NoLine \/ StartRefused \/ Clock)
  /\ UNCHANGED <<to_logic, starts>>

StartTyped ==
  /\ starts < MaxStarts
  /\ LogicStep(Start \/ StartThroughFreed)
  /\ starts' = starts + 1
  /\ UNCHANGED to_logic

HandleNext ==
  /\ to_logic # <<>>
  /\ LogicStep(Handle(Head(to_logic)))
  /\ to_logic' = Tail(to_logic)
  /\ UNCHANGED starts

AllHandled ==
  /\ to_logic = <<>>
  /\ LogicStep(NoMoreMessages)
  /\ UNCHANGED <<to_logic, starts>>

LogicThread == SendNext \/ OwnStep \/ StartTyped \/ HandleNext \/ AllHandled

----------------------------------------------------------------------------
(* Clients *)

(* A message for some of the clients.  A client draws its screen after it, *)
(* or when it has read the next ones too.                                  *)
Tell(ids, msg) ==
  LET now == [id \in Id |-> IF id \in ids /\ client[id].phase = "main"
                              THEN C!process_server_command(client[id], msg)
                              ELSE client[id]]
      drawn == [id \in Id |-> IF id \in ids /\ now[id].phase = "main"
                                THEN C!display_ui(now[id]) ELSE now[id]]
  IN  \E draw \in SUBSET {id \in Id : drawn[id] # now[id]} :
        client' = [id \in Id |-> IF id \in draw THEN drawn[id] ELSE now[id]]

\* MUTANT: the queue's room is not looked at.
EnqueueAnyway(msg) == to_logic' = Append(to_logic, msg) /\ UNCHANGED lost

(* What reaches the logic thread, if its queue has room. *)
Enqueue(msg) ==
  IF Len(to_logic) < QUEUE_ROOM
    THEN to_logic' = Append(to_logic, msg) /\ UNCHANGED lost
    ELSE lost' = TRUE /\ UNCHANGED to_logic

(* Its user or a message ended it, or it crashed. *)
Ended(id) == client[id].phase \in {"exited", "crashed"}

Quit(id) ==
  /\ client[id].phase = "main"
  /\ quits < MaxQuits
  /\ quits' = quits + 1
  /\ client' = [client EXCEPT ![id].phase = "exited"]
  /\ UNCHANGED <<outbox, words, between>>

(* One line at a time, and only in a game. *)
Type(id, word) ==
  /\ client[id].phase = "main" /\ client[id].game_started
  /\ outbox[id] = <<>> /\ words < MaxWords
  /\ outbox' = [outbox EXCEPT ![id] = <<word>>]
  /\ words' = words + 1
  /\ UNCHANGED <<client, quits, between>>

People ==
  /\ Running
  /\ \E id \in Id : Quit(id) \/ \E word \in Word : Type(id, word)
  /\ UNCHANGED <<vars, to_logic, to_net, lost, network, starts>>

----------------------------------------------------------------------------
(* The networking thread *)

Stranger == {id \in Id : client[id].phase = "greet"}

ClientsReadable == {id \in Range(list) : outbox[id] # <<>> \/ Ended(id)}

NetStep == Running /\ UNCHANGED <<vars, starts, words, quits>>

Select ==
  /\ NetStep /\ pc = "select"
  /\ \E new \in SUBSET (IF Stranger = {} THEN {} ELSE {SOCKET_LISTEN}) :
       reads' = ClientsReadable \cup new \cup (IF to_net = <<>> THEN {} ELSE {READ_PIPE})
  /\ reads' # {}
  /\ pc' = "thread"
  /\ UNCHANGED <<to_logic, to_net, lost, list, client, outbox, between>>

Relay ==
  /\ NetStep /\ pc = "thread" /\ READ_PIPE \in reads
  /\ to_net # <<>>
  /\ LET msg == Head(to_net)
     IN  IF ForAll(msg) THEN Tell(Range(list), Relayed(msg))
                        ELSE Tell({msg[2]}, <<"N_GAME_STARTED_NO_JOINING">>)
  /\ to_net' = Tail(to_net)
  /\ UNCHANGED <<to_logic, lost, network, outbox, between>>

RelayDone ==
  /\ NetStep /\ pc = "thread"
  /\ READ_PIPE \notin reads \/ to_net = <<>>
  /\ pc' = IF SOCKET_LISTEN \in reads THEN "accept" ELSE "clients"
  /\ UNCHANGED <<to_logic, to_net, lost, reads, list, client, outbox, between>>

(* The newcomer is told who is there, everybody that it is there, and it   *)
(* who it is.                                                              *)
Welcomed(id) ==
  [C!NewClient EXCEPT
     !.phase = "main",
     !.my_id = id,
     !.players = [k \in 1 .. Len(list) + 1 |-> C!new_player(Append(list, id)[k], <<>>)]]

\* MUTANT: only the clients hear of a newcomer.
JoinUnreported(id) == UNCHANGED <<to_logic, lost>>

ReportJoin(id) == Enqueue(<<"T_PLAYER_JOIN", id>>)

(* The turn of a game that starts was relayed, and its start not yet. *)
Starting ==
  LET coming == to_net \o sent
  IN  \E k \in 1 .. Len(coming) :
        /\ coming[k][1] = "T_GAME_START"
        /\ \A j \in 1 .. k : coming[j][1] # "T_PLAYER_TURN"

Accept ==
  /\ NetStep /\ pc = "accept"
  /\ \E id \in Stranger :
       /\ \A other \in Stranger : id <= other
       /\ ReportJoin(id)
       /\ list' = Append(list, id)
       /\ client' = [other \in Id |->
                       IF other = id THEN Welcomed(id)
                       ELSE IF other \in Range(list) /\ ~Ended(other)
                         THEN C!create_player(client[other], id, <<>>)
                       ELSE client[other]]
  /\ between' = (between \/ Starting)
  /\ pc' = "clients"
  /\ UNCHANGED <<to_net, reads, outbox>>

(* The first client of the list that is to be served. *)
Serving(id) ==
  /\ NetStep /\ pc = "clients" /\ id \in reads
  /\ \E i \in 1 .. Len(list) : list[i] = id /\ \A j \in 1 .. i - 1 : list[j] \notin reads
  /\ reads' = reads \ {id}

ServeWord(id) ==
  /\ Serving(id)
  /\ outbox[id] # <<>>
  /\ Enqueue(<<"T_SEND_WORD", id, Head(outbox[id])>>)
  /\ outbox' = [outbox EXCEPT ![id] = Tail(@)]
  /\ UNCHANGED <<to_net, pc, list, client, between>>

ServeEnd(id) ==
  /\ Serving(id)
  /\ outbox[id] = <<>> /\ Ended(id)
  /\ Tell(Range(list) \ {id}, <<"N_PLAYER_LEFT", id>>)
  /\ Enqueue(<<"T_PLAYER_LEFT", id>>)
  /\ list' = RemoveFirst(list, id)
  /\ UNCHANGED <<to_net, pc, outbox, between>>

ClientsDone ==
  /\ NetStep /\ pc = "clients"
  /\ reads \cap Range(list) = {}
  /\ pc' = "select"
  /\ reads' = {}
  /\ UNCHANGED <<to_logic, to_net, lost, list, client, outbox, between>>

NetworkThread ==
  \/ Select
  \/ Relay
  \/ RelayDone
  \/ Accept
  \/ \E id \in Id : ServeWord(id) \/ ServeEnd(id)
  \/ ClientsDone

(* The server is gone, or a message is. *)
Over == ~Running /\ UNCHANGED partyVars

PartyNext == LogicThread \/ NetworkThread \/ People \/ Over

PartySpec == PartyInit /\ [][PartyNext]_partyVars

----------------------------------------------------------------------------
(* Every variable has its type. *)
PartyTypeOK ==
  /\ TypeOK
  /\ Len(to_logic) <= QUEUE_ROOM /\ Len(to_net) <= QUEUE_ROOM
  /\ pc \in {"select", "thread", "accept", "clients"}
  /\ list \in Seq(Id) /\ IsInjective(list)
  /\ \A id \in Id : client[id].phase \in C!Phase

(* What GameLogic assumes of the networking thread, and its theorems rest  *)
(* on: clients join once, and leave and send words only in between.        *)
EnvironmentAsAssumed ==
  to_logic # <<>> =>
    LET msg == Head(to_logic)
    IN  IF msg[1] = "T_PLAYER_JOIN" THEN msg[2] \notin connected ELSE msg[2] \in connected

Players == {players[i].id : i \in 1 .. Len(players)}

(* Once nothing is on its way, every player's screen shows the game that   *)
(* the logic thread plays: who has the turn, and everybody's hearts,       *)
(* whatever joined, left, was refused or was decided on the way, and in    *)
(* whatever order the two threads took it.                                 *)
Quiet == Running /\ to_logic = <<>> /\ to_net = <<>> /\ sent = <<>>

Shows(cl) ==
  /\ cl.game_started = game_started
  /\ player_turn # FREED => cl.player_turn = View.player_turn
  /\ \A i \in 1 .. Len(players) :
       C!Known(cl, players[i].id)
         => cl.players[C!FirstOf(cl, players[i].id)].hp = players[i].hp

ClientsShowTheGame ==
  Quiet => \A id \in Players : client[id].phase = "main" => Shows(client[id])

(* No client crashes but over somebody who quit, or because it was let in  *)
(* just after the turn of a new game was announced and before the game     *)
(* was: else none draws the screen of a game before it knows whose turn it *)
(* is, nor reads of somebody it does not know.                             *)
CrashesAreExplained ==
  quits = 0 /\ ~between => \A id \in Id : client[id].phase # "crashed"

(* The two threads agree who is in the game, and in which order the turn   *)
(* goes round: once nothing is on its way and everybody who is gone was    *)
(* removed, nobody is left whom one thread let in and the other does not   *)
(* know.                                                                   *)
ListsAgree ==
  Quiet /\ (\A id \in Range(list) : ~Ended(id))
    => list = [i \in 1 .. Len(players) |-> players[i].id]
=============================================================================
