----------------------------- MODULE Networking -----------------------------
(***************************************************************************)
(* The networking thread, server/server_networking.c: one loop that waits  *)
(* in select(), relays what the logic thread queued, accepts a client, and *)
(* serves the clients whose sockets are readable.  Around it the sockets   *)
(* as the kernel keeps them and the client processes at their other ends.  *)
(* Messages travel whole, SocketFraming is about their bytes; those of the *)
(* clients are written out in characters, which people choose.             *)
(***************************************************************************)
EXTENDS ClientState, CustomProtocol

CONSTANTS
  Fd,                \* descriptors accept() may return; then it fails
  MAX_CLIENT_COUNT,
  Name,              \* names people choose
  Word,              \* words people type
  MaxArrivals,       \* bound: connections made
  MaxInputs          \* bound: words typed and commands of the logic thread

(* Descriptors that are open from the start. *)
STDOUT == 1
READ_PIPE == 3
SOCKET_LISTEN == 4

Letters == {MSG_END} \cup UNION {Range(word) : word \in Word}

(* A name is what scanf("%24s") reads.  The codes of messages are control  *)
(* characters, which nobody types.                                         *)
ASSUME NetworkAssumption ==
  /\ Fd \subseteq Nat \ (0 .. SOCKET_LISTEN)
  /\ MAX_CLIENT_COUNT \in Nat \ {0}
  /\ \A name \in Name : name # <<>> /\ Plain(name)
  /\ \A text \in Name \cup Word : text \in Seq(Range(text))
  /\ {"N_SEND_NAME", "N_SEND_WORD"} \cap Letters = {}
  /\ ARG_LEN \in Nat \ {0, 1}
  /\ MaxArrivals \in Nat
  /\ MaxInputs \in Nat

VARIABLES
  clients,       \* the list: records of sock and name
  client_count,
  master,        \* the client sockets select() watches
  reads,         \* what select() found readable, less what was served
  pc,            \* where the loop stands
  recv_str,      \* the static buffer of process_client_command()
  enqueued,      \* what the last action gave to message_enqueue()
  fault,         \* why the thread or the whole process ended, if it did
  from_logic,    \* the queue of the logic thread's messages
  open,          \* external: open descriptors a client may be given
  backlog,       \* external: connections waiting to be accepted
  peer,          \* external: what became of the other end of a socket
  inbox,         \* external: messages a client has not read
  outbox,        \* external: messages a client sent and the server has not read
  client,        \* external: the client process, see ClientState
  arrivals,      \* external: connections made so far
  inputs         \* external: the words and commands so far

server == <<clients, client_count, master, reads, pc, recv_str>>
kernel == <<open, backlog, peer, inbox, outbox>>
people == <<client, arrivals, inputs>>
vars == <<server, enqueued, fault, from_logic, kernel, people>>

Desc == Fd \cup {STDOUT}

(* "up": the other end is open.  "fin": it was closed.  "reset": it was    *)
(* closed with messages unread, which the next call is told.  "dead":      *)
(* closed, and a write to it ends the process with SIGPIPE.                *)
Peer == {"none", "file", "up", "fin", "reset", "dead"}

Init ==
  /\ clients = <<>>
  /\ client_count = 0
  /\ master = {}
  /\ reads = {}
  /\ pc = "select"
  /\ recv_str = <<>>
  /\ enqueued = <<>>
  /\ fault = "none"
  /\ from_logic = <<>>
  /\ open = {STDOUT}
  /\ backlog = 0
  /\ peer = [fd \in Desc |-> IF fd = STDOUT THEN "file" ELSE "none"]
  /\ inbox = [fd \in Desc |-> <<>>]
  /\ outbox = [fd \in Desc |-> <<>>]
  /\ client = [fd \in Desc |-> NewClient]
  /\ arrivals = 0
  /\ inputs = {}

----------------------------------------------------------------------------
(* send_to_sock() *)

(* The sockets in one state that a batch of messages is written to. *)
Hit(batch, ends, state) == {fd \in Desc : ends[fd] = state /\ batch[fd] # <<>>}

Twice(batch, fds) == \E fd \in fds : Len(batch[fd]) > 1

(* Hand every descriptor its batch of messages, the sockets being as in    *)
(* ends, and survive.  The first write to a closed end is accepted, and    *)
(* answered before the next one or later; a write to a reset one fails.    *)
Send(batch, ends) ==
  /\ Hit(batch, ends, "dead") = {}
  /\ ~Twice(batch, Hit(batch, ends, "reset"))
  /\ \E answered \in SUBSET Hit(batch, ends, "fin") :
       peer' = [fd \in Desc |-> IF fd \in answered \cup Hit(batch, ends, "reset")
                                 THEN "dead" ELSE ends[fd]]
  /\ inbox' = [fd \in Desc |-> IF ends[fd] = "up" THEN inbox[fd] \o batch[fd] ELSE <<>>]
  /\ fault' = fault

(* The write after that is answered with SIGPIPE, which nothing handles.   *)
SendKills(batch, ends) ==
  /\ \/ Hit(batch, ends, "dead") # {}
     \/ Twice(batch, Hit(batch, ends, "reset") \cup Hit(batch, ends, "fin"))
  /\ fault' = "sigpipe"
  /\ enqueued' = <<>>
  /\ UNCHANGED <<server, from_logic, kernel, people>>

----------------------------------------------------------------------------
(* Helpers over the list of clients *)

Socks(list) == {list[i].sock : i \in 1 .. Len(list)}

Places(sock) == {i \in 1 .. Len(clients) : clients[i].sock = sock}

(* remove_client_data() looks for the first entry of that socket.          *)
FirstPlace(sock) == CHOOSE i \in Places(sock) : \A j \in Places(sock) : i <= j

(* send_to_all() sends once per entry of the list. *)
ToAll(list, msg) ==
  [fd \in Desc |-> [i \in 1 .. Cardinality({j \in 1 .. Len(list) : list[j].sock = fd}) |-> msg]]

(* send_to_all_except_one() passes over every entry of the socket. *)
ToAllExcept(sock, msg) == [ToAll(clients, msg) EXCEPT ![sock] = <<>>]

ToOne(sock, msgs) == [fd \in Desc |-> IF fd = sock THEN msgs ELSE <<>>]

Then(first, second) == [fd \in Desc |-> first[fd] \o second[fd]]

Readable(fd) == outbox[fd] # <<>> \/ peer[fd] \in {"fin", "reset", "dead"}

Running == fault = "none"

----------------------------------------------------------------------------
(* select() *)

Ready ==
  {fd \in master : Readable(fd)}
    \cup {p \in {READ_PIPE} : from_logic # <<>>}
    \cup {l \in {SOCKET_LISTEN} : backlog > 0}

Select ==
  /\ Running /\ pc = "select"
  /\ master \subseteq open
  /\ Ready # {}
  /\ reads' = Ready
  /\ pc' = "thread"
  /\ enqueued' = <<>>
  /\ UNCHANGED <<clients, client_count, master, recv_str, fault, from_logic, kernel, people>>

(* A closed descriptor among those watched: the thread returns. *)
SelectFails ==
  /\ Running /\ pc = "select"
  /\ ~(master \subseteq open)
  /\ fault' = "select_failed"
  /\ enqueued' = <<>>
  /\ UNCHANGED <<server, from_logic, kernel, people>>

----------------------------------------------------------------------------
(* Messages from the logic thread *)

(* All codes but one are passed on to all clients. *)
Relayed(msg) ==
  IF msg[1] = "T_GAME_STARTED_NO_JOINING"
    THEN ToOne(msg[2], << <<"N_GAME_STARTED_NO_JOINING">> >>)
    ELSE ToAll(clients, msg)

process_thread_command ==
  /\ Running /\ pc = "thread"
  /\ READ_PIPE \in reads
  /\ from_logic # <<>>
  /\ \/ /\ Send(Relayed(Head(from_logic)), peer)
        /\ from_logic' = Tail(from_logic)
        /\ enqueued' = <<>>
        /\ UNCHANGED <<server, open, backlog, outbox, people>>
     \/ SendKills(Relayed(Head(from_logic)), peer)

ThreadDone ==
  /\ Running /\ pc = "thread"
  /\ READ_PIPE \notin reads \/ from_logic = <<>>
  /\ pc' = IF SOCKET_LISTEN \in reads THEN "accept" ELSE "clients"
  /\ enqueued' = <<>>
  /\ UNCHANGED <<clients, client_count, master, reads, recv_str, fault, from_logic, kernel, people>>

----------------------------------------------------------------------------
(* A new client *)

\* MUTANT: nobody is ever turned away.
NeverFull == FALSE

Full == client_count = MAX_CLIENT_COUNT

Free == Desc \ open

Lowest(fds) == CHOOSE fd \in fds : \A other \in fds : fd <= other

(* wait_for_client(): the connection's descriptor, or 1 when the process   *)
(* has no descriptor left, which the caller takes for a client.            *)
wait_for_client == IF Free = {} THEN STDOUT ELSE Lowest(Free)

(* The list with the newcomer at its end, whose name is empty here and     *)
(* "Unnamed" for the others.                                               *)
Unnamed == <<"Unnamed">>

create_client_data(sock) == Append(clients, [sock |-> sock, name |-> <<>>])

\* MUTANT: the newcomer is not told who is there.
WelcomeWithoutRoster(sock) ==
  Then(ToOne(sock, << <<"N_GAME_NOT_FULL">> >>),
       Then(ToAll(create_client_data(sock), <<"N_PLAYER_JOIN", sock, Unnamed>>),
            ToOne(sock, << <<"N_SEND_ID", sock>> >>)))

(* Everything that is sent when a client is let in. *)
Welcome(sock) ==
  LET roster == [i \in 1 .. Len(clients) |->
                   <<"N_PLAYER_JOIN", clients[i].sock, clients[i].name>>]
  IN  Then(ToOne(sock, << <<"N_GAME_NOT_FULL">> >> \o roster),
           Then(ToAll(create_client_data(sock), <<"N_PLAYER_JOIN", sock, Unnamed>>),
                ToOne(sock, << <<"N_SEND_ID", sock>> >>)))

(* How the sockets stand after accept(); who connected may have hung up.   *)
Accepted(end) ==
  IF Free = {} THEN peer ELSE [peer EXCEPT ![wait_for_client] = end]

LetIn ==
  /\ Running /\ pc = "accept"
  /\ ~Full
  /\ \E end \in {"up", "fin"} :
       \/ /\ Send(Welcome(wait_for_client), Accepted(end))
          /\ clients' = create_client_data(wait_for_client)
          /\ client_count' = client_count + 1
          /\ master' = master \cup {wait_for_client}
          /\ enqueued' = << <<"T_PLAYER_JOIN", wait_for_client>> >>
          /\ open' = open \cup {wait_for_client}
          /\ client' = IF Free = {} THEN client
                       ELSE [client EXCEPT ![wait_for_client] =
                               IF end = "up" THEN NewClient
                                             ELSE [NewClient EXCEPT !.phase = "exited"]]
          /\ backlog' = IF Free = {} THEN backlog ELSE backlog - 1
          /\ pc' = "clients"
          /\ UNCHANGED <<reads, recv_str, from_logic, outbox, arrivals, inputs>>
       \/ SendKills(Welcome(wait_for_client), Accepted(end))

(* N_GAME_FULL and close(), of standard output if accept() failed, or of   *)
(* the client that has its number; the clients are not looked at this time *)
(* round.                                                                  *)
TurnAway ==
  /\ Running /\ pc = "accept"
  /\ Full
  /\ IF Free = {}
       THEN /\ open' = open \ {STDOUT}
            /\ peer' = [peer EXCEPT ![STDOUT] = "none"]
            /\ inbox' = [inbox EXCEPT ![STDOUT] = <<>>]
            /\ outbox' = [outbox EXCEPT ![STDOUT] = <<>>]
            /\ UNCHANGED backlog
       ELSE /\ backlog' = backlog - 1
            /\ UNCHANGED <<open, peer, inbox, outbox>>
  /\ pc' = "select"
  /\ enqueued' = <<>>
  /\ UNCHANGED <<clients, client_count, master, reads, recv_str, fault, from_logic, people>>

----------------------------------------------------------------------------
(* Messages from clients *)

(* The client the walk over the list serves next. *)
Serving(fd) ==
  /\ Running /\ pc = "clients"
  /\ fd \in reads
  /\ \E i \in 1 .. Len(clients) :
       /\ clients[i].sock = fd
       /\ \A j \in 1 .. i - 1 : clients[j].sock \notin reads

(* process_client_command() on one message; the loop around it goes on as  *)
(* long as what recv() brought holds another.                              *)
More(fd) ==
  \/ reads' = reads \ {fd}
  \/ Tail(outbox[fd]) # <<>> /\ reads' = reads

Command(fd, code) ==
  /\ Serving(fd)
  /\ outbox[fd] # <<>> /\ get_msg_code(Head(outbox[fd])) = code

(* What recv_str holds after the message was parsed into it. *)
Parsed(fd) == parse_msg_body(Head(outbox[fd]), <<recv_str>>)[1]

NameCommand(fd) ==
  /\ Command(fd, "N_SEND_NAME")
  /\ LET news == ToAll(clients, <<"N_PLAYER_CHANGED_NAME", fd, Parsed(fd)>>)
     IN  \/ /\ Send(news, peer)
            /\ More(fd)
            /\ recv_str' = Parsed(fd)
            /\ clients' = [clients EXCEPT ![FirstPlace(fd)].name = Parsed(fd)]
            /\ outbox' = [outbox EXCEPT ![fd] = Tail(@)]
            /\ enqueued' = <<>>
            /\ UNCHANGED <<client_count, master, pc, from_logic, open, backlog, people>>
         \/ SendKills(news, peer)

WordCommand(fd) ==
  /\ Command(fd, "N_SEND_WORD")
  /\ More(fd)
  /\ recv_str' = Parsed(fd)
  /\ enqueued' = << <<"T_SEND_WORD", fd, Parsed(fd)>> >>
  /\ outbox' = [outbox EXCEPT ![fd] = Tail(@)]
  /\ UNCHANGED <<clients, client_count, master, pc, fault, from_logic,
                 open, backlog, peer, inbox, people>>

(* What follows a MSG_END that was typed. *)
UnknownCommand(fd) ==
  /\ \E letter \in Letters : Command(fd, letter)
  /\ More(fd)
  /\ enqueued' = <<>>
  /\ outbox' = [outbox EXCEPT ![fd] = Tail(@)]
  /\ UNCHANGED <<clients, client_count, master, pc, recv_str, fault, from_logic,
                 open, backlog, peer, inbox, people>>

(* recv() returns -1 once and the status is R_INCOMPLETE. *)
RecvFails(fd) ==
  /\ Serving(fd)
  /\ outbox[fd] = <<>> /\ peer[fd] = "reset"
  /\ peer' = [peer EXCEPT ![fd] = "dead"]
  /\ reads' = reads \ {fd}
  /\ enqueued' = <<>>
  /\ UNCHANGED <<clients, client_count, master, pc, recv_str, fault, from_logic,
                 open, backlog, inbox, outbox, people>>

\* MUTANT: the logic thread is not told of a departure.
NobodyIsTold(fd) == <<>>

LeftMessages(fd) == << <<"T_PLAYER_LEFT", fd>> >>

\* MUTANT: a departure does not make room.
SeatKept == client_count

SeatFreed == client_count - 1

\* MUTANT: the leaver stays in the list.
KeptInList(fd) == clients

remove_client_data(fd) == RemoveAt(clients, FirstPlace(fd))

(* R_DISCONNECTED.  cur is freed before its sock is read again for         *)
(* CLOSESOCKET: what free() left there is half of an address, and the      *)
(* descriptor stays open.  Its next is beyond what free() overwrites.      *)
Disconnect(fd) ==
  /\ Serving(fd)
  /\ outbox[fd] = <<>> /\ peer[fd] \in {"fin", "dead"}
  /\ LET news == ToAllExcept(fd, <<"N_PLAYER_LEFT", fd>>)
     IN  \/ /\ Send(news, peer)
            /\ clients' = remove_client_data(fd)
            /\ client_count' = SeatFreed
            /\ master' = master \ {fd}
            /\ reads' = reads \ {fd}
            /\ enqueued' = LeftMessages(fd)
            /\ UNCHANGED <<pc, recv_str, from_logic, open, backlog, outbox, people>>
         \/ SendKills(news, peer)

ClientsDone ==
  /\ Running /\ pc = "clients"
  /\ reads \cap Socks(clients) = {}
  /\ pc' = "select"
  /\ enqueued' = <<>>
  /\ UNCHANGED <<clients, client_count, master, reads, recv_str, fault, from_logic, kernel, people>>

----------------------------------------------------------------------------
(* The rest of the world *)

Connect ==
  /\ arrivals < MaxArrivals
  /\ arrivals' = arrivals + 1
  /\ backlog' = backlog + 1
  /\ enqueued' = <<>>
  /\ UNCHANGED <<server, fault, from_logic, open, peer, inbox, outbox, client, inputs>>

(* An input is made once: one refusal of a join, one word of a player.     *)
NewInput(input) ==
  /\ input \notin inputs
  /\ Cardinality(inputs) < MaxInputs
  /\ inputs' = inputs \cup {input}

(* The logic thread: a message for everybody, or the refusal of a join.    *)
LogicCommand(msg) ==
  /\ NewInput(msg)
  /\ from_logic' = Append(from_logic, msg)
  /\ enqueued' = <<>>
  /\ UNCHANGED <<server, fault, kernel, client, arrivals>>

(* The client process ends: its socket is closed, with or without messages *)
(* unread.                                                                 *)
Ends(fd, last) ==
  /\ client' = [client EXCEPT ![fd] = last]
  /\ peer' \in {[peer EXCEPT ![fd] = end] :
                  end \in IF inbox[fd] = <<>> THEN {"fin"} ELSE {"fin", "reset", "dead"}}
  /\ inbox' = [inbox EXCEPT ![fd] = <<>>]
  /\ enqueued' = <<>>
  /\ UNCHANGED <<server, fault, from_logic, open, backlog, outbox, arrivals, inputs>>

Goes(fd) == peer[fd] = "up" /\ client[fd].phase \in {"greet", "naming", "main"}

ClientQuits(fd) ==
  /\ Goes(fd)
  /\ Ends(fd, [client[fd] EXCEPT !.phase = "exited"])

(* The client reads one message; it may end of it. *)
ClientReads(fd) ==
  /\ Goes(fd) /\ client[fd].phase \in {"greet", "main"}
  /\ inbox[fd] # <<>>
  /\ LET now == IF client[fd].phase = "greet"
                  THEN greet(client[fd], Head(inbox[fd]))
                  ELSE process_server_command(client[fd], Head(inbox[fd]))
     IN  IF now.phase \in {"exited", "crashed"}
           THEN Ends(fd, now)
           ELSE /\ client' = [client EXCEPT ![fd] = now]
                /\ inbox' = [inbox EXCEPT ![fd] = Tail(@)]
                /\ enqueued' = <<>>
                /\ UNCHANGED <<server, fault, from_logic, open, backlog, peer, outbox,
                               arrivals, inputs>>

ClientNames(fd, name) ==
  /\ Goes(fd) /\ client[fd].phase = "naming"
  /\ client' = [client EXCEPT ![fd].phase = "main"]
  /\ outbox' = [outbox EXCEPT ![fd] = @ \o Framed(create_msg("N_SEND_NAME", <<name>>))]
  /\ enqueued' = <<>>
  /\ UNCHANGED <<server, fault, from_logic, open, backlog, peer, inbox, arrivals, inputs>>

ClientTypes(fd, word) ==
  /\ Goes(fd) /\ client[fd].phase = "main"
  /\ NewInput(<<"N_SEND_WORD", fd, word>>)
  /\ outbox' = [outbox EXCEPT ![fd] = @ \o Framed(create_msg("N_SEND_WORD", <<word>>))]
  /\ enqueued' = <<>>
  /\ UNCHANGED <<server, fault, from_logic, open, backlog, peer, inbox, client, arrivals>>

----------------------------------------------------------------------------
NetworkThread ==
  \/ Select
  \/ SelectFails
  \/ process_thread_command
  \/ ThreadDone
  \/ LetIn
  \/ TurnAway
  \/ \E fd \in Desc : 
       \/ NameCommand(fd) \/ WordCommand(fd) \/ UnknownCommand(fd)
       \/ RecvFails(fd) \/ Disconnect(fd)
  \/ ClientsDone

(* What the kernel and the clients do after the thread has ended is left   *)
(* out.                                                                    *)
World == Running /\ (
  \/ Connect
  \/ LogicCommand(<<"N_GAME">>)
  \/ \E fd \in open \ {STDOUT} : LogicCommand(<<"T_GAME_STARTED_NO_JOINING", fd>>)
  \/ \E fd \in Desc :
       \/ ClientQuits(fd)
       \/ ClientReads(fd)
       \/ \E name \in Name : ClientNames(fd, name)
       \/ \E word \in Word : ClientTypes(fd, word))

Next == NetworkThread \/ World

(* The thread goes on as long as it has something to do. *)
Spec == Init /\ [][Next]_vars /\ WF_vars(NetworkThread)

----------------------------------------------------------------------------
(* Every variable has its type. *)
TypeOK ==
  /\ clients \in Seq([sock : Desc, name : Name \cup {<<>>}])
  /\ client_count \in 0 .. MAX_CLIENT_COUNT
  /\ master \subseteq Desc
  /\ reads \subseteq Desc \cup {READ_PIPE, SOCKET_LISTEN}
  /\ pc \in {"select", "thread", "accept", "clients"}
  /\ recv_str \in Seq(Letters \cup UNION {Range(name) : name \in Name})
  /\ fault \in {"none", "sigpipe", "select_failed"}
  /\ open \subseteq Desc
  /\ backlog \in 0 .. MaxArrivals
  /\ peer \in [Desc -> Peer]
  /\ \A fd \in Desc : client[fd].phase \in Phase
  /\ arrivals \in 0 .. MaxArrivals

(* The count that lets clients in, the list they are served from and the   *)
(* set select() watches are three records of one thing, kept by hand at    *)
(* every accept and departure.  The 1 that stands for an accept() that     *)
(* failed is the exception: it may be listed twice, and at the departure   *)
(* of one of the two nobody watches the other any more.                    *)
SeatsAreCounted ==
  /\ client_count = Len(clients)
  /\ master \subseteq Socks(clients)
  /\ Socks(clients) \ {STDOUT} \subseteq master
  /\ \A i, j \in 1 .. Len(clients) :
       clients[i].sock = clients[j].sock => i = j \/ clients[i].sock = STDOUT

(* A client that has read some messages, in order. *)
CaughtUp(cl, msgs) ==
  LET now[n \in 0 .. Len(msgs)] ==
        IF n = 0 THEN cl ELSE process_server_command(now[n - 1], msgs[n])
  IN  now[Len(msgs)]

(* Whatever order people came, named themselves and left in, a client that *)
(* is listed once and has read all that was sent to it shows the server's  *)
(* list, in the server's order and under the names chosen, and knows its   *)
(* own id.                                                                 *)
Agrees(cl) ==
  /\ [i \in 1 .. Len(cl.players) |-> cl.players[i].id]
       = [i \in 1 .. Len(clients) |-> clients[i].sock]
  /\ \A i \in 1 .. Len(clients) :
       clients[i].name # <<>> => cl.players[i].name = clients[i].name

RostersConverge ==
  \A i \in 1 .. Len(clients) :
    LET fd == clients[i].sock
        unread == IF client[fd].phase = "greet" THEN Tail(inbox[fd]) ELSE inbox[fd]
        caught_up == CaughtUp(client[fd], unread)
    IN  Running /\ peer[fd] = "up" /\ Places(fd) = {i} =>
          Agrees(caught_up) /\ caught_up.my_id = fd

(* No client is sent a departure or a name of somebody it does not know,   *)
(* on which it would read through a null pointer.                          *)
NoClientCrashes == \A fd \in Desc : client[fd].phase # "crashed"

(* The logic thread learns of every client let in and of every departure,  *)
(* one at a time, and of nobody else.                                      *)
LogicTold(ids, msg) ==
  CASE msg[1] = "T_PLAYER_JOIN" -> Append(ids, msg[2])
    [] msg[1] = "T_PLAYER_LEFT" -> RemoveFirst(ids, msg[2])
    [] OTHER -> ids

SockSeq(list) == [i \in 1 .. Len(list) |-> list[i].sock]

LogicCanFollow ==
  [][IF enqueued' = <<>>
       THEN SockSeq(clients') = SockSeq(clients)
       ELSE /\ Len(enqueued') = 1
            /\ SockSeq(clients') = LogicTold(SockSeq(clients), enqueued'[1])]_vars

(* A word that reaches the game under a player's number is one that player *)
(* typed, and was not left in the static recv_str by somebody else: unless *)
(* the player typed a word too long for parse_msg_body(), or one that has  *)
(* a character that ends a value.                                          *)
TypedBy(fd) == {word \in Word : <<"N_SEND_WORD", fd, word>> \in inputs}

WordsAreTheirSenders ==
  [][\A k \in 1 .. Len(enqueued') :
       enqueued'[k][1] = "T_SEND_WORD" =>
         LET typed == TypedBy(enqueued'[k][2])
         IN  enqueued'[k][3] \in typed \/ \E word \in typed : ~Plain(word)]_vars

(* A client that is gone does not stay in the game. *)
LeaversAreForgotten ==
  \A fd \in Fd :
    (fd \in Socks(clients) /\ peer[fd] # "up") ~> (fd \notin Socks(clients) \/ ~Running)

----------------------------------------------------------------------------
(* What the repository says of the program, and the code does not do *)

(* server_networking.c, above remove_client_data(): "Remember to close the *)
(* socket and remove from fd_set after using this function!"               *)
RemovedIsClosed == open \subseteq Socks(clients) \cup {STDOUT}
=============================================================================
