------------------------------ MODULE GameLogic ------------------------------
(***************************************************************************)
(* server/server_logic.c, run once per frame by the loop of server_main.c: *)
(* the game's rules, its clock and its list of players.  A frame reads one *)
(* line of the terminal, handles every message the networking thread has   *)
(* queued, and lets the clock run.  A message handled, a line read and the *)
(* clock are one action each: nothing else touches this thread's state.    *)
(***************************************************************************)
EXTENDS Integers, Sequences, FiniteSets

CONSTANTS
  Id,              \* client sockets, which are the players' ids
  MAX_HP,
  MAX_TURN_TIMER,  \* in ticks, the unit of the model's clock
  MAX_SEND_TIMER,
  DeltaTime,       \* ticks a frame may last
  Substr,          \* substrings get_random_required_substr() may return
  Word,            \* words a client may send
  Valid,           \* the pairs word_is_valid() accepts
  AnyDeparture     \* FALSE: a player leaves a running game only when it is
                   \* not his turn and two players with hearts stay

ASSUME GameAssumption ==
  /\ Id \subseteq Nat
  /\ MAX_HP \in Nat \ {0}
  /\ MAX_TURN_TIMER \in Nat \ {0}
  /\ MAX_SEND_TIMER \in Nat
  /\ DeltaTime \subseteq Nat
  /\ Substr # {}
  /\ Valid \subseteq Word \X Substr
  /\ AnyDeparture \in BOOLEAN

VARIABLES
  players,           \* the list, in joining order: records of id and hp
  player_turn,       \* the place in players of whose turn it is, NULL or FREED
  game_started,
  start_turn_timer,
  turn_timer,
  send_time_timer,
  required_substr,
  step,              \* where game_update() stands in its frame
  fault,             \* why the process died, if it did
  sent,              \* what the last action gave to message_enqueue()
  connected,         \* external: clients whose T_PLAYER_JOIN was handled
  told               \* external: those that may have received N_GAME_START

playing == <<players, player_turn, game_started, required_substr>>
clocks == <<start_turn_timer, turn_timer, send_time_timer>>
clients == <<connected, told>>
vars == <<playing, clocks, step, fault, sent, clients>>

(* player_turn as a null pointer, and as a pointer to memory that          *)
(* delete_player_data() has freed.                                         *)
NULL == 0
FREED == -1

NoSubstr == "none"

Init ==
  /\ players = <<>>
  /\ player_turn = NULL
  /\ game_started = FALSE
  /\ start_turn_timer = MAX_TURN_TIMER
  /\ turn_timer = 0
  /\ send_time_timer = 0
  /\ required_substr = NoSubstr
  /\ step = "terminal"
  /\ fault = "none"
  /\ sent = <<>>
  /\ connected = {}
  /\ told = {}

----------------------------------------------------------------------------
(* Helpers over a list of players *)

AlivePlaces(list) == {i \in 1 .. Len(list) : list[i].hp > 0}

\* MUTANT: the count forgets to look at the hearts.
EveryoneCounts(list) == Len(list)

get_alive_player_count(list) == Cardinality(AlivePlaces(list))

PlaceOf(list, id) == {i \in 1 .. Len(list) : list[i].id = id}

(* The place k steps after place i, going round the list. *)
After(list, i, k) == ((i - 1 + k) % Len(list)) + 1

(* The walk of get_next_alive_player() ends at the first place with hearts *)
(* or back at the player it started from, whose hearts do not count.       *)
WalkEnds(list, i) ==
  {k \in 1 .. Len(list) : \/ list[After(list, i, k)].hp > 0
                          \/ list[After(list, i, k)].id = list[i].id}

\* MUTANT: the walk does not skip the players without hearts.
NextInList(list, i) ==
  IF Len(list) = 1 THEN NULL ELSE After(list, i, 1)

get_next_alive_player(list, i) ==
  LET k == CHOOSE k \in WalkEnds(list, i) : \A j \in WalkEnds(list, i) : k <= j
  IN  IF list[After(list, i, k)].id = list[i].id THEN NULL ELSE After(list, i, k)

\* MUTANT: the clock costs no heart.
NoHeartLost(list, i) == list

lose_hp(list, i) == [list EXCEPT ![i].hp = @ - 1]

\* MUTANT: only those still in the game get their hearts back.
AliveGetHearts(list) ==
  [i \in 1 .. Len(list) |->
     IF list[i].hp > 0 THEN [list[i] EXCEPT !.hp = MAX_HP] ELSE list[i]]

(* The loop of game_restart() over the list. *)
AllHearts(list) == [i \in 1 .. Len(list) |-> [list[i] EXCEPT !.hp = MAX_HP]]

(* start_turn_timer *= 0.95: shorter, and never zero. *)
Shorten(t) == IF (t * 95) \div 100 > 1 THEN (t * 95) \div 100 ELSE 1

(* Who gets the turn in next_turn() when the list has become this one; the *)
(* list is never empty there.                                              *)
NextHolder(list) ==
  IF player_turn = NULL THEN 1 ELSE get_next_alive_player(list, player_turn)

\* MUTANT: the new turn is not announced.
TurnUnannounced(list, substr) ==
  << <<"T_SEND_REQ_STR", substr>>, <<"T_TURN_TIME", turn_timer>> >>

(* The three messages of next_turn(), sent before it sets turn_timer. *)
TurnMessages(list, substr) ==
  << <<"T_SEND_REQ_STR", substr>>,
     <<"T_PLAYER_TURN", list[NextHolder(list)].id>>,
     <<"T_TURN_TIME", turn_timer>> >>

----------------------------------------------------------------------------
(* The process reads through a pointer that points to no player. *)
Die(why) ==
  /\ fault' = why
  /\ sent' = <<>>
  /\ UNCHANGED <<playing, clocks, step, clients>>

(* next_turn(true), which ends a turn at no cost, between the messages its *)
(* caller sends before and after it.                                       *)
PassTurn(before, after) ==
  IF NextHolder(players) = NULL
    THEN Die("no_next_player")
    ELSE /\ player_turn' = NextHolder(players)
         /\ start_turn_timer' = Shorten(start_turn_timer)
         /\ turn_timer' = Shorten(start_turn_timer)
         /\ \E substr \in Substr :
              /\ required_substr' = substr
              /\ sent' = before \o TurnMessages(players, substr) \o after
         /\ UNCHANGED <<players, send_time_timer, fault, connected>>

----------------------------------------------------------------------------
(* The terminal: at most one line a frame *)

NoLine ==
  /\ step = "terminal" /\ fault = "none"
  /\ step' = "messages"
  /\ sent' = <<>>
  /\ UNCHANGED <<playing, clocks, fault, clients>>

StartRefused ==
  /\ step = "terminal" /\ fault = "none"
  /\ get_alive_player_count(players) < 2
  /\ step' = "messages"
  /\ sent' = <<>>
  /\ UNCHANGED <<playing, clocks, fault, clients>>

\* MUTANT: the game is announced before its first turn.
StartAnnouncedFirst ==
  /\ step = "terminal" /\ fault = "none"
  /\ get_alive_player_count(players) >= 2
  /\ player_turn # FREED
  /\ game_started' = TRUE
  /\ step' = "messages"
  /\ told' = connected
  /\ PassTurn(<< <<"T_GAME_START">> >>, <<>>)

(* "start", which is obeyed while a game is running too. *)
Start ==
  /\ step = "terminal" /\ fault = "none"
  /\ get_alive_player_count(players) >= 2
  /\ player_turn # FREED
  /\ game_started' = TRUE
  /\ step' = "messages"
  /\ told' = connected
  /\ PassTurn(<<>>, << <<"T_GAME_START">> >>)

StartThroughFreed ==
  /\ step = "terminal" /\ fault = "none"
  /\ get_alive_player_count(players) >= 2
  /\ player_turn = FREED
  /\ Die("freed_player")

----------------------------------------------------------------------------
(* Messages from the networking thread *)

(* T_PLAYER_JOIN.  A client accepted before the networking thread relays   *)
(* N_GAME_START receives it even if its join is handled after the start,   *)
(* or after the end.                                                       *)
Join(id) ==
  /\ step = "messages" /\ fault = "none"
  /\ id \notin connected
  /\ ~game_started
  /\ players' = Append(players, [id |-> id, hp |-> MAX_HP])
  /\ sent' = <<>>
  /\ connected' = connected \cup {id}
  /\ told' \in {told, told \cup {id}}
  /\ UNCHANGED <<player_turn, game_started, required_substr, clocks, step, fault>>

\* MUTANT: who comes too late is not told.
JoinIgnored(id) ==
  /\ step = "messages" /\ fault = "none"
  /\ id \notin connected
  /\ game_started
  /\ sent' = <<>>
  /\ connected' = connected \cup {id}
  /\ told' \in {told, told \cup {id}}
  /\ UNCHANGED <<playing, clocks, step, fault>>

JoinRefused(id) ==
  /\ step = "messages" /\ fault = "none"
  /\ id \notin connected
  /\ game_started
  /\ sent' = << <<"T_GAME_STARTED_NO_JOINING", id>> >>
  /\ connected' = connected \cup {id}
  /\ told' \in {told, told \cup {id}}
  /\ UNCHANGED <<playing, clocks, step, fault>>

(* The environment's side of a departure: see AnyDeparture. *)
MayLeave(id) ==
  \/ AnyDeparture
  \/ ~game_started
  \/ PlaceOf(players, id) = {}
  \/ /\ player_turn \notin PlaceOf(players, id)
     /\ Cardinality(AlivePlaces(players) \ PlaceOf(players, id)) >= 2

\* MUTANT: the turn stays at its place in the list, not with its player.
TurnKeepsPlace(place) == IF player_turn = place THEN FREED ELSE player_turn

(* delete_player_data() unlinks and frees the player; player_turn goes on  *)
(* pointing to the same memory.                                            *)
TurnAfterDelete(place) ==
  CASE player_turn > place -> player_turn - 1
    [] player_turn = place -> FREED
    [] OTHER -> player_turn

DeleteAt(list, place) ==
  [i \in 1 .. Len(list) - 1 |-> IF i < place THEN list[i] ELSE list[i + 1]]

(* T_PLAYER_LEFT; a client whose join was refused is not in the list. *)
Left(id) ==
  /\ step = "messages" /\ fault = "none"
  /\ id \in connected
  /\ MayLeave(id)
  /\ IF PlaceOf(players, id) = {}
       THEN UNCHANGED <<players, player_turn>>
       ELSE \E place \in PlaceOf(players, id) :
              /\ players' = DeleteAt(players, place)
              /\ player_turn' = TurnAfterDelete(place)
  /\ sent' = <<>>
  /\ connected' = connected \ {id}
  /\ told' = told \ {id}
  /\ UNCHANGED <<game_started, required_substr, clocks, step, fault>>

(* T_SEND_WORD.  A client sends words as soon as it is told of the start,  *)
(* and until it reads N_RESTART_GAME, which the server does not know.      *)
CanSend(id) == step = "messages" /\ fault = "none" /\ id \in told

WordWithoutTurn(id) ==
  /\ CanSend(id)
  /\ player_turn = NULL
  /\ Die("null_turn")

(* Also when player_turn is FREED: free() leaves its own bookkeeping where *)
(* the id was, half of an address, which is no socket's number.            *)
WordOutOfTurn(id) ==
  /\ CanSend(id)
  /\ player_turn # NULL
  /\ player_turn \notin PlaceOf(players, id)
  /\ sent' = <<>>
  /\ UNCHANGED <<playing, clocks, step, fault, clients>>

\* MUTANT: a wrong word starts the turn's clock again.
WordWrongRestartsClock(id, word) ==
  /\ CanSend(id)
  /\ player_turn \in PlaceOf(players, id)
  /\ <<word, required_substr>> \notin Valid
  /\ sent' = << <<"T_INCORRECT_WORD", id>> >>
  /\ turn_timer' = start_turn_timer
  /\ UNCHANGED <<playing, start_turn_timer, send_time_timer, step, fault, clients>>

WordWrong(id, word) ==
  /\ CanSend(id)
  /\ player_turn \in PlaceOf(players, id)
  /\ <<word, required_substr>> \notin Valid
  /\ sent' = << <<"T_INCORRECT_WORD", id>> >>
  /\ UNCHANGED <<playing, clocks, step, fault, clients>>

WordRight(id, word) ==
  /\ CanSend(id)
  /\ player_turn \in PlaceOf(players, id)
  /\ <<word, required_substr>> \in Valid
  /\ PassTurn(<< <<"T_CORRECT_WORD", id, word>> >>, <<>>)
  /\ UNCHANGED <<game_started, step, told>>

(* message_dequeue() found the queue empty. *)
NoMoreMessages ==
  /\ step = "messages" /\ fault = "none"
  /\ step' = "clock"
  /\ sent' = <<>>
  /\ UNCHANGED <<playing, clocks, fault, clients>>

----------------------------------------------------------------------------
(* The clock *)

Lobby ==
  /\ step = "clock" /\ fault = "none"
  /\ ~game_started
  /\ step' = "terminal"
  /\ sent' = <<>>
  /\ UNCHANGED <<playing, clocks, fault, clients>>

(* The end of a frame of the game: every MAX_SEND_TIMER the time left goes *)
(* to the clients, after the frame's other messages.                       *)
EndFrame(messages, deltatime) ==
  /\ step' = "terminal"
  /\ send_time_timer' = IF send_time_timer <= 0 THEN MAX_SEND_TIMER
                                                ELSE send_time_timer - deltatime
  /\ sent' = IF send_time_timer <= 0
               THEN Append(messages, <<"T_TURN_TIME", turn_timer'>>)
               ELSE messages
  /\ UNCHANGED <<fault, clients>>

Countdown(deltatime) ==
  /\ step = "clock" /\ fault = "none"
  /\ game_started
  /\ turn_timer > 0
  /\ turn_timer' = turn_timer - deltatime
  /\ EndFrame(<<>>, deltatime)
  /\ UNCHANGED <<playing, start_turn_timer>>

(* next_turn(false) and, if it leaves one player with hearts,              *)
(* game_restart().                                                         *)
TimeOut(deltatime) ==
  /\ step = "clock" /\ fault = "none"
  /\ game_started
  /\ turn_timer <= 0
  /\ player_turn # FREED
  /\ LET list == lose_hp(players, player_turn)
         holder == NextHolder(list)
         lost == << <<"T_LOSE_HP", list[player_turn].id>> >>
     IN  IF holder = NULL
           THEN Die("no_next_player")
           ELSE \E substr \in Substr :
                  /\ required_substr' = substr
                  /\ start_turn_timer' = MAX_TURN_TIMER
                  /\ IF get_alive_player_count(list) = 1
                       THEN /\ players' = AllHearts(list)
                            /\ player_turn' = NULL
                            /\ game_started' = FALSE
                            /\ turn_timer' = 0
                            /\ EndFrame(lost \o TurnMessages(list, substr)
                                          \o << <<"T_PLAYER_WON", list[holder].id>>,
                                                <<"T_RESTART_GAME">> >>, deltatime)
                       ELSE /\ players' = list
                            /\ player_turn' = holder
                            /\ turn_timer' = MAX_TURN_TIMER
                            /\ EndFrame(lost \o TurnMessages(list, substr), deltatime)
                            /\ UNCHANGED game_started

TimeOutThroughFreed ==
  /\ step = "clock" /\ fault = "none"
  /\ game_started
  /\ turn_timer <= 0
  /\ player_turn = FREED
  /\ Die("freed_player")

----------------------------------------------------------------------------
Terminal == NoLine \/ StartRefused \/ Start \/ StartThroughFreed

Message ==
  \/ \E id \in Id :
       \/ Join(id)
       \/ JoinRefused(id)
       \/ Left(id)
       \/ WordWithoutTurn(id)
       \/ WordOutOfTurn(id)
       \/ \E word \in Word : WordWrong(id, word) \/ WordRight(id, word)

Clock ==
  \/ Lobby
  \/ \E deltatime \in DeltaTime : Countdown(deltatime) \/ TimeOut(deltatime)
  \/ TimeOutThroughFreed

(* The process is gone. *)
Dead == fault # "none" /\ UNCHANGED vars

Next == Terminal \/ Message \/ NoMoreMessages \/ Clock \/ Dead

(* Frames keep coming, and the messages of one frame come to an end: eight *)
(* clients cannot keep the queue filled for ever.                          *)
Fairness == WF_vars(Terminal) /\ WF_vars(NoMoreMessages) /\ WF_vars(Clock)

Spec == Init /\ [][Next]_vars /\ Fairness

----------------------------------------------------------------------------
(* Every variable has its type. *)
TypeOK ==
  /\ players \in Seq([id : Id, hp : 0 .. MAX_HP])
  /\ player_turn \in 1 .. Len(players) \cup {NULL, FREED}
  /\ game_started \in BOOLEAN
  /\ start_turn_timer \in 1 .. MAX_TURN_TIMER
  /\ turn_timer \in Int /\ turn_timer <= MAX_TURN_TIMER
  /\ send_time_timer \in Int /\ send_time_timer <= MAX_SEND_TIMER
  /\ required_substr \in Substr \cup {NoSubstr}
  /\ step \in {"terminal", "messages", "clock"}
  /\ fault \in {"none", "null_turn", "no_next_player", "freed_player"}
  /\ connected \subseteq Id
  /\ told \subseteq connected

(* While a game runs the turn is with a player in the list who has hearts, *)
(* whoever joins, leaves, is timed out or answers, and in whatever order:  *)
(* player_turn outlives every change of the list but the departure of the  *)
(* player it points to.                                                    *)
TurnHolderAlive ==
  game_started => player_turn \in AlivePlaces(players) \cup {FREED}

(* Between games nothing is left of the last one: every player, a loser    *)
(* and a late joiner alike, has all hearts, it is nobody's turn and the    *)
(* clock is at its start.                                                  *)
LobbyIsFresh ==
  ~game_started =>
    /\ player_turn = NULL
    /\ \A i \in 1 .. Len(players) : players[i].hp = MAX_HP
    /\ start_turn_timer = MAX_TURN_TIMER
    /\ turn_timer = 0

(* When nobody leaves a game at the wrong moment, next_turn() always finds *)
(* a player, and the only thing that can stop the server is a word that    *)
(* arrives when it is nobody's turn.                                       *)
OnlyLateWordsStop == ~AnyDeparture => fault \in {"none", "null_turn"}

(* As long as a game goes on, the one thing that changes a player's hearts *)
(* is his own turn running out of time, which costs him exactly one.       *)
HeartsMove ==
  [][game_started /\ game_started' /\ fault' = "none" =>
       \A i \in 1 .. Len(players), j \in 1 .. Len(players') :
         players[i].id = players'[j].id =>
           players'[j].hp = IF step = "clock" /\ turn_timer <= 0 /\ player_turn = i
                              THEN players[i].hp - 1 ELSE players[i].hp]_vars

(* The logic thread plays the game of GameRules, its turns and its hearts, *)
(* as long as nobody leaves a game at the wrong moment.                    *)
Seats == [i \in 1 .. Len(players) |-> players[i].id]

Hearts ==
  [id \in {players[i].id : i \in 1 .. Len(players)} |->
     players[CHOOSE i \in PlaceOf(players, id) : TRUE].hp]

Turn == IF player_turn \in 1 .. Len(players) THEN players[player_turn].id ELSE FREED

Rules ==
  INSTANCE GameRules
    WITH seats <- Seats, hearts <- Hearts, turn <- Turn, Nobody <- FREED
PlaysByTheRules == Rules!RulesSpec

HasTurn(id) == player_turn \in PlaceOf(players, id)

(* No player keeps the turn for ever, whatever he and the others send: the *)
(* clock runs out, or he answers.                                          *)
TurnEnds == \A id \in Id : HasTurn(id) ~> (~HasTurn(id) \/ fault # "none")

(* A game is decided once the players find no more words and the operator  *)
(* stops typing "start".                                                   *)
TurnPassed == Start \/ \E id \in Id, word \in Word : WordRight(id, word)

GameDecided ==
  <>[][~TurnPassed]_vars => (game_started ~> (~game_started \/ fault # "none"))

----------------------------------------------------------------------------
(* What the repository says of the program, and the code does not do *)

(* server_logic.c: a word out of turn is answered with "cannot send word   *)
(* right now", and nothing else happens.                                   *)
WordOutOfTurnIsHarmless == fault # "null_turn"

(* README.md: "The last player standing is the winner!"                    *)
LastStandingWins ==
  \A id \in Id :
    (game_started /\ {players[i].id : i \in AlivePlaces(players)} = {id})
      ~> (\E k \in 1 .. Len(sent) : sent[k] = <<"T_PLAYER_WON", id>>)
=============================================================================
