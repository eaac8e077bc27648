----------------------------- MODULE ClientView -----------------------------
(***************************************************************************)
(* The clients' picture of the game.  The networking thread relays each    *)
(* message of the logic thread to all clients under the code of the same   *)
(* name, and they redraw the picture from it.  A client learns of the game *)
(* in no other way.                                                        *)
(***************************************************************************)
EXTENDS GameLogic, SequencesExt

C == INSTANCE ClientState

(* process_thread_command() of server_networking.c: the codes it passes on *)
(* to all clients, with the values they came with.  The one other code is  *)
(* for one client.                                                         *)
NetCode ==
  [T_GAME_START |-> "N_GAME_START", T_SEND_REQ_STR |-> "N_SEND_REQ_STR",
   T_TURN_TIME |-> "N_TURN_TIME", T_PLAYER_TURN |-> "N_PLAYER_TURN",
   T_CORRECT_WORD |-> "N_CORRECT_WORD", T_INCORRECT_WORD |-> "N_INCORRECT_WORD",
   T_LOSE_HP |-> "N_LOSE_HP", T_PLAYER_WON |-> "N_PLAYER_WON",
   T_RESTART_GAME |-> "N_RESTART_GAME"]

ForAll(msg) == msg[1] \in DOMAIN NetCode

Relayed(msg) == <<NetCode[msg[1]]>> \o Tail(msg)

(* A client that has seen everything, but for names and its own id.        *)
View ==
  [C!NewClient EXCEPT
     !.phase = "main",
     !.players = [i \in 1 .. Len(players) |->
                    [id |-> players[i].id, name |-> <<>>, hp |-> players[i].hp]],
     !.game_started = game_started,
     !.player_turn = IF player_turn \in 1 .. Len(players)
                       THEN players[player_turn].id ELSE player_turn,
     !.req_substr = required_substr]

Follow(client, msg) ==
  IF ForAll(msg) THEN C!process_server_command(client, Relayed(msg)) ELSE client

(* A client that has read some messages, in order. *)
Followed(client, msgs) ==
  LET after[n \in 0 .. Len(msgs)] ==
        IF n = 0 THEN client ELSE Follow(after[n - 1], msgs[n])
  IN  after[Len(msgs)]

(* The messages a step sends are all that is needed to follow it: applied  *)
(* in order to the picture of the state before, they give the picture of   *)
(* the state after.  Only joins and departures, which the networking       *)
(* thread announces itself, come to a client another way.                  *)
ClientsCanFollow ==
  [][Len(players') = Len(players) => Followed(View, sent') = View']_vars
=============================================================================
