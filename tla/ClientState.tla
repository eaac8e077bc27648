----------------------------- MODULE ClientState -----------------------------
(***************************************************************************)
(* What a client (client/client.c) keeps of the game: its list of players, *)
(* in the order in which they joined, its own id, and whose turn it is.    *)
(* Pure operators: a client is a record, a message takes it to another.    *)
(***************************************************************************)
EXTENDS Integers, SequencesExt

CONSTANT MAX_HP   \* the same number in client.c and in server_logic.c

(* "greet": waiting for the first message; "naming": at the name prompt,   *)
(* reading nothing; "main": in the main loop; "exited": it ended itself;   *)
(* "crashed": it read through a null pointer.                              *)
Phase == {"greet", "naming", "main", "exited", "crashed"}

(* player_turn as a null pointer, and as a pointer to a freed player; any  *)
(* other is given by the player's id.                                      *)
NoTurn == 0
FreedTurn == -1

NewClient ==
  [phase |-> "greet", players |-> <<>>, my_id |-> 0, game_started |-> FALSE,
   player_turn |-> NoTurn, req_substr |-> "none"]

Crashed(client) == [client EXCEPT !.phase = "crashed"]

IdPlaces(client, id) ==
  {i \in 1 .. Len(client.players) : client.players[i].id = id}

(* get_player_from_id(): the first of that id, if there is one. *)
Known(client, id) == IdPlaces(client, id) # {}

FirstOf(client, id) ==
  CHOOSE i \in IdPlaces(client, id) : \A j \in IdPlaces(client, id) : i <= j

new_player(id, name) == [id |-> id, name |-> name, hp |-> MAX_HP]

create_player(client, id, name) ==
  [client EXCEPT !.players = Append(@, new_player(id, name))]

(* Looking for a player who is not in the list runs off its end. *)
remove_player(client, id) ==
  IF ~Known(client, id) THEN Crashed(client)
  ELSE [client EXCEPT !.players = RemoveAt(@, FirstOf(client, id)),
                      !.player_turn = IF @ = id THEN FreedTurn ELSE @]

change_name(client, id, name) ==
  IF ~Known(client, id) THEN Crashed(client)
  ELSE [client EXCEPT !.players[FirstOf(client, id)].name = name]

lose_heart(client, id) ==
  IF ~Known(client, id) THEN Crashed(client)
  ELSE [client EXCEPT !.players[FirstOf(client, id)].hp = @ - 1]

(* Alerts that name a player; an alert is otherwise none of this module's. *)
naming_alert(client, id) == IF Known(client, id) THEN client ELSE Crashed(client)

\* MUTANT: the client does not give hearts back between games.
RestartKeepsHearts(client) ==
  [client EXCEPT !.game_started = FALSE, !.player_turn = NoTurn]

restart_game(client) ==
  [client EXCEPT !.game_started = FALSE,
                 !.player_turn = NoTurn,
                 !.players = [i \in 1 .. Len(@) |-> [@[i] EXCEPT !.hp = MAX_HP]]]

process_server_command(client, msg) ==
  CASE msg[1] = "N_SEND_REQ_STR" -> [client EXCEPT !.req_substr = msg[2]]
    [] msg[1] = "N_CORRECT_WORD" ->
         IF msg[2] = client.my_id THEN client ELSE naming_alert(client, msg[2])
    [] msg[1] = "N_PLAYER_JOIN" -> create_player(client, msg[2], msg[3])
    [] msg[1] = "N_PLAYER_LEFT" -> remove_player(client, msg[2])
    [] msg[1] = "N_PLAYER_CHANGED_NAME" -> change_name(client, msg[2], msg[3])
    [] msg[1] = "N_GAME_START" -> [client EXCEPT !.game_started = TRUE]
    [] msg[1] = "N_PLAYER_TURN" ->
         [client EXCEPT !.player_turn = IF Known(client, msg[2]) THEN msg[2] ELSE NoTurn]
    [] msg[1] = "N_SEND_ID" -> [client EXCEPT !.my_id = msg[2]]
    [] msg[1] = "N_LOSE_HP" -> lose_heart(client, msg[2])
    [] msg[1] = "N_PLAYER_WON" -> naming_alert(client, msg[2])
    [] msg[1] = "N_RESTART_GAME" -> restart_game(client)
    [] msg[1] = "N_GAME_STARTED_NO_JOINING" -> [client EXCEPT !.phase = "exited"]
    [] OTHER -> client

(* The screen of a running game says whose turn it is.  Of a player who is *)
(* gone it shows what free() left of the name.                             *)
display_ui(client) ==
  IF client.game_started /\ client.player_turn = NoTurn THEN Crashed(client) ELSE client

(* The first message decides whether the client asks for a name or ends.   *)
greet(client, msg) ==
  [client EXCEPT !.phase = IF msg[1] = "N_GAME_FULL" THEN "exited" ELSE "naming"]
=============================================================================
