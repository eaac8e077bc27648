------------------------------ MODULE MCClient ------------------------------
(* Client with one letter and the one that ends a message, a heap that     *)
(* keeps two freed alerts at hand, and room for three.                     *)
EXTENDS Client

Letters == {"a", "$"}
Messages ==
  {<<"N_PLAYER_TURN", 1>>, <<"N_GAME_START">>, <<"N_RESTART_GAME">>,
   <<"N_INCORRECT_WORD", 1>>, <<"N_PLAYER_WON", 2>>}
OneTick == {1}
=============================================================================
