------------------------------ MODULE GameRules ------------------------------
(***************************************************************************)
(* The game as a player understands it: seats round a table, hearts, and a *)
(* turn that goes round.  The holder of the turn passes it on with a word  *)
(* or loses a heart to the clock; who has no heart left is skipped, and    *)
(* when one player is left everybody is back in the lobby.  No clock,      *)
(* messages, words or pointers.  GameLogic implements this specification.  *)
(***************************************************************************)
EXTENDS Integers, Sequences

CONSTANTS
  Id,       \* players
  MAX_HP,   \* hearts at the start
  Nobody    \* nobody's turn: the game has not started

VARIABLES
  seats,    \* the players in the order they joined
  hearts,   \* hearts of the seated players
  turn      \* whose turn it is

rulesVars == <<seats, hearts, turn>>

Seated == {seats[i] : i \in 1 .. Len(seats)}

(* The players passed on the way round the table from p to q. *)
Seat(p) == CHOOSE i \in 1 .. Len(seats) : seats[i] = p

Passed(p, q) ==
  LET i == Seat(p)
      j == Seat(q)
  IN  {seats[k] : k \in IF i < j THEN i + 1 .. j - 1
                                 ELSE (i + 1 .. Len(seats)) \cup (1 .. j - 1)}

(* The turn goes from p to the next player who has hearts in h. *)
GoesTo(p, q, h) ==
  /\ q \in Seated \ {p}
  /\ h[q] > 0
  /\ \A r \in Passed(p, q) : h[r] = 0

RulesInit ==
  /\ seats = <<>>
  /\ hearts = <<>>
  /\ turn = Nobody

(* The table is open only between games. *)
Sit(p) ==
  /\ turn = Nobody
  /\ p \notin Seated
  /\ seats' = Append(seats, p)
  /\ hearts' = [q \in Seated \cup {p} |-> IF q = p THEN MAX_HP ELSE hearts[q]]
  /\ UNCHANGED turn

(* Anyone may leave between games; during a game, anyone whose turn it is  *)
(* not, while enough players stay to go on.                                *)
Leave(p) ==
  /\ p \in Seated
  /\ p # turn
  /\ turn # Nobody => \E q \in Seated \ {p, turn} : hearts[q] > 0
  /\ seats' = [i \in 1 .. Len(seats) - 1 |-> seats[IF i < Seat(p) THEN i ELSE i + 1]]
  /\ hearts' = [q \in Seated \ {p} |-> hearts[q]]
  /\ UNCHANGED turn

Begin ==
  /\ turn = Nobody
  /\ Len(seats) > 1
  /\ turn' = seats[1]
  /\ UNCHANGED <<seats, hearts>>

Pass ==
  /\ turn # Nobody
  /\ GoesTo(turn, turn', hearts)
  /\ UNCHANGED <<seats, hearts>>

(* The clock runs out on the holder of the turn. *)
LoseHeart ==
  /\ turn # Nobody
  /\ LET left == [hearts EXCEPT ![turn] = @ - 1]
         alive == {q \in Seated : left[q] > 0}
     IN  \/ /\ \E p, q \in alive : p # q
            /\ hearts' = left
            /\ GoesTo(turn, turn', left)
         \/ /\ \E p \in alive : alive = {p}
            /\ hearts' = [q \in Seated |-> MAX_HP]
            /\ turn' = Nobody
  /\ UNCHANGED seats

RulesNext ==
  \/ \E p \in Id : Sit(p) \/ Leave(p)
  \/ Begin
  \/ Pass
  \/ LoseHeart

RulesSpec == RulesInit /\ [][RulesNext]_rulesVars
=============================================================================
