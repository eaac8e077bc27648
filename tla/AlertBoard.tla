------------------------------ MODULE AlertBoard ------------------------------
(***************************************************************************)
(* What the alerts of a client are for: each is shown for its time and     *)
(* then taken down, the newest on top.  Client implements this             *)
(* specification.                                                          *)
(***************************************************************************)
EXTENDS Integers, SequencesExt

CONSTANTS
  Alert,   \* what an alert may say, and for how long it does
  Frame    \* how long a frame may take

VARIABLE board   \* the alerts shown, newest first

BoardInit == board = <<>>

Raise(alert) == board' = <<alert>> \o board

(* Time goes by, and those whose time is over go. *)
Elapse(time) ==
  LET rest[n \in 0 .. Len(board)] ==
        IF n = 0 THEN <<>>
        ELSE IF board[n].left > time
          THEN Append(rest[n - 1], [board[n] EXCEPT !.left = @ - time])
        ELSE rest[n - 1]
  IN  board' = rest[Len(board)]

BoardNext ==
  \/ \E alert \in Alert : Raise(alert)
  \/ \E time \in Frame : Elapse(time)
=============================================================================
