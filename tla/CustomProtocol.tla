---------------------------- MODULE CustomProtocol ----------------------------
(***************************************************************************)
(* public/custom_protocol.c: a message is its code, its values separated   *)
(* by MSG_VAL_SEP, and MSG_END.  Nothing is escaped.  A message and a      *)
(* value are sequences of characters here, since people type the           *)
(* characters that separate and end.  Pure operators.                      *)
(***************************************************************************)
EXTENDS Integers, SequencesExt

CONSTANT ARG_LEN   \* the size of the buffers for one value, 64

MSG_END == "$"
MSG_VAL_SEP == "&"

(* snprintf() into a buffer of ARG_LEN. *)
Truncated(value) == SubSeq(value, 1, Min({Len(value), ARG_LEN - 1}))

(* For one value or two.  No caller's buffer is too small for two values   *)
(* of that length.                                                         *)
create_msg(code, values) ==
  <<code>> \o Truncated(values[1])
    \o (IF Len(values) = 2 THEN <<MSG_VAL_SEP>> \o Truncated(values[2]) ELSE <<>>)
    \o <<MSG_END>>

get_msg_code(msg) == Head(msg)

(* The places of some characters, first to last. *)
PlacesIn(text, chars) ==
  LET places == {j \in 1 .. Len(text) : text[j] \in chars}
  IN  [n \in 1 .. Cardinality(places) |->
         CHOOSE j \in places : Cardinality({i \in places : i < j}) = n - 1]

(* The values of a message, however long. *)
Values(msg) ==
  LET ends == PlacesIn(msg, {MSG_END, MSG_VAL_SEP})
  IN  [i \in 1 .. Len(ends) |->
         SubSeq(msg, (IF i = 1 THEN 1 ELSE ends[i - 1]) + 1, ends[i] - 1)]

\* MUTANT: a value of the longest length that fits is given up on as well.
TooLongByOne(value) == Len(value) > ARG_LEN - 3

(* A value that parse_msg_body() gives up on. *)
TooLong(value) == Len(value) > ARG_LEN - 2

(* parse_msg_body() into variables that hold old: it returns at a value   *)
(* that is too long, and the rest stays as it was.  Nobody sends fewer     *)
(* values than the code has.                                               *)
parse_msg_body(msg, old) ==
  [i \in 1 .. Len(old) |->
     IF \E j \in 1 .. i : TooLong(Values(msg)[j]) THEN old[i] ELSE Values(msg)[i]]

(* What comes out at the other end of a connection: a message ends at its  *)
(* first MSG_END, and what follows is taken for another.                   *)
Framed(text) ==
  LET ends == PlacesIn(text, {MSG_END})
  IN  [i \in 1 .. Len(ends) |->
         SubSeq(text, (IF i = 1 THEN 0 ELSE ends[i - 1]) + 1, ends[i])]

(* A value that comes through as it is. *)
Plain(value) ==
  /\ Len(value) < ARG_LEN - 1
  /\ \A i \in 1 .. Len(value) : value[i] \notin {MSG_END, MSG_VAL_SEP}
=============================================================================
