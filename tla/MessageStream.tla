---------------------------- MODULE MessageStream ----------------------------
(***************************************************************************)
(* What one direction of a connection promises its two programs: messages  *)
(* are handed to the reader once, whole, in the order they were sent, and  *)
(* the reader is told that the peer is gone only after the last of them.   *)
(* Closing may cut off the messages still on their way, from some point on.*)
(***************************************************************************)
EXTENDS Naturals, Sequences

CONSTANTS Message, NoMessage

VARIABLES
  unread,     \* messages sent and not handed out
  delivered,  \* the last one handed out
  closed,
  reported    \* whether the reader was told so

streamVars == <<unread, delivered, closed, reported>>

StreamInit ==
  /\ unread = <<>>
  /\ delivered = NoMessage
  /\ closed = FALSE
  /\ reported = FALSE

Offer(m) ==
  /\ ~closed
  /\ unread' = Append(unread, m)
  /\ UNCHANGED <<delivered, closed, reported>>

Deliver ==
  /\ unread # <<>>
  /\ delivered' = Head(unread)
  /\ unread' = Tail(unread)
  /\ UNCHANGED <<closed, reported>>

Close ==
  /\ ~closed
  /\ closed' = TRUE
  /\ unread' \in {SubSeq(unread, 1, n) : n \in 0 .. Len(unread)}
  /\ UNCHANGED <<delivered, reported>>

Report ==
  /\ closed
  /\ unread = <<>>
  /\ reported' = TRUE
  /\ UNCHANGED <<unread, delivered, closed>>

StreamNext ==
  \/ \E m \in Message : Offer(m)
  \/ Deliver
  \/ Close
  \/ Report

StreamSpec == StreamInit /\ [][StreamNext]_streamVars
=============================================================================
