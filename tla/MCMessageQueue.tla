--------------------------- MODULE MCMessageQueue ---------------------------
(***************************************************************************)
(* MessageQueue for TLC: a ring of four slots, so three messages, which    *)
(* fills, wraps and empties in a few calls, two messages that fit and one  *)
(* that is too large, and the consumer that sleeps in select().            *)
(***************************************************************************)
EXTENDS MessageQueue
=============================================================================
