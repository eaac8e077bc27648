--------------------------- MODULE MCSocketFraming ---------------------------
(* SocketFraming with a buffer of four bytes and messages of one, two and  *)
(* four: several to a buffer, split between two reads, and just fitting.   *)
EXTENDS SocketFraming

Messages == {"full", "game", "join"}
Sizes == [m \in Messages |-> CASE m = "full" -> 1 [] m = "game" -> 2 [] m = "join" -> 4]
FullRefuses == {"full"}
=============================================================================
