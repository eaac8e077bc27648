----------------------------- MODULE MCWordLists -----------------------------
(* WordLists for every file of up to seven characters over two letters, a  *)
(* newline and one carriage return at most, and buffers that some of their *)
(* lines overrun.                                                          *)
EXTENDS WordLists

Letters == <<"a", "b">>
Characters == {"a", "b", "nl", "cr"}
SmallFiles ==
  {file \in UNION {[1 .. n -> Characters] : n \in 0 .. 6} :
     Cardinality({i \in DOMAIN file : file[i] = "cr"}) <= 1}
    \cup [1 .. 7 -> {"a", "b", "nl"}]

(* djb2_hash() is exact below ten letters or so: nothing overflows there,  *)
(* and the remainder is taken as it goes.                                  *)
Djb2(str) ==
  LET Code(char) == CASE char = "a" -> 97 [] char = "b" -> 98 [] OTHER -> 13
      Mix(hash, char) == (hash * 33 + Code(char)) % 30030
  IN  FoldLeft(Mix, 5381, str)
=============================================================================
