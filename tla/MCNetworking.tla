---------------------------- MODULE MCNetworking ----------------------------
(* Networking with one or two seats and two descriptors for clients, and   *)
(* room for two characters in a value: a word of that length, one that is  *)
(* too long, and one that ends the message.                                *)
EXTENDS Networking

TwoFds == {8, 9}
Ann == {<<"a">>}
ShortWord == {<<"c", "b">>}
AllWords == {<<"c", "b">>, <<"b", "b", "b">>, <<"$", "b">>}
=============================================================================
