---------------------------- MODULE MCWordParty ----------------------------
(* WordParty with three clients, one heart, and one word that always fits. *)
EXTENDS WordParty

TwoIds == {5, 6}
ThreeIds == {5, 6, 7}
OneSubstr == {"ab"}
OneWord == {"cab"}
CabFitsAb == {<<"cab", "ab">>}
ShortFrames == {1}
=============================================================================
