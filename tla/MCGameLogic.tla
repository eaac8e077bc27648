---------------------------- MODULE MCGameLogic ----------------------------
(* GameLogic with two or three players, two substrings, and one word that  *)
(* is right for one of them.                                               *)
EXTENDS ClientView

TwoIds == {5, 6}
ThreeIds == {5, 6, 7}
OneSubstr == {"ab"}
TwoSubstrs == {"ab", "xy"}
OneWord == {"cab"}
CabFitsAb == {<<"cab", "ab">>}
NothingFits == {}
ShortFrames == {1}
UnevenFrames == {1, 2}
=============================================================================
