------------------------------ MODULE MCLobby ------------------------------
(* Instances of Lobby: two channels, or the one that is never parted, and   *)
(* one other user, who is a friend.                                         *)
EXTENDS Lobby

CONSTANTS app, saved, friend, bob, me

MCChannelOrder == <<app, saved>>
MCAppOnly == <<app>>
MCNicks == {bob}
MCFriends == {bob}
=============================================================================
