----------------------------- MODULE MCChatTurn -----------------------------
(* A small instance of ChatTurn for TLC.                                      *)
EXTENDS ChatTurn, TLC

CONSTANTS j1, j2, c1

\* Two chats of one conversation: a second message sent while the first is answered.
BothOfOne == j1 :> c1 @@ j2 :> c1
=============================================================================
