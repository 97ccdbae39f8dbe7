-------------------------- MODULE MCBackgroundQueues --------------------------
(* A small instance of BackgroundQueues.                                   *)
EXTENDS BackgroundQueues, TLC

CONSTANTS s1, s2, sub, i1

AllSessions == Permutations(Sessions)
===============================================================================
