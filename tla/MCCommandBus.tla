----------------------------- MODULE MCCommandBus -----------------------------
(***************************************************************************)
(* Small instances of CommandBus.  All commands are for the agent worker;  *)
(* which of them are chats differs from run to run.                        *)
(***************************************************************************)
EXTENDS CommandBus

CONSTANTS k1, k2, k3

AllToAgent == [c \in Commands |-> "agent-worker"]

(* One role with two connections, one after the other or overlapping. *)
TwoAgents == [k \in Conns |-> "agent-worker"]

(* One connection of each role. *)
OneEach == [k \in Conns |-> CASE k = k1 -> "agent-worker"
                              [] k = k2 -> "sandbox-worker"
                              [] OTHER -> "local-inference-worker"]
===============================================================================
