----------------------------- MODULE MCAutomations -----------------------------
(* Small instances of Automations for TLC. *)
EXTENDS Automations, TLC

CONSTANTS a1, a2, s1, s2
===============================================================================
