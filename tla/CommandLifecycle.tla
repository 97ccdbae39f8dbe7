--------------------------- MODULE CommandLifecycle ---------------------------
(***************************************************************************)
(* What the command bus promises of a command, without connections, frames *)
(* or memory: the life of its row, of the one start of its handler and of  *)
(* what its submitter is told.  CommandBus implements it.                  *)
(*                                                                         *)
(* The promise has two weak points, both on purpose.  A row may be failed  *)
(* whatever the handler does (Fail): the caller of a failed command learns *)
(* nothing about its effects.  And a row that says completed may still be  *)
(* overwritten by failed, when the worker gave up waiting for the          *)
(* acknowledgement.  Nothing is ever rewritten the other way.              *)
(***************************************************************************)
EXTENDS Naturals

CONSTANT Commands

VARIABLES
  outcome,   \* the row: "none", "pending", "claimed", "completed" or "failed"
  starts,    \* how often the handler was started
  ended,     \* how it ended: "no", "ok" or "error"
  told       \* the waiter: "none", "waiting", "ok", "failed" or "timeout"

vars == <<outcome, starts, ended, told>>

Init ==
  /\ outcome = [c \in Commands |-> "none"]
  /\ starts = [c \in Commands |-> 0]
  /\ ended = [c \in Commands |-> "no"]
  /\ told = [c \in Commands |-> "none"]

(* Submitted with a waiter (invoke) or without one (submit). *)
Submit(c) ==
  /\ outcome[c] = "none"
  /\ outcome' = [outcome EXCEPT ![c] = "pending"]
  /\ \E t \in {"none", "waiting"} : told' = [told EXCEPT ![c] = t]
  /\ UNCHANGED <<starts, ended>>

Claim(c) ==
  /\ outcome[c] = "pending"
  /\ outcome' = [outcome EXCEPT ![c] = "claimed"]
  /\ UNCHANGED <<starts, ended, told>>

(* Once, and only after a claim; a worker that outlives queue-service may  *)
(* still start what the restart has failed.                                *)
Start(c) ==
  /\ outcome[c] \in {"claimed", "failed"}
  /\ starts[c] = 0
  /\ starts' = [starts EXCEPT ![c] = 1]
  /\ UNCHANGED <<outcome, ended, told>>

End(c, how) ==
  /\ starts[c] = 1 /\ ended[c] = "no"
  /\ ended' = [ended EXCEPT ![c] = how]
  /\ UNCHANGED <<outcome, starts, told>>

Told(c, answer) == [told EXCEPT ![c] = IF @ = "waiting" THEN answer ELSE @]

(* Only a handler that returned completes its command. *)
Complete(c) ==
  /\ outcome[c] = "claimed" /\ ended[c] = "ok"
  /\ outcome' = [outcome EXCEPT ![c] = "completed"]
  /\ told' = Told(c, "ok")
  /\ UNCHANGED <<starts, ended>>

Fail(c) ==
  /\ outcome[c] \in {"claimed", "completed", "failed"}
  /\ outcome' = [outcome EXCEPT ![c] = "failed"]
  /\ told' = Told(c, "failed")
  /\ UNCHANGED <<starts, ended>>

(* A waiter gives up after its timeout; all lose a queue-service that stops. *)
Timeout(c) ==
  /\ told' = Told(c, "timeout")
  /\ UNCHANGED <<outcome, starts, ended>>

Lost ==
  /\ told' = [c \in Commands |-> IF told[c] = "waiting" THEN "failed" ELSE told[c]]
  /\ UNCHANGED <<outcome, starts, ended>>

(* A restart fails everything that was claimed, and nothing else. *)
Restart ==
  /\ outcome' = [c \in Commands |-> IF outcome[c] = "claimed" THEN "failed" ELSE outcome[c]]
  /\ UNCHANGED <<starts, ended, told>>

Next ==
  \/ \E c \in Commands :
       \/ Submit(c) \/ Claim(c) \/ Start(c) \/ Complete(c) \/ Fail(c) \/ Timeout(c)
       \/ \E how \in {"ok", "error"} : End(c, how)
  \/ Lost
  \/ Restart

Spec == Init /\ [][Next]_vars
===============================================================================
