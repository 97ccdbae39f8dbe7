---------------------------- MODULE PermissionGate ----------------------------
(* One turn of an agent whose tool calls need the user's approval.  The agent      *)
(* process asks by a row of permission_requests and polls it; the web process      *)
(* answers, or lets it expire; both write the row of the turn's task, each by      *)
(* reading it first and writing it whole afterwards (SqliteTaskStore.update), and  *)
(* nothing but SQLite's single statements is atomic between the two.  Each process *)
(* is one JavaScript thread: while an update of it is under way nothing else of it *)
(* runs.  Definitions X_y are faulty variants of X.                                *)
EXTENDS FiniteSets, Naturals

CONSTANTS
    Calls,      \* the calls of tools in the turn; each makes at most one request
    Keys,       \* guard keys: capability, working directory and command
    KeyOf       \* [Calls -> Keys]

ASSUME PermissionAssumption == KeyOf \in [Calls -> Keys]

Decisions == {"allowed", "denied"}
Verdicts == Decisions \cup {"timed_out"}
Open == {"running", "paused_approval"}
Ends == {"completed", "failed", "cancelled"}
NoUpdate == "none"

VARIABLES
    up,         \* the agent process runs
    row,        \* [Calls -> status of its permission request]
    old,        \* the requests made more than PERMISSION_REQUEST_TIMEOUT_MS ago
    rules,      \* the guard keys that the capability policy allows
    remembered, \* [Keys -> ctx.systemPermissionDecisions]
    gate,       \* [Calls -> where requireToolPermission is]
    verdict,    \* [Calls -> what waitForDecision returned]
    ended,      \* the turn is over
    taskStatus, \* status of the task
    agentUpdate,\* the status the agent's update is about to write
    webUpdate,  \* ... and that of the web's
    asking,     \* [Calls -> the decision respondSystemPermission is about to make]
    told        \* [Calls -> the status it returned to the user]

agentVars == <<up, remembered, gate, verdict, ended>>
requestVars == <<row, old, rules>>
taskVars == <<taskStatus, agentUpdate, webUpdate>>
webVars == <<asking, told>>
gateVars == <<agentVars, requestVars, taskVars, webVars>>

GateInit ==
    /\ up = TRUE /\ ended = FALSE
    /\ row = [c \in Calls |-> "none"] /\ old = {} /\ rules = {}
    /\ remembered = [k \in Keys |-> "none"]
    /\ gate = [c \in Calls |-> "uncalled"]
    /\ verdict = [c \in Calls |-> "none"]
    /\ taskStatus = "running" /\ agentUpdate = NoUpdate /\ webUpdate = NoUpdate
    /\ asking = [c \in Calls |-> "none"] /\ told = [c \in Calls |-> "none"]

-----------------------------------------------------------------------------
(* The rows both processes write.                                            *)

Decided_always(rows, c, decision) == [rows EXCEPT ![c] = decision]

\* decidePermissionRequest: UPDATE ... WHERE status = 'pending', then the row is read back.
Decided(rows, c, decision) ==
    [rows EXCEPT ![c] = IF rows[c] = "pending" THEN decision ELSE rows[c]]

\* What SqliteTaskStore.update writes after it has read status: nothing over an end.
ToWrite(status, patch) == IF status \in Ends /\ patch # status THEN NoUpdate ELSE patch

-----------------------------------------------------------------------------
(* The agent.                                                                *)

AgentFree == up /\ agentUpdate = NoUpdate

\* A call whose key the policy allows goes through without a request.
CallAllowedByRule(c) ==
    /\ AgentFree /\ ~ended /\ gate[c] = "uncalled"
    /\ KeyOf[c] \in rules
    /\ gate' = [gate EXCEPT ![c] = "ran"]
    /\ UNCHANGED <<up, remembered, verdict, ended, requestVars, taskVars, webVars>>

CanPrompt_pendingToo(k) == remembered[k] \in {"none", "allowed", "pending"}

\* assertPermissionCanPrompt
CanPrompt(k) == remembered[k] \in {"none", "allowed"}

\* requireToolPermission up to its wait; the task's update may still be half done.
Request(c) ==
    /\ AgentFree /\ ~ended /\ gate[c] = "uncalled"
    /\ KeyOf[c] \notin rules /\ CanPrompt(KeyOf[c])
    /\ row' = [row EXCEPT ![c] = "pending"]
    /\ gate' = [gate EXCEPT ![c] = "waiting"]
    /\ remembered' = [remembered EXCEPT ![KeyOf[c]] = "pending"]
    /\ agentUpdate' = ToWrite(taskStatus, "paused_approval")
    /\ UNCHANGED <<up, verdict, ended, old, rules, taskStatus, webUpdate, webVars>>

\* The same request is waiting, or was refused in this turn: the tool throws.
RefusedToAsk(c) ==
    /\ AgentFree /\ ~ended /\ gate[c] = "uncalled"
    /\ KeyOf[c] \notin rules /\ ~CanPrompt(KeyOf[c])
    /\ gate' = [gate EXCEPT ![c] = "refused"]
    /\ UNCHANGED <<up, remembered, verdict, ended, requestVars, taskVars, webVars>>

Continue_taskForgotten(c, status) ==
    /\ gate' = [gate EXCEPT ![c] = "flushing"]
    /\ verdict' = [verdict EXCEPT ![c] = status]
    /\ remembered' = [remembered EXCEPT ![KeyOf[c]] = status]
    /\ agentUpdate' = IF status = "timed_out" THEN NoUpdate
                      ELSE ToWrite(taskStatus, IF status = "allowed" THEN "running" ELSE "failed")
    /\ UNCHANGED <<up, ended, old, rules, taskStatus, webUpdate, webVars>>

\* waitForDecision has returned the row; the turn remembers it and the task follows.
Continue(c, status) ==
    /\ gate' = [gate EXCEPT ![c] = "flushing"]
    /\ verdict' = [verdict EXCEPT ![c] = status]
    /\ remembered' = [remembered EXCEPT ![KeyOf[c]] = status]
    /\ agentUpdate' = ToWrite(taskStatus, IF status = "allowed" THEN "running" ELSE "failed")
    /\ UNCHANGED <<up, ended, old, rules, taskStatus, webUpdate, webVars>>

\* A round of the poll finds the request decided ...
Poll(c) ==
    /\ AgentFree /\ gate[c] = "waiting" /\ row[c] # "pending"
    /\ Continue(c, row[c]) /\ UNCHANGED row

\* ... or the deadline is over, and the agent decides, unless somebody just did.
Deadline(c) ==
    /\ AgentFree /\ gate[c] = "waiting" /\ c \in old
    /\ row' = Decided(row, c, "timed_out")
    /\ Continue(c, row'[c])

\* The message is saved, and the tool runs or throws; a save that fails throws too.
Flush(c, saved) ==
    /\ AgentFree /\ gate[c] = "flushing"
    /\ gate' = [gate EXCEPT ![c] = IF saved /\ verdict[c] = "allowed" THEN "ran" ELSE "refused"]
    /\ UNCHANGED <<up, remembered, verdict, ended, requestVars, taskVars, webVars>>

\* The turn ends.  One that was stopped does not wait for the calls it left behind.
TurnEnds(status) ==
    /\ AgentFree /\ ~ended
    /\ status # "cancelled" => \A c \in Calls : gate[c] \notin {"waiting", "flushing"}
    /\ ended' = TRUE
    /\ agentUpdate' = ToWrite(taskStatus, status)
    /\ UNCHANGED <<up, remembered, gate, verdict, requestVars, taskStatus, webUpdate, webVars>>

AgentWrites ==
    /\ up /\ agentUpdate # NoUpdate
    /\ taskStatus' = agentUpdate /\ agentUpdate' = NoUpdate
    /\ UNCHANGED <<agentVars, requestVars, webUpdate, webVars>>

\* The agent dies; nothing takes its calls, its requests or its task up again.
AgentExits ==
    /\ up /\ up' = FALSE
    /\ agentUpdate' = NoUpdate
    /\ UNCHANGED <<remembered, gate, verdict, ended, requestVars, taskStatus, webUpdate, webVars>>

-----------------------------------------------------------------------------
(* The web.                                                                  *)

WebFree == webUpdate = NoUpdate /\ \A c \in Calls : asking[c] = "none"

\* respondSystemPermission finds the request pending; a standing rule is made first.
Respond(c, decision, covers) ==
    /\ WebFree /\ row[c] = "pending"
    /\ decision = "denied" => covers = {}
    /\ asking' = [asking EXCEPT ![c] = decision]
    /\ rules' = rules \cup covers
    /\ UNCHANGED <<agentVars, row, old, taskVars, told>>

\* ... and then decides it, and tells the user what the row says.
RespondDecides(c) ==
    /\ asking[c] # "none"
    /\ row' = Decided(row, c, asking[c])
    /\ told' = [told EXCEPT ![c] = row'[c]]
    /\ asking' = [asking EXCEPT ![c] = "none"]
    /\ UNCHANGED <<agentVars, old, rules, taskVars>>

\* A card answered after the request was decided: the user is shown what it says.
RespondLate(c) ==
    /\ WebFree /\ row[c] \in Verdicts
    /\ told' = [told EXCEPT ![c] = row[c]]
    /\ UNCHANGED <<agentVars, row, old, rules, taskVars, asking>>

\* cancelTask, stopChatMessage: the read and the write of the task.
CancelTask ==
    /\ WebFree /\ taskStatus \in Open
    /\ webUpdate' = ToWrite(taskStatus, "cancelled")
    /\ UNCHANGED <<agentVars, requestVars, taskStatus, agentUpdate, webVars>>

WebWrites ==
    /\ webUpdate # NoUpdate
    /\ taskStatus' = webUpdate /\ webUpdate' = NoUpdate
    /\ UNCHANGED <<agentVars, requestVars, agentUpdate, webVars>>

\* maintainPermissionRequests: what is old expires ...
Expire ==
    /\ WebFree /\ \E c \in old : row[c] = "pending"
    /\ row' = [c \in Calls |-> IF c \in old /\ row[c] = "pending" THEN "timed_out" ELSE row[c]]
    /\ UNCHANGED <<agentVars, old, rules, taskVars, webVars>>

\* ... and what was decided a day ago is deleted: a polling agent has read it by then.
Prune(c) ==
    /\ WebFree /\ row[c] \in Verdicts /\ (up => gate[c] # "waiting")
    /\ row' = [row EXCEPT ![c] = "pruned"]
    /\ UNCHANGED <<agentVars, old, rules, taskVars, webVars>>

\* Ten minutes pass since the request was made; it matters while it is pending.
Ages(c) ==
    /\ row[c] = "pending" /\ c \notin old
    /\ old' = old \cup {c}
    /\ UNCHANGED <<agentVars, row, rules, taskVars, webVars>>

-----------------------------------------------------------------------------
GateNext ==
    \/ \E c \in Calls :
          \/ CallAllowedByRule(c) \/ Request(c) \/ RefusedToAsk(c)
          \/ Poll(c) \/ Deadline(c)
          \/ \E saved \in BOOLEAN : Flush(c, saved)
          \/ \E decision \in Decisions, covers \in {{}, {KeyOf[c]}, Keys} :
                Respond(c, decision, covers)
          \/ RespondDecides(c) \/ RespondLate(c) \/ Prune(c) \/ Ages(c)
    \/ \E status \in Ends : TurnEnds(status)
    \/ AgentWrites \/ AgentExits
    \/ CancelTask \/ WebWrites \/ Expire

GateSpec == GateInit /\ [][GateNext]_gateVars

-----------------------------------------------------------------------------
(* Properties.                                                               *)

\* Every variable keeps its type.
GateTypeOK ==
    /\ {up, ended} \subseteq BOOLEAN
    /\ row \in [Calls -> {"none", "pending", "pruned"} \cup Verdicts]
    /\ old \subseteq Calls /\ rules \subseteq Keys
    /\ remembered \in [Keys -> {"none", "pending"} \cup Verdicts]
    /\ gate \in [Calls -> {"uncalled", "waiting", "flushing", "ran", "refused"}]
    /\ verdict \in [Calls -> {"none"} \cup Verdicts]
    /\ taskStatus \in Open \cup Ends
    /\ {agentUpdate, webUpdate} \subseteq {NoUpdate} \cup Open \cup Ends
    /\ asking \in [Calls -> {"none"} \cup Decisions]
    /\ told \in [Calls -> {"none", "pruned"} \cup Verdicts]

\* The user, the expiry and the agent's own deadline race for a request, and all hear the
\* same: what the user is told of his answer is what the tool did.
OneAnswer ==
    \A c \in Calls : told[c] # "none" /\ verdict[c] # "none" => told[c] = verdict[c]

\* Within a turn the user is asked again for the same key only after he allowed it: never
\* twice at once, never after a refusal or an expiry, whoever noticed it first.
NoSecondPrompt ==
    [][\A c, d \in Calls :
          c # d /\ KeyOf[c] = KeyOf[d] /\ row[c] # "none" /\ row[d] = "none" /\ row'[d] # "none"
            => verdict[c] = "allowed"]_gateVars

\* As long as the agent lives, a task is shown as waiting for an approval only while a call
\* of the turn does wait for one, or has just heard the answer.
PausedForSomebody ==
    taskStatus = "paused_approval" /\ up =>
        agentUpdate # NoUpdate \/ \E c \in Calls : gate[c] = "waiting"
=============================================================================
