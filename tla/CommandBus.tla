------------------------------ MODULE CommandBus ------------------------------
(***************************************************************************)
(* The durable command bus of the runtime: queue-service                   *)
(* (QueueServiceRuntime), the runtime_commands table, the websocket        *)
(* connections of the workers (QueueServiceClient) and the handlers that   *)
(* run in the workers.                                                     *)
(*                                                                         *)
(* queue-service is one JavaScript thread.  A callback of it (a frame      *)
(* received, a timer, a closed socket) is an action guarded by Idle; the   *)
(* dispatchAll loop at the end of a callback is spelled out one command at *)
(* a time (Visit), so that the process can die between two durable claims, *)
(* and EndTurn is the publishChatQueueStatus that ends the callback.       *)
(*                                                                         *)
(* Commands are numbered in the order of their submission: it is the order *)
(* of the keys of pendingCommands (a Map) and of created_at.               *)
(*                                                                         *)
(* Definitions named X_y are faulty variants of X, used only to test the   *)
(* properties; no specification uses them.                                 *)
(***************************************************************************)
EXTENDS Naturals, Sequences, FiniteSets

CONSTANTS
  MaxCommands,     \* bound: commands 1..MaxCommands are ever submitted
  Conns,           \* websocket connections; a client never reconnects
  RoleOf,          \* the role each connection says hello with
  Target,          \* targetRole of each command
  ChatCommands,    \* the commands of kind enqueue_user_chat
  Invoked,         \* submitted by invoke (a waiter); the others by submit
  MaxBeats,        \* bound: heartbeats beyond the first of a connection,
                   \* and statuses reported by the web supervisor
  MaxRestarts,     \* bound: stops (or crashes) of queue-service
  None             \* no connection

Commands == 1..MaxCommands
Roles == {"agent-worker", "sandbox-worker", "local-inference-worker"}

ASSUME BusAssumption ==
  /\ MaxCommands \in Nat
  /\ MaxBeats \in Nat
  /\ MaxRestarts \in Nat
  /\ RoleOf \in [Conns -> Roles]
  /\ Target \in [Commands -> Roles]
  /\ ChatCommands \subseteq Commands
  /\ \A c \in ChatCommands : Target[c] = "agent-worker"
  /\ Invoked \subseteq Commands
  /\ None \notin Conns
  /\ "web" \notin Conns

VARIABLES
  db,               \* status column of runtime_commands, durable
  up,               \* queue-service is running
  pendingCommands,  \* its in-memory rows: "absent", "pending" or "claimed"
  workers,          \* role -> the connection commands are sent on
  services,         \* role -> last reported status
  waiters,          \* what the caller of invoke has seen of its command
  todo,             \* rows the running dispatchAll has not visited yet
  publishing,       \* the callback has yet to publish the chat queue status
  chatStatus,       \* the agent.chat status published last
  link,             \* connection: "none", "open", "gone" (worker died or
                    \* closed), "dead" (queue-service died), "closed"
  handler,          \* the client has registered its command handler
  toWorker,         \* command.dispatch frames in flight
  toQueue,          \* frames in flight from the client
  running,          \* commands whose handler is running in that process
  awaiting,         \* completions sent ok and not yet acknowledged
  runs,             \* history: times the handler of a command was started
  ended,            \* history: how the handler ended
  beats, restarts   \* counters for the bounds

queueVars == <<pendingCommands, workers, services, waiters, todo, publishing, chatStatus>>
clientVars == <<handler, toWorker, running, awaiting, runs, ended>>
counters == <<beats, restarts>>
vars == <<db, up, queueVars, link, clientVars, toQueue, counters>>

States == {"unknown", "starting", "ready", "failed"}
Status == [state : States, required : BOOLEAN, by : Conns \cup {None, "web"}]
Unknown == [state |-> "unknown", required |-> FALSE, by |-> None]

Frame == [type : {"hello"}]
         \cup [type : {"status"}, state : States, required : BOOLEAN]
         \cup [type : {"complete"}, command : Commands, ok : BOOLEAN]
Hello == [type |-> "hello"]
Beat(s, req) == [type |-> "status", state |-> s, required |-> req]
Completion(c, ok) == [type |-> "complete", command |-> c, ok |-> ok]

-----------------------------------------------------------------------------
(* The chat gate: which services a chat waits for, and whether it may go.  *)

chatDependencies(svc) ==
  {"sandbox-worker"}
    \cup {r \in {"local-inference-worker"} : svc[r].required}

chatBlocked(svc) ==
  {<<r, svc[r].state>> : r \in {d \in chatDependencies(svc) : svc[d].state # "ready"}}

canDispatch(c) == c \in ChatCommands => chatBlocked(services) = {}

(* The status of the queue agent.chat, as the console shows it. *)
ChatStatusOf(rows, svc) ==
  LET active == Cardinality({c \in ChatCommands : rows[c] = "claimed"})
      depth == Cardinality({c \in ChatCommands : rows[c] = "pending"})
      blocked == chatBlocked(svc)
  IN [state |-> IF blocked # {} THEN "blocked"
                ELSE IF active + depth > 0 THEN "running" ELSE "idle",
      depth |-> depth, active |-> active, blocked |-> blocked]

-----------------------------------------------------------------------------
Init ==
  /\ db = [c \in Commands |-> "none"]
  /\ up = TRUE
  /\ pendingCommands = [c \in Commands |-> "absent"]
  /\ workers = [r \in Roles |-> None]
  /\ services = [r \in Roles |-> Unknown]
  /\ waiters = [c \in Commands |-> "none"]
  /\ todo = {}
  /\ publishing = FALSE
  /\ chatStatus = ChatStatusOf(pendingCommands, services)
  /\ link = [k \in Conns |-> "none"]
  /\ handler = [k \in Conns |-> FALSE]
  /\ toWorker = [k \in Conns |-> <<>>]
  /\ toQueue = [k \in Conns |-> <<>>]
  /\ running = [k \in Conns |-> {}]
  /\ awaiting = [k \in Conns |-> {}]
  /\ runs = [c \in Commands |-> 0]
  /\ ended = [c \in Commands |-> "no"]
  /\ beats = 0
  /\ restarts = 0

-----------------------------------------------------------------------------
(* queue-service *)

Idle == up /\ todo = {} /\ ~publishing

Rows(rows) == {c \in Commands : rows[c] # "absent"}

(* The tail of a callback: dispatchAll over a copy of the rows, then       *)
(* publishChatQueueStatus.                                                 *)
DispatchAll_noLoop(rows) == publishing' = TRUE /\ UNCHANGED todo
DispatchAll(rows) == todo' = Rows(rows) /\ publishing' = TRUE

(* setService: a status equal to the previous one ends the callback.       *)
SetService_noDispatch(r, status) ==
  services' = [services EXCEPT ![r] = status] /\ UNCHANGED <<todo, publishing>>
SetService(r, status) ==
  /\ services' = [services EXCEPT ![r] = status]
  /\ IF services[r] = status THEN UNCHANGED <<todo, publishing>>
     ELSE DispatchAll(pendingCommands)

enqueueCommand(c) ==
  /\ Idle
  /\ db[c] = "none"
  /\ \A b \in Commands : b < c => db[b] # "none"
  /\ db' = [db EXCEPT ![c] = "pending"]
  /\ pendingCommands' = [pendingCommands EXCEPT ![c] = "pending"]
  /\ waiters' = [waiters EXCEPT ![c] = IF c \in Invoked THEN "waiting" ELSE @]
  /\ DispatchAll(pendingCommands')
  /\ UNCHANGED <<up, workers, services, chatStatus, link, clientVars, toQueue, counters>>

(* The timer of invokeCommand.  The command itself stays where it is. *)
TimerRuns(c) == waiters[c] = "waiting"

InvokeTimeout(c) ==
  /\ Idle
  /\ TimerRuns(c)
  /\ waiters' = [waiters EXCEPT ![c] = "timeout"]
  /\ UNCHANGED <<db, up, pendingCommands, workers, services, todo, publishing,
                 chatStatus, link, clientVars, toQueue, counters>>

(* The UPDATE of claimCommand; the row is then read back, so a row that was *)
(* claimed already looks the same as one claimed just now.                 *)
claimCommand(status) == IF status = "pending" THEN "claimed" ELSE status

(* dispatch: claim the row in the table, then send it.  A socket that is   *)
(* no longer open swallows the frame.                                      *)
dispatch(c) ==
  LET k == workers[Target[c]]
  IN /\ db' = [db EXCEPT ![c] = claimCommand(@)]
     /\ IF claimCommand(db[c]) = "claimed"
        THEN /\ pendingCommands' = [pendingCommands EXCEPT ![c] = "claimed"]
             /\ toWorker' = [toWorker EXCEPT ![k] = IF link[k] = "open" THEN Append(@, c) ELSE @]
        ELSE UNCHANGED <<pendingCommands, toWorker>>

Dispatchable_anyRow(c) ==
  /\ pendingCommands[c] # "absent"
  /\ canDispatch(c)
  /\ workers[Target[c]] # None
Dispatchable(c) ==
  /\ pendingCommands[c] = "pending"
  /\ canDispatch(c)
  /\ workers[Target[c]] # None

(* One round of the dispatchAll loop, in the order of the Map. *)
VisitNext_backwards(c) == \A b \in todo : c >= b
VisitNext(c) == \A b \in todo : c <= b

Visit(c) ==
  /\ up /\ c \in todo
  /\ VisitNext(c)
  /\ todo' = todo \ {c}
  /\ IF Dispatchable(c) THEN dispatch(c) ELSE UNCHANGED <<db, pendingCommands, toWorker>>
  /\ UNCHANGED <<up, workers, services, waiters, publishing, chatStatus, link, handler,
                 running, awaiting, runs, ended, toQueue, counters>>

publishChatQueueStatus ==
  /\ up /\ todo = {} /\ publishing
  /\ publishing' = FALSE
  /\ chatStatus' = ChatStatusOf(pendingCommands, services)
  /\ UNCHANGED <<db, up, pendingCommands, workers, services, waiters, todo, link,
                 clientVars, toQueue, counters>>

(* The frame at the head of a connection, which the callback consumes. *)
Receiving(k, type) ==
  /\ Idle
  /\ link[k] \in {"open", "gone"}
  /\ toQueue[k] # <<>>
  /\ Head(toQueue[k]).type = type
  /\ toQueue' = [toQueue EXCEPT ![k] = Tail(@)]

ReceiveHello(k) ==
  LET r == RoleOf[k]
      status == [state |-> "starting", required |-> FALSE, by |-> k]
  IN /\ Receiving(k, "hello")
     /\ workers' = [workers EXCEPT ![r] = k]
     /\ services' = [services EXCEPT ![r] = status]
     /\ todo' = Rows(pendingCommands)
     /\ publishing' = (services[r] # status)
     /\ UNCHANGED <<db, up, pendingCommands, waiters, chatStatus, link, clientVars, counters>>

ReceiveStatus(k) ==
  LET frame == Head(toQueue[k])
  IN /\ Receiving(k, "status")
     /\ SetService(RoleOf[k], [state |-> frame.state, required |-> frame.required, by |-> k])
     /\ UNCHANGED <<db, up, pendingCommands, workers, waiters, chatStatus, link, clientVars,
                    counters>>

(* completeCommand: the table row is overwritten whatever it says. *)
completeCommand(k) ==
  LET frame == Head(toQueue[k])
      c == frame.command
  IN /\ Receiving(k, "complete")
     /\ db' = [db EXCEPT ![c] = IF frame.ok THEN "completed" ELSE "failed"]
     /\ pendingCommands' = [pendingCommands EXCEPT ![c] = "absent"]
     /\ waiters' = [waiters EXCEPT ![c] =
                      IF @ = "waiting" THEN (IF frame.ok THEN "ok" ELSE "failed") ELSE @]
     /\ DispatchAll(pendingCommands')
     /\ UNCHANGED <<up, workers, services, chatStatus, link, clientVars, counters>>

Disconnected == [state |-> "failed", required |-> FALSE, by |-> None]

(* closeSocket: only the socket that is the worker of its role counts. *)
closeSocket(k) ==
  LET r == RoleOf[k]
  IN /\ Idle
     /\ link[k] = "gone"
     /\ link' = [link EXCEPT ![k] = "closed"]
     /\ toQueue' = [toQueue EXCEPT ![k] = <<>>]
     /\ IF workers[r] = k
        THEN /\ workers' = [workers EXCEPT ![r] = None]
             /\ SetService(r, Disconnected)
        ELSE UNCHANGED <<workers, services, todo, publishing>>
     /\ UNCHANGED <<db, up, pendingCommands, waiters, chatStatus, clientVars, counters>>

(* A status the web supervisor reports for a role, under its own pid. *)
SupervisorStatus(r, s) ==
  /\ Idle
  /\ beats < MaxBeats
  /\ beats' = beats + 1
  /\ SetService(r, [state |-> s, required |-> FALSE, by |-> "web"])
  /\ UNCHANGED <<db, up, pendingCommands, workers, waiters, chatStatus, link, clientVars,
                 toQueue, restarts>>

(* queue-service stops or dies at any point, its memory is lost, and every *)
(* connection breaks.  Frames a client has already received stay with it.  *)
stop ==
  /\ up
  /\ restarts < MaxRestarts
  /\ restarts' = restarts + 1
  /\ up' = FALSE
  /\ pendingCommands' = [c \in Commands |-> "absent"]
  /\ workers' = [r \in Roles |-> None]
  /\ services' = [r \in Roles |-> Unknown]
  /\ waiters' = [c \in Commands |-> IF waiters[c] = "waiting" THEN "failed" ELSE waiters[c]]
  /\ todo' = {}
  /\ publishing' = FALSE
  /\ link' = [k \in Conns |-> IF link[k] = "open" THEN "dead"
                              ELSE IF link[k] = "gone" THEN "closed" ELSE link[k]]
  /\ toQueue' = [k \in Conns |-> <<>>]
  /\ awaiting' = [k \in Conns |-> {}]
  /\ UNCHANGED <<db, chatStatus, handler, toWorker, running, runs, ended, beats>>

Interrupted_retryFailed(status) == IF status \in {"claimed", "failed"} THEN "pending" ELSE status
Interrupted(status) == IF status = "claimed" THEN "failed" ELSE status

Reloaded_unfinished(status) == IF status \in {"pending", "claimed"} THEN status ELSE "absent"
Reloaded(status) == IF status = "pending" THEN "pending" ELSE "absent"

(* create and start: what was claimed has failed, what was pending is      *)
(* loaded again, and the service announces itself.                         *)
create ==
  /\ ~up
  /\ up' = TRUE
  /\ db' = [c \in Commands |-> Interrupted(db[c])]
  /\ pendingCommands' = [c \in Commands |-> Reloaded(db[c])]
  /\ DispatchAll(pendingCommands')
  /\ UNCHANGED <<workers, services, waiters, chatStatus, link, clientVars, toQueue, counters>>

-----------------------------------------------------------------------------
(* Workers *)

(* Sending on a connection that is not open is an error the callers drop.  *)
Send(k, frame) ==
  toQueue' = [toQueue EXCEPT ![k] = IF link[k] = "open" THEN Append(@, frame) ELSE @]

connect(k) ==
  /\ up
  /\ link[k] = "none"
  /\ link' = [link EXCEPT ![k] = "open"]
  /\ toQueue' = [toQueue EXCEPT ![k] = <<Hello>>]
  /\ UNCHANGED <<db, up, queueVars, clientVars, counters>>

(* start of a worker runtime: its first heartbeat, then onCommand.  The    *)
(* local inference worker says that it is starting and whether chat needs  *)
(* it; the others say they are ready.                                      *)
start(k, required) ==
  /\ link[k] = "open" /\ ~handler[k]
  /\ required => RoleOf[k] = "local-inference-worker"
  /\ handler' = [handler EXCEPT ![k] = TRUE]
  /\ Send(k, Beat(IF RoleOf[k] = "local-inference-worker" THEN "starting" ELSE "ready", required))
  /\ UNCHANGED <<db, up, queueVars, link, toWorker, running, awaiting, runs, ended, counters>>

(* A later heartbeat: ready, or something else that is not ready (busy     *)
(* sandbox, degraded or starting local inference), modelled by "starting". *)
heartbeat(k, s, required) ==
  /\ link[k] = "open" /\ handler[k]
  /\ beats < MaxBeats
  /\ beats' = beats + 1
  /\ required => RoleOf[k] = "local-inference-worker"
  /\ RoleOf[k] = "agent-worker" => s = "ready"
  /\ Send(k, Beat(s, required))
  /\ UNCHANGED <<db, up, queueVars, link, clientVars, restarts>>

(* Without a handler the command fails at once. *)
NoHandler_silent(k, c) == UNCHANGED toQueue
NoHandler_ok(k, c) == Send(k, Completion(c, TRUE))
NoHandler(k, c) == Send(k, Completion(c, FALSE))

handleCommand(k) ==
  LET c == Head(toWorker[k])
  IN /\ link[k] \in {"open", "dead"}
     /\ toWorker[k] # <<>>
     /\ toWorker' = [toWorker EXCEPT ![k] = Tail(@)]
     /\ IF handler[k]
        THEN /\ running' = [running EXCEPT ![k] = @ \cup {c}]
             /\ runs' = [runs EXCEPT ![c] = @ + 1]
             /\ UNCHANGED toQueue
        ELSE NoHandler(k, c) /\ UNCHANGED <<running, runs>>
     /\ UNCHANGED <<db, up, queueVars, link, handler, awaiting, ended, counters>>

(* The handler returns or throws, and the completion is sent. *)
HandlerEnds(k, c, ok) ==
  /\ link[k] \in {"open", "dead"}
  /\ c \in running[k]
  /\ running' = [running EXCEPT ![k] = @ \ {c}]
  /\ ended' = [ended EXCEPT ![c] = IF ok THEN "ok" ELSE "error"]
  /\ awaiting' = [awaiting EXCEPT ![k] = IF ok /\ link[k] = "open" THEN @ \cup {c} ELSE @]
  /\ Send(k, Completion(c, ok))
  /\ UNCHANGED <<db, up, queueVars, link, handler, toWorker, runs, counters>>

(* The response to a completion arrives (it is in flight from the moment   *)
(* queue-service has taken the completion off the connection) ...          *)
handleResponse(k, c) ==
  /\ link[k] = "open"
  /\ c \in awaiting[k]
  /\ \A i \in 1..Len(toQueue[k]) : toQueue[k][i] # Completion(c, TRUE)
  /\ awaiting' = [awaiting EXCEPT ![k] = @ \ {c}]
  /\ UNCHANGED <<db, up, queueVars, link, handler, toWorker, running, runs, ended, toQueue,
                 counters>>

(* ... or does not arrive within requestTimeoutMs: the rejection lands in  *)
(* the catch of handleCommand, which reports the command as failed.        *)
RequestTimeout(k, c) ==
  /\ link[k] = "open"
  /\ c \in awaiting[k]
  /\ awaiting' = [awaiting EXCEPT ![k] = @ \ {c}]
  /\ Send(k, Completion(c, FALSE))
  /\ UNCHANGED <<db, up, queueVars, link, handler, toWorker, running, runs, ended, counters>>

(* The worker process exits, is killed, or closes its client: its handlers *)
(* stop with it, and queue-service has yet to notice.                      *)
Exit(k) ==
  /\ link[k] \in {"open", "dead"}
  /\ link' = [link EXCEPT ![k] = IF @ = "open" THEN "gone" ELSE "closed"]
  /\ toWorker' = [toWorker EXCEPT ![k] = <<>>]
  /\ running' = [running EXCEPT ![k] = {}]
  /\ awaiting' = [awaiting EXCEPT ![k] = {}]
  /\ UNCHANGED <<db, up, queueVars, handler, runs, ended, toQueue, counters>>

-----------------------------------------------------------------------------
QueueNext ==
  \/ \E c \in Commands : enqueueCommand(c) \/ InvokeTimeout(c) \/ Visit(c)
  \/ publishChatQueueStatus
  \/ \E k \in Conns : \/ ReceiveHello(k) \/ ReceiveStatus(k)
                      \/ completeCommand(k) \/ closeSocket(k)
  \/ \E r \in Roles, s \in {"starting", "failed"} : SupervisorStatus(r, s)
  \/ stop
  \/ create

ClientNext ==
  \E k \in Conns :
    \/ connect(k)
    \/ \E required \in BOOLEAN : start(k, required)
    \/ \E required \in BOOLEAN, s \in {"starting", "ready"} : heartbeat(k, s, required)
    \/ handleCommand(k)
    \/ \E c \in Commands, ok \in BOOLEAN : HandlerEnds(k, c, ok)
    \/ \E c \in Commands : handleResponse(k, c) \/ RequestTimeout(k, c)
    \/ Exit(k)

Next == QueueNext \/ ClientNext

Spec == Init /\ [][Next]_vars

(* While a callback, a frame, a handler, a timer of invoke or the restart  *)
(* of a stopped runtime is due, one of them is taken; which one is left    *)
(* open.  Nothing obliges anyone to submit, to connect or to fail.         *)
Due ==
  \/ \E c \in Commands : Visit(c) \/ InvokeTimeout(c)
  \/ publishChatQueueStatus
  \/ create
  \/ \E k \in Conns :
       \/ ReceiveHello(k) \/ ReceiveStatus(k) \/ completeCommand(k) \/ closeSocket(k)
       \/ \E required \in BOOLEAN : start(k, required)
       \/ handleCommand(k)
       \/ \E c \in Commands, ok \in BOOLEAN : HandlerEnds(k, c, ok)

Fairness == WF_vars(Due)

FairSpec == Spec /\ Fairness

-----------------------------------------------------------------------------
(* Properties *)

Terminal == {"completed", "failed"}

(* The commands on their way to a worker over connection k. *)
Sent(k) == {toWorker[k][i] : i \in 1..Len(toWorker[k])}

(* The completions of command c on their way back over connection k. *)
Reported(k, c) ==
  \E i \in 1..Len(toQueue[k]) :
    /\ toQueue[k][i].type = "complete"
    /\ toQueue[k][i].command = c

(* Every variable stays in its range. *)
TypeOK ==
  /\ db \in [Commands -> {"none", "pending", "claimed", "completed", "failed"}]
  /\ up \in BOOLEAN
  /\ pendingCommands \in [Commands -> {"absent", "pending", "claimed"}]
  /\ workers \in [Roles -> Conns \cup {None}]
  /\ services \in [Roles -> Status]
  /\ waiters \in [Commands -> {"none", "waiting", "ok", "failed", "timeout"}]
  /\ todo \in SUBSET Commands
  /\ publishing \in BOOLEAN
  /\ link \in [Conns -> {"none", "open", "gone", "dead", "closed"}]
  /\ handler \in [Conns -> BOOLEAN]
  /\ toWorker \in [Conns -> Seq(Commands)]
  /\ toQueue \in [Conns -> Seq(Frame)]
  /\ running \in [Conns -> SUBSET Commands]
  /\ awaiting \in [Conns -> SUBSET Commands]
  /\ runs \in [Commands -> Nat]
  /\ ended \in [Commands -> {"no", "ok", "error"}]
  /\ beats \in Nat
  /\ restarts \in Nat

(* The handler of a command is started at most once, whatever workers and  *)
(* queue-service do: agent runs and shell commands are not idempotent.     *)
StartedAtMostOnce == \A c \in Commands : runs[c] <= 1

(* What queue-service remembers of a command is what the table says of it: *)
(* dispatch trusts the remembered status before it claims and sends.       *)
RowsMatchTable ==
  up => \A c \in Commands :
          pendingCommands[c] = IF db[c] \in {"pending", "claimed"} THEN db[c] ELSE "absent"

(* When a callback has ended no command is left behind that could have     *)
(* been sent: there is no timer that would come back to it.                *)
NothingStranded == Idle => \A c \in Commands : ~Dispatchable(c)

(* A claimed command is on its way to a worker, running, or on its way     *)
(* back, as long as no connection of its worker has broken: only a broken  *)
(* connection leaves a command claimed with nobody to complete it.         *)
ClaimAccountedFor ==
  up => \A c \in Commands :
    db[c] = "claimed" =>
      \E k \in {i \in Conns : RoleOf[i] = Target[c]} :
        link[k] \in {"gone", "closed"} \/ c \in Sent(k) \cup running[k] \/ Reported(k, c)

(* Rows, handlers and waiters live as CommandLifecycle says, through every *)
(* lost frame, exit and restart: only a handler that returned completes    *)
(* its command, only completed is ever rewritten, and only into failed.    *)
Lifecycle == INSTANCE CommandLifecycle
               WITH outcome <- db, starts <- runs, ended <- ended, told <- waiters

ImplementsLifecycle == Lifecycle!Spec

(* A handler starts only when no earlier command for the same worker and   *)
(* of the same kind is still waiting or behind it on the connection.       *)
StartedInOrder ==
  [][\A k \in Conns, c \in Commands :
       c \in running'[k] \ running[k] =>
         \A b \in 1..(c - 1) :
           Target[b] = Target[c] /\ (b \in ChatCommands <=> c \in ChatCommands)
             => (up => db[b] # "pending") /\ b \notin Sent(k)']_vars

(* A command that can be sent from some point on (its worker stays, and a  *)
(* chat's gate is open) is claimed and settled; only a connection of its   *)
(* worker that breaks, now or earlier, can leave it behind.                *)
ServedCommandsSettle ==
  \A c \in Commands :
    <>[](up /\ workers[Target[c]] # None /\ canDispatch(c))
      => (db[c] \in {"pending", "claimed"}
            ~> \/ db[c] \in Terminal
               \/ \E k \in Conns : RoleOf[k] = Target[c] /\ link[k] \in {"gone", "closed"})
===============================================================================
