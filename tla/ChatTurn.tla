------------------------------- MODULE ChatTurn -------------------------------
(* One chat turn from the web's submit to the settled task: the web actions     *)
(* (send, stop, cancel a task, delete all sessions), the agent worker's command  *)
(* handler, the AgentDispatcher over its embedded bunqueue worker, the registry  *)
(* of active runs with its idle callbacks, and the task table both processes     *)
(* write.  The command bus between the two is CommandBus.tla; here it is the     *)
(* sequence "wire", whose chat commands may be held at the gate while later stop *)
(* commands pass.  Bunqueue is external: what it may do is nondeterministic.     *)
(* Definitions named X_y are faulty variants of X, used only to test the         *)
(* properties; no specification uses them.                                       *)
EXTENDS Integers, Sequences, FiniteSets, SequencesExt

CONSTANTS
    Jobs,       \* chat turns: a job, its command and its task share one name
    Convs,      \* conversations
    ConvOf,     \* [Jobs -> Convs]
    Nobody,     \* no job, no conversation
    Limits,     \* values of settings.parallelAgents, the first is the initial one
    FirstLimit,
    MaxStops,   \* bound: stop requests the user makes
    MaxStopAlls,\* bound: "delete all sessions"
    MaxExits,   \* bound: exits of the agent worker
    MaxPauses,  \* bound: calls of dispatcher.pause
    MaxResizes, \* bound: changes of the size of the pool
    MaxMounts,  \* bound: changes of the global mounts
    MaxTimeouts,\* bound: acknowledgements of submissions, or turns, that take too long
    MaxEvents   \* bound: all of these together

ASSUME ChatAssumption ==
    /\ ConvOf \in [Jobs -> Convs]
    /\ Nobody \notin Jobs \cup Convs
    /\ Limits \subseteq Nat \ {0} /\ FirstLimit \in Limits
    /\ {MaxStops, MaxStopAlls, MaxExits, MaxPauses, MaxResizes, MaxMounts, MaxTimeouts,
        MaxEvents} \subseteq Nat

Active == {"planned", "running"}
Terminal == {"completed", "failed", "cancelled"}
Statuses == {"none"} \cup Active \cup Terminal
Phases == {"none", "wire", "preload", "adding", "waiting", "starting", "preparing",
           "running", "returning", "lost", "gone"}
InWorker == {"starting", "preparing", "running", "returning"}
Outcomes == {"none", "completed", "failed", "cancelled", "leftover"}

VARIABLES
    task,       \* [Jobs -> status] the shared task table
    wire,       \* commands submitted to the agent worker and not yet handled
    marking,    \* web stop handlers between cancelByConversation and the task updates
    phase,      \* where each job is
    outcome,    \* [Jobs -> Outcomes] what its processor returned or threw
    pending,    \* AgentDispatcher.pending
    paused,     \* app.worker is paused
    blocked,    \* blockedReason # null
    resumeDue,  \* resumeScheduled
    limit,      \* agentWorkerLimit
    runs,       \* ActiveRunRegistry.runs
    stopped,    \* jobs whose program was told to stop
    ran,        \* history: jobs whose program was started
    idle,       \* conversations with a queued idle callback
    refresh,    \* the mount refresh: [left, done, behind]
    swept,      \* history: jobs a stop took from the queue without marking their tasks
    shared,     \* history: conversations whose last program started beside another one
    counts      \* how much of each bound is used

dispatcherVars == <<pending, paused, blocked, resumeDue, limit>>
registryVars == <<runs, stopped, ran, idle, refresh, swept, shared>>
vars == <<task, wire, marking, phase, outcome, dispatcherVars, registryVars, counts>>

ChatCommand(j) == [kind |-> "chat", job |-> j, conv |-> ConvOf[j]]
\* the job of a stop is the one whose task will be marked, Nobody for all of the conversation
StopCommand(c, only) == [kind |-> "stop", job |-> only, conv |-> c]
StopAllCommand == [kind |-> "stop_all", job |-> Nobody, conv |-> Nobody]
Commands == {ChatCommand(j) : j \in Jobs} \cup {StopCommand(c, only) : c \in Convs, only \in Jobs \cup {Nobody}} \cup {StopAllCommand}

Bounds == {"stops", "stopAlls", "exits", "pauses", "resizes", "mounts", "timeouts"}

InConv(c) == {j \in Jobs : ConvOf[j] = c}
Spent == MapThenSumSet(LAMBDA b : counts[b], DOMAIN counts)
Use(bound, max) ==
    /\ counts[bound] < max
    /\ Spent < MaxEvents
    /\ counts' = [counts EXCEPT ![bound] = @ + 1]

Init ==
    /\ task = [j \in Jobs |-> "none"]
    /\ wire = <<>> /\ marking = {}
    /\ phase = [j \in Jobs |-> "none"]
    /\ outcome = [j \in Jobs |-> "none"]
    /\ pending = {} /\ paused = FALSE /\ blocked = FALSE /\ resumeDue = FALSE
    /\ limit = FirstLimit
    /\ runs = [c \in Convs |-> Nobody] /\ stopped = {} /\ ran = {} /\ idle = {}
    /\ refresh = [left |-> 0, done |-> FALSE, behind |-> {}] /\ swept = {} /\ shared = {}
    /\ counts = [b \in Bounds |-> 0]

-----------------------------------------------------------------------------
(* The task table.                                                           *)

\* SqliteTaskStore.update: a terminal status is never replaced by another one.
Settled(tasks, js, status) ==
    [j \in Jobs |-> IF j \in js /\ tasks[j] \notin Terminal THEN status ELSE tasks[j]]

-----------------------------------------------------------------------------
(* The web's actions.                                                        *)

\* sendChatMessage, retryTask: the task is created, then the command submitted.
SendChat(j) ==
    /\ phase[j] = "none"
    /\ task' = [task EXCEPT ![j] = "planned"]
    /\ phase' = [phase EXCEPT ![j] = "wire"]
    /\ wire' = Append(wire, ChatCommand(j))
    /\ UNCHANGED <<marking, outcome, dispatcherVars, registryVars, counts>>

\* sendChatMessage's catch: the submission failed, the task says so.  It did not reach
\* queue-service, or (SubmitTimesOut) it did and only the acknowledgement was late: then the
\* command runs all the same.
SendFails(j) ==
    /\ phase[j] = "none"
    /\ task' = [task EXCEPT ![j] = "failed"]
    /\ phase' = [phase EXCEPT ![j] = "gone"]
    /\ UNCHANGED <<wire, marking, outcome, dispatcherVars, registryVars, counts>>

SubmitTimesOut(j) ==
    /\ phase[j] # "none" /\ task[j] \in Active
    /\ Use("timeouts", MaxTimeouts)
    /\ task' = Settled(task, {j}, "failed")
    /\ UNCHANGED <<wire, marking, phase, outcome, dispatcherVars, registryVars>>

\* stopChatMessage (only = Nobody) and cancelTask (only = the task): the stop command
\* goes out first, the tasks are marked when its submission is acknowledged.
RequestStop(c, only) ==
    /\ only \in {Nobody} \cup {j \in InConv(c) : task[j] # "none"}
    /\ Use("stops", MaxStops)
    /\ wire' = Append(wire, StopCommand(c, only))
    /\ marking' = marking \cup {[conv |-> c, only |-> only]}
    /\ UNCHANGED <<task, phase, outcome, dispatcherVars, registryVars>>

Marks == [conv : Convs, only : Jobs \cup {Nobody}]
ToCancel(m) == IF m.only = Nobody THEN {j \in InConv(m.conv) : task[j] \in Active} ELSE {m.only}

MarkCancelled(m) ==
    /\ marking' = marking \ {m}
    /\ task' = Settled(task, ToCancel(m), "cancelled")
    /\ UNCHANGED <<wire, phase, outcome, dispatcherVars, registryVars, counts>>

\* deleteAllSessions: dispatcher.cancelAll
RequestStopAll ==
    /\ Use("stopAlls", MaxStopAlls)
    /\ wire' = Append(wire, StopAllCommand)
    /\ UNCHANGED <<task, marking, phase, outcome, dispatcherVars, registryVars>>

-----------------------------------------------------------------------------
(* The agent worker's handler of commands.                                   *)

\* Held chats let the commands behind them pass; chats keep their order.
Deliverable(i) == i = 1 \/ (wire[i].kind # "chat" /\ \A k \in 1..(i - 1) : wire[k].kind = "chat")

StartChat(i) ==
    /\ wire[i].kind = "chat"
    /\ phase' = [phase EXCEPT ![wire[i].job] = "preload"]
    /\ UNCHANGED <<task, marking, outcome, dispatcherVars, registryVars, counts>>

\* worker.cancelJob: a job being processed is reported cancelled at once; for a queued
\* one bunqueue may or may not report it.
Cancel(js) ==
    \E told \in SUBSET {j \in js : phase[j] \in {"adding", "waiting"}} :
        pending' = pending \ (told \cup {j \in js : phase[j] \in InWorker})

StopConversation_localOnly(i) ==
    LET c == wire[i].conv IN
    /\ wire[i].kind = "stop"
    /\ Cancel(pending \cap InConv(c))
    /\ UNCHANGED <<task, marking, phase, outcome, paused, blocked, resumeDue, limit,
                   registryVars, counts>>

StopConversation(i) ==
    LET c == wire[i].conv IN
    /\ wire[i].kind = "stop"
    /\ stopped' = stopped \cup ({runs[c]} \ {Nobody})
    /\ Cancel(pending \cap InConv(c))
    /\ swept' = IF wire[i].job = Nobody THEN swept
                ELSE swept \cup ((pending \cap InConv(c)) \ {wire[i].job})
    /\ UNCHANGED <<task, marking, phase, outcome, paused, blocked, resumeDue, limit,
                   runs, ran, idle, refresh, shared, counts>>

\* ActiveRunRegistry.stopAll and dispatcher.cancelAll
StopAll(i) ==
    /\ wire[i].kind = "stop_all"
    /\ stopped' = stopped \cup ({runs[c] : c \in Convs} \ {Nobody})
    /\ runs' = [c \in Convs |-> Nobody]
    /\ idle' = {}
    /\ Cancel(pending)
    /\ swept' = swept \cup pending
    /\ UNCHANGED <<task, marking, phase, outcome, paused, blocked, resumeDue, limit,
                   ran, refresh, shared, counts>>

HandleCommand ==
    \E i \in 1..Len(wire) :
        /\ Deliverable(i)
        /\ wire' = RemoveAt(wire, i)
        /\ StartChat(i) \/ StopConversation(i) \/ StopAll(i)

\* preloadSession answered; enqueueUserChat up to "await queue.add"
EnqueueUserChat(j) ==
    /\ phase[j] = "preload"
    /\ phase' = [phase EXCEPT ![j] = "adding"]
    /\ pending' = pending \cup {j}
    /\ paused' = TRUE
    /\ UNCHANGED <<task, wire, marking, outcome, blocked, resumeDue, limit, registryVars, counts>>

\* preloadSession rejected: the command fails, nobody touches the task.
PreloadFails(j) ==
    /\ phase[j] = "preload"
    /\ phase' = [phase EXCEPT ![j] = "lost"]
    /\ UNCHANGED <<task, wire, marking, outcome, dispatcherVars, registryVars, counts>>

ResumeWorkerSoon_once == resumeDue' = (resumeDue \/ (~blocked /\ Cardinality(pending) = 1))

ResumeWorkerSoon == resumeDue' = (resumeDue \/ ~blocked)

\* queue.add resolved or rejected
Added(j) ==
    /\ phase[j] = "adding"
    /\ phase' = [phase EXCEPT ![j] = "waiting"]
    /\ ResumeWorkerSoon
    /\ UNCHANGED <<task, wire, marking, outcome, pending, paused, blocked, limit, registryVars, counts>>

AddFails(j) ==
    /\ phase[j] = "adding"
    /\ phase' = [phase EXCEPT ![j] = "lost"]
    /\ pending' = pending \ {j}
    /\ ResumeWorkerSoon
    /\ UNCHANGED <<task, wire, marking, outcome, paused, blocked, limit, registryVars, counts>>

ResumeWorker_noRecheck ==
    /\ resumeDue
    /\ resumeDue' = FALSE
    /\ paused' = FALSE
    /\ UNCHANGED <<task, wire, marking, phase, outcome, pending, blocked, limit, registryVars, counts>>

\* the setImmediate callback of resumeWorkerSoon
ResumeWorker ==
    /\ resumeDue
    /\ resumeDue' = FALSE
    /\ paused' = (paused /\ blocked)
    /\ UNCHANGED <<task, wire, marking, phase, outcome, pending, blocked, limit, registryVars, counts>>

Pause ==
    /\ Use("pauses", MaxPauses)
    /\ blocked' = TRUE /\ paused' = TRUE
    /\ UNCHANGED <<task, wire, marking, phase, outcome, pending, resumeDue, limit, registryVars>>

Resume ==
    /\ blocked \/ paused
    /\ blocked' = FALSE /\ paused' = FALSE
    /\ UNCHANGED <<task, wire, marking, phase, outcome, pending, resumeDue, limit, registryVars, counts>>

SetConcurrency(n) ==
    /\ n # limit
    /\ limit' = n
    /\ Use("resizes", MaxResizes)
    /\ UNCHANGED <<task, wire, marking, phase, outcome, pending, paused, blocked, resumeDue, registryVars>>

-----------------------------------------------------------------------------
(* Bunqueue's worker takes a job; AgentDispatcher.runJob.                    *)

Processing == {j \in Jobs : phase[j] \in InWorker}

RunJob_replay(j) ==
    /\ phase[j] = "waiting" /\ ~paused /\ Cardinality(Processing) < limit
    /\ phase' = [phase EXCEPT ![j] = "starting"]
    /\ UNCHANGED <<task, wire, marking, outcome, pending, paused, blocked, resumeDue, limit, registryVars, counts>>

RunJob(j) ==
    /\ phase[j] = "waiting" /\ ~paused /\ Cardinality(Processing) < limit
    /\ IF j \in pending
       THEN /\ phase' = [phase EXCEPT ![j] = "starting"]
            /\ UNCHANGED outcome
       ELSE /\ phase' = [phase EXCEPT ![j] = "returning"]
            /\ outcome' = [outcome EXCEPT ![j] = "leftover"]
    /\ UNCHANGED <<task, wire, marking, pending, paused, blocked, resumeDue, limit, registryVars, counts>>

\* ensureBotSandbox resolved: onStarted marks the task running.
JobStarted(j) ==
    /\ phase[j] = "starting"
    /\ phase' = [phase EXCEPT ![j] = "preparing"]
    /\ task' = Settled(task, {j}, "running")
    /\ UNCHANGED <<wire, marking, outcome, dispatcherVars, registryVars, counts>>

\* runMessage has awaited the session and registers its program.
Register(j) ==
    /\ phase[j] = "preparing"
    /\ phase' = [phase EXCEPT ![j] = "running"]
    /\ runs' = [runs EXCEPT ![ConvOf[j]] = j]
    /\ ran' = ran \cup {j}
    /\ shared' = IF \E k \in InConv(ConvOf[j]) : phase[k] = "running"
                 THEN shared \cup {ConvOf[j]} ELSE shared \ {ConvOf[j]}
    /\ UNCHANGED <<task, wire, marking, outcome, dispatcherVars, stopped, idle, refresh, swept, counts>>

\* ActiveRunRegistry.clear: whoever is registered is removed, then the idle callbacks
\* run; the last of them performs the refresh of the mounts.
Clear(c) ==
    /\ runs' = [runs EXCEPT ![c] = Nobody]
    /\ idle' = idle \ {c}
    /\ refresh' = IF c \notin idle THEN refresh
                  ELSE [refresh EXCEPT !.left = @ - 1, !.done = (refresh.left = 1)]
    /\ UNCHANGED <<stopped, ran, swept, shared>>

\* runMessage returns its reply: a stopped program ends cancelled, or completes anyway.
ReturnReply(j, result) ==
    /\ phase[j] = "running"
    /\ result = "cancelled" => j \in stopped
    /\ phase' = [phase EXCEPT ![j] = "returning"]
    /\ outcome' = [outcome EXCEPT ![j] = result]
    /\ Clear(ConvOf[j])
    /\ UNCHANGED <<task, wire, marking, dispatcherVars, counts>>

TaskResult_done(j) == "completed"

\* the worker's "completed" event: onCompleted.  For a leftover the result says
\* "completed"; for a job already cancelled bunqueue may also report nothing.
TaskResult(j) == IF outcome[j] = "leftover" THEN "completed" ELSE outcome[j]
OnCompleted(j) ==
    /\ phase[j] = "returning"
    /\ phase' = [phase EXCEPT ![j] = "gone"]
    /\ pending' = pending \ {j}
    /\ \/ task' = Settled(task, {j}, TaskResult(j))
       \/ outcome[j] # "leftover" /\ j \notin pending /\ UNCHANGED task
    /\ UNCHANGED <<wire, marking, outcome, paused, blocked, resumeDue, limit, registryVars, counts>>

\* USER_CHAT_JOB_TIMEOUT_MS is over: bunqueue reports the job failed, but what runs in this
\* process goes on to its end.  A retry before that finds no pending entry and the task failed.
JobTimesOut(j) ==
    /\ phase[j] \in {"starting", "preparing", "running"} /\ j \in pending
    /\ Use("timeouts", MaxTimeouts)
    /\ pending' = pending \ {j}
    /\ task' = Settled(task, {j}, "failed")
    /\ UNCHANGED <<wire, marking, phase, outcome, paused, blocked, resumeDue, limit,
                   registryVars>>

\* the processor threw (sandbox, lease, session, flush): onFailed.  Bunqueue may retry, and
\* the retry finds no pending entry.
OnFailed(j) ==
    /\ phase[j] \in {"starting", "preparing"} \/ (phase[j] = "returning" /\ outcome[j] # "leftover")
    /\ phase' = [phase EXCEPT ![j] = "gone"] \/ phase' = [phase EXCEPT ![j] = "waiting"]
    /\ outcome' = [outcome EXCEPT ![j] = "failed"]
    /\ pending' = pending \ {j}
    /\ task' = Settled(task, {j}, "failed")
    /\ UNCHANGED <<wire, marking, paused, blocked, resumeDue, limit, registryVars, counts>>

Refreshes == [left : Nat, done : BOOLEAN, behind : SUBSET Jobs]

AddMount_now(c) ==
    /\ c = Nobody \/ \E j \in Jobs : phase[j] = "running" /\ ConvOf[j] = c
    /\ refresh.left = 0
    /\ Use("mounts", MaxMounts)
    /\ refresh' = [left |-> 0, done |-> TRUE,
                   behind |-> {j \in Jobs : phase[j] = "running" /\ ConvOf[j] # c}]
    /\ UNCHANGED <<task, wire, marking, phase, outcome, dispatcherVars, runs, stopped, ran, idle,
                   swept, shared>>

\* scheduleMountsRefresh: addGlobalMount from a run of conversation c, or new settings
\* (c = Nobody).
AddMount(c) ==
    LET busy == {d \in Convs \ {c} : runs[d] # Nobody} IN
    /\ c = Nobody \/ \E j \in Jobs : phase[j] = "running" /\ ConvOf[j] = c
    /\ refresh.left = 0
    /\ Use("mounts", MaxMounts)
    /\ idle' = busy
    /\ refresh' = [left |-> Cardinality(busy), done |-> busy = {},
                   behind |-> {j \in Jobs : phase[j] = "running" /\ ConvOf[j] \in busy}]
    /\ UNCHANGED <<task, wire, marking, phase, outcome, dispatcherVars, runs, stopped, ran,
                   swept, shared>>

\* The agent worker exits and a new one starts: its memory is gone, bunqueue's file stays.
Exit ==
    /\ Use("exits", MaxExits)
    /\ \E recovered \in SUBSET {j \in Jobs : phase[j] \in {"adding"} \cup InWorker} :
         phase' = [j \in Jobs |->
                     IF j \in recovered THEN "waiting"
                     ELSE IF phase[j] \in {"preload", "adding"} \cup InWorker THEN "lost"
                     ELSE phase[j]]
    /\ pending' = {} /\ paused' = FALSE /\ blocked' = FALSE /\ resumeDue' = FALSE
    /\ runs' = [c \in Convs |-> Nobody] /\ idle' = {}
    /\ refresh' = [left |-> 0, done |-> FALSE, behind |-> {}] /\ shared' = {}
    /\ UNCHANGED <<task, wire, marking, outcome, limit, stopped, ran, swept>>

Web ==
    \/ \E j \in Jobs : SendChat(j) \/ SendFails(j) \/ SubmitTimesOut(j)
    \/ \E c \in Convs, only \in Jobs \cup {Nobody} : RequestStop(c, only)
    \/ \E m \in marking : MarkCancelled(m)
    \/ RequestStopAll

AgentTurn(j) ==
    \/ EnqueueUserChat(j) \/ Added(j) \/ RunJob(j) \/ JobStarted(j) \/ Register(j)
    \/ \E r \in {"completed", "failed", "cancelled"} : ReturnReply(j, r)
    \/ OnCompleted(j)

Next ==
    \/ Web
    \/ HandleCommand
    \/ \E j \in Jobs : AgentTurn(j) \/ PreloadFails(j) \/ AddFails(j) \/ JobTimesOut(j) \/ OnFailed(j)
    \/ ResumeWorker \/ Pause \/ Resume
    \/ \E n \in Limits : SetConcurrency(n)
    \/ \E c \in Convs \cup {Nobody} : AddMount(c)
    \/ Exit

Spec == Init /\ [][Next]_vars

\* As long as something is due in an event loop, or a sandbox or a model has an answer to
\* give (both calls have deadlines), one of these steps is taken; which one is left open.
\* Users and crashes owe nothing.
Due ==
    \/ HandleCommand \/ ResumeWorker
    \/ \E m \in marking : MarkCancelled(m)
    \/ \E j \in Jobs : AgentTurn(j)

Fairness == WF_vars(Due)

FairSpec == Spec /\ Fairness

-----------------------------------------------------------------------------
(* Properties.                                                               *)

\* Every variable has its type.
TypeOK ==
    /\ task \in [Jobs -> Statuses]
    /\ wire \in Seq(Commands)
    /\ marking \subseteq Marks
    /\ phase \in [Jobs -> Phases]
    /\ outcome \in [Jobs -> Outcomes]
    /\ pending \subseteq Jobs
    /\ paused \in BOOLEAN /\ blocked \in BOOLEAN /\ resumeDue \in BOOLEAN
    /\ limit \in Limits
    /\ runs \in [Convs -> Jobs \cup {Nobody}]
    /\ stopped \subseteq Jobs /\ ran \subseteq Jobs
    /\ idle \subseteq Convs
    /\ refresh \in Refreshes
    /\ swept \subseteq Jobs /\ shared \subseteq Convs
    /\ counts \in [Bounds -> Nat]

\* A worker paused for the sake of an enqueue is resumed: some enqueue is still to end,
\* or its resume is already scheduled, or the gate is the reason.  And between
\* dispatcher.pause(reason) and resume() it stays paused, whatever enqueues and scheduled
\* resumes are in flight.
PauseIsOwed ==
    /\ paused => blocked \/ resumeDue \/ \E j \in Jobs : phase[j] = "adding"
    /\ blocked => paused

\* A task is "completed" only when its program completed, unless its job was dropped as
\* a leftover of a cancelled, failed or earlier local queue entry.
CompletedMeansAnswered ==
    \A j \in Jobs : task[j] = "completed" => outcome[j] \in {"completed", "leftover"}

\* The program of a chat is started at most once: neither the entries bunqueue recovers
\* after an exit nor its retries run it again.
RunsOnce == [][\A j \in Jobs : phase[j] = "preparing" /\ phase'[j] = "running" => j \notin ran]_vars

\* A stop that arrives while a program of its conversation runs reaches the program, even
\* one whose task already failed by a timeout.  The exception is a conversation with two
\* programs at a time: register overwrites the entry of the first, and clear removes that
\* of either (active-runs.ts:12, 16).
StopReachesRun ==
    [][\A i \in 1..Len(wire) :
         wire[i].kind = "stop" /\ wire[i].conv \notin shared /\ wire' = RemoveAt(wire, i)
           => {j \in InConv(wire[i].conv) : phase[j] = "running"} \subseteq stopped']_vars

\* The mounts are refreshed after every run that was in the way has ended, except those of
\* a conversation that had two programs at a time: there the end of one is taken for that
\* of both, although onIdle promises to wait for the run (active-runs.ts:24).
RefreshWaitsForRuns ==
    refresh.done => \A j \in refresh.behind : phase[j] = "running" => ConvOf[j] \in shared

\* Every task ends, stopped or not, unless its command was lost with the worker or failed
\* before the local queue accepted it, the gate is closed for good, or its job was swept, by
\* a stop_all or by the cancellation of another task of its conversation: nothing marks the
\* tasks of those, and bunqueue's report of the removal may come or not.
TasksEnd ==
    \A j \in Jobs :
        task[j] = "planned"
            ~> \/ task[j] \in Terminal
               \/ phase[j] = "lost" \/ blocked \/ j \in swept
===============================================================================
