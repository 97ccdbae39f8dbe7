# A TLA+ model of the aithy runtime

aithy is a personal AI agent. Its runtime is a handful of JavaScript processes that talk over
websockets and share a SQLite database: a web console that supervises the others, a queue service
that carries commands between them, an agent worker that runs chat turns, a sandbox worker that owns
a micro virtual machine, and a local inference worker that keeps a `llama-server` process. What makes
the program hard is not its algorithms but that everything it does awaits something (a frame, a child
process, a model, a timer, the user) and that everything it read before the await may be untrue after
it. This directory holds TLA+ modules of the protocols between those processes, TLC configurations
that check them on small instances, and TLAPS proofs of their safety properties for every size.

Paths below are relative to the repository root; `rt/` abbreviates `src/runtime/`.

- `PROJECT.json` lists components, runs, mutants, the source lines of every definition, findings,
  hazards and theorems.
- `M.tla` is a component, `MCM.tla` its instance for TLC, `MProofs.tla` its proofs (those of the lock are
  in `SandboxLifecycleProofs.tla`), `*.cfg` the runs.
- `tlc -config lock.cfg MCLifecycleLock.tla` checks a run; `tlapm SandboxLifecycleProofs.tla` checks proofs.

## 1. The system

### Processes and what they share

| process | started by | keeps in memory | shares |
|---|---|---|---|
| web (`src/server`, `rt/supervisor`) | the user | supervisor's children, permission responder, caches | tasks, permission requests, settings (SQLite) |
| queue-service (`rt/services/queue`) | web; never restarted alone | `pendingCommands`, `workers`, `services`, waiters, sessions | `runtime_commands` (SQLite), websockets |
| agent-worker (`rt/services/agent`, `src/agent`) | supervisor | dispatcher, active runs, what it believes of the sandbox | tasks, permission requests, its own bunqueue file |
| sandbox-worker (`rt/services/sandbox`, `src/sandbox`) | supervisor | provider, active session | machines of the host |
| local-inference-worker (`rt/services/local-inference`) | supervisor | router, load key, recovery timer | `router.json`, router processes |

In source (development) mode these are separate processes. Packaged, web, queue-service and agent
share one process and the websockets stay; the models assume separate processes, which allows more
interleavings. Each process is one JavaScript thread: code between two awaits is one step, and the
models' actions are such steps.

### Components, and what makes each correct

**Command bus.** `submit`/`invoke` insert a row and a `pendingCommands` entry; `dispatchAll` walks the
map after every event, claims a row in the table and sends it; the worker runs a handler and sends
`command.complete`; `invoke` waits with a timeout; `hello`, heartbeats, supervisor statuses and closed
sockets change `workers` and `services`; chats are held until sandbox and local inference are ready;
a restart fails every claimed row. Hard: durable claim and volatile send are two things; a socket
that has just closed swallows a frame; there is no redelivery timer. Correct when: nothing is run
twice, nothing dispatchable is left lying, a claim is accounted for, "completed" means done.

**Chat turns.** The web inserts a task and submits `enqueue_user_chat`; the agent preloads the session
and adds a job to bunqueue, pausing the worker around the add; the job prepares, registers its
program in `ActiveRunRegistry`, runs, clears; the task is settled by whichever of four writers comes
last. A stop is three calls from two processes (registry, local queue, task table). Correct when: a
pause is always undone, the gate holds, a turn is run once, a stop reaches a run, completed tasks
were answered, tasks end.

**Service supervisor.** One `ServiceProcess` per role: spawn, exit handler, restart timer with growing
delay, health checks that await queue-service, close with SIGTERM and SIGKILL. Hard: a check acts on
whatever child is current when its answer comes. Correct when: no live child is forgotten, a healthy
service is left alone, supervision settles, close ends.

**Sandbox.** The agent's `SandboxLifecycle` believes the one sandbox idle, starting, live, ...; the
worker has a provider that a change of settings replaces, behind a lock made of promises; commands
take minutes and may time out while the worker goes on. Correct when: lifecycle calls are exclusive
and ordered, one start at a time, nobody is left waiting, the belief is true.

**Permission gate.** A guarded tool call inserts a request and polls it; the web answers or expires
it; the agent has its own deadline; both processes move the task between `running` and
`paused_approval` by reading a row and writing it whole. Correct when: all parties hear one answer,
the user is not asked again for what he refused, a task is shown paused only for a reason.

**Local inference.** A chain of `configure()` calls unloads a router, cleans up a stale one by
`router.json`, starts a new one, warms it; exits, a recovery timer, reloads and shutdown interleave.
Correct when: a worker that is not ready will retry, its router can be found by its successor, it
ends up serving the current settings.

**Automations.** The attentions of the agent: rows with a schedule and a status, a queue of bunqueue
whose schedulers wake them, a run per look, a chat job per run, and at the end of a look two writes, one
to the run and one to the automation. `syncSchedules` works through a list it read before its first
await, calls of it overlap, and the web and the agent's tools change the rows meanwhile. Hard: the
status of the run, the status of the automation, the scheduler and the chat job are four places that
are never written together. Correct when: one look at a time, what is paused stays quiet, a reminder rings
once, a look that was begun is settled.

**Session state.** Two tables in SQLite, three caches of them in queue-service, and in every other
process a copy that is changed first and written through afterwards: each write is a request whose
promise is remembered, `flush` waits for the promises, and a reply carries the state its request was
served in. Hard: replies of earlier requests arrive after later writes, writes time out and are stored
all the same, and several callers of one process share the promises and the errors. Correct when: the
caches have the names and messages of the tables, a process sees its own last write, a flush means stored.

**Background queues.** After a turn the agent tells three queues of bunqueue, for memories, dreams and ideas for
skills. Each has one planned task, one delayed job that every further turn replaces, and a cursor over the
messages of all conversations; a job reads the batch behind the cursor, asks a model about each
conversation, and moves the cursor. An idea for a skill is put to the user in a sub-session, and the answer
is handled by the web. Hard: task, job and cursor are three places; turns go on while a job runs; the add
of a job may fail or be taken for a duplicate. Correct when: no message is passed over, no task is shown as
planned for ever, the user is asked once.

**The rest** (see `PROJECT.json` for each, with the reason): bunqueue wrapper, running a message, tools,
providers, stores of memories, episodes, knowledge and skills, mesh, MCP, Grok subscription, artifacts,
settings, search, the console's functions, pages and routes, scripts, docs. Most of it is I/O, data and
scoring over SQLite, or presentation. Mesh (pairing and calls between instances) and the leases of the MCP
registry are the parts with a protocol that is not modelled.

### How the modules correspond

```
  web  --- ChatTurn (actions) ---------------+      ServiceSupervisor (children, statuses)
   |                                         v            |
   +--> CommandBus: queue-service, table, sockets <-------+
   |        ^ workers' clients and handlers
   |        |
   |   agent: ChatTurn (dispatcher, registry), PermissionGate (tool calls),
   |          SandboxLifecycle (belief) --commands--> SandboxLifecycle (worker) -> LifecycleLock,
   |          Automations (queue, looks, their chat jobs; changed by the web and by tools),
   |          BackgroundQueues (after a turn; replies to a suggestion come from the web)
   +--> SessionState: queue-service's cache of the tables, copies in the web and the agent
   +--> PermissionGate (responder, expiry)
            local-inference: LocalInference (configure, router, router.json)
```

Each module contains all the processes its protocol runs in, so the composition of two processes is
inside a module; other protocols appear as the weakest thing they guarantee. `ChatTurn` sees the bus
as a sequence in which a gated chat may be overtaken by a stop (what `StartedInOrder` of `CommandBus`
leaves open); `Automations` sees the dispatcher as a chat job that waits, is held, runs and ends;
`BackgroundQueues` sees a turn as messages that are stored with or without telling the queue;
`SessionState` sees the sockets of the bus as requests served in the order they were sent, which is how
queue-service handles the frames of one socket; `SandboxLifecycle` sees a provider as a queue of lifecycle calls (what `InCallOrder` and
`Exclusive` of `LifecycleLock` promise); `ServiceSupervisor` and `CommandBus` share the meaning of a
status: the first has one role with pids and freshness, the second three roles and the gate.

## 2. Modules

The variables have the names of the fields they model where the code has a field.

### CommandBus (`rt/services/queue/runtime.ts`, `client.ts`, `rt/store`)

A callback of queue-service is an action guarded by `Idle`. The `dispatchAll` at its end is taken one
row at a time (`Visit`), so that a crash may fall between two durable claims; `publishChatQueueStatus`
ends the callback. `db` survives, everything in `queueVars` does not. `link` tells a connection whose
worker died from one whose queue-service died: only the first is noticed by a `closeSocket`. A client
has a queue of frames each way, handlers that may fail, and completions whose acknowledgement is lost
(`awaiting`), after which it reports the command once more, as failed. Commands are numbered in the
order of submission, which is the order of the map.

### CommandLifecycle (abstract)

What the bus promises to whoever submits a command, without connections, frames, caches or statuses: a
command is submitted, may be claimed, its handler is started at most once and ends well or badly, and its
outcome is completed only if the handler ended well. A failure may be recorded at any time after the
claim, even over a completion (an acknowledgement that was lost), and a restart of queue-service fails
whatever was claimed and leaves what was pending. `CommandBus` implements it under the mapping `outcome <- db`,
`starts <- runs`, `ended <- ended`, `told <- waiters`: every step of the bus is one of these steps or
changes nothing a client can see.

### ChatTurn (`src/agent/dispatcher.ts`, `active-runs.ts`, `run-message.ts`, `rt/services/agent/runtime.ts`, web actions)

`phase[j]` says where the job of a turn is, from `wire` over `adding`, `waiting` and `running` to
`gone`; `task[j]` is the row both processes write. A conversation may have any number of turns;
the registry has one place for it. bunqueue is external: it hands out a waiting job
when it is not paused and has a slot, and after an exit of the process gives back what it had.
A submission may time out for the web and be stored all the same, and a job may time out while its turn
goes on. `swept` (jobs a stop took from the queue without marking their tasks) and `shared` (conversations
whose last program started beside another) are history. `counts` bounds stops, deletions of all sessions,
exits, pauses, mounts and timeouts, each and together.

### ServiceSupervisor (`rt/supervisor/service-supervisor.ts`)

One role, children numbered in the order they were spawned. A health check is a record of what it
looked at (`checks`), so that any number may be awaiting queue-service. Time is abstract: a status is
fresh or stale, a child within its startup grace or not. `StopMs` is the one number: a child told to
stop is gone within it, so a restart delay longer than it finds the predecessor dead. This is why
supervision settles: the delay of `scheduleRestart` grows past it.

### LifecycleLock (`src/sandbox/lifecycle-locked-provider.ts`)

A call is its number; `after[c]` is the promise it found in `this.lifecycle`. `WithLifecycle` replaces
the promise, `WithOperation` does not. `cleared` is the turn between being let through by the idle
waiters and running the inner call.

### SandboxLifecycle (`src/session/sandbox-lifecycle.ts`, `rt/services/sandbox/runtime.ts`, `client.ts`)

The agent's belief (`state`, `hasId`, `ready`), the runs that await a start, the commands on the wire,
the worker's providers, each with its queue of lifecycle calls, and the two reloads a change of
settings sets off (one in the agent, which destroys first, one sent to the worker); a reload reads the
settings, and makes its provider awaits later. `Mishaps` names what may go wrong: a provider call throws, a
call times out while the worker goes on, the worker's status forbids to ask it (`Refused`: nothing is sent),
the settings cannot be resolved, in the agent (`AgentReloadFails`) or in the worker (`ReloadFails`), the worker
dies. A death takes what the worker had claimed, a prefix of the wire; the rest goes to its successor
(`WorkerRestarts`). Every sandbox of a bot has the same name, so an id is there or not.

### PermissionGate (`src/security/permission-gate.ts`, `src/tasks/task-store.ts`, permission actions)

One turn with concurrent tool calls. `agentUpdate` and `webUpdate` are updates of the task between
their read and their write, since `SqliteTaskStore.update` is two statements. Within each process an
update blocks the thread. A card answered after the request was decided shows what the row says
(`RespondLate`). `rules` are the standing decisions; which commands a rule covers is a set of
keys.

### LocalInference (`rt/services/local-inference/*.ts`, `src/local-inference/router.ts`)

`conf` is the await the running `configure()` stands at, from the resolving of the settings on, and `waiting`
the calls behind it. A router process is a pid: `alive`, `told` (SIGTERM sent), `watched` (its exit callback has yet to run);
`removals` are the unawaited removals of `router.json` an exit callback began, `unlinks` those that have read
the file and unlink it next: these are two awaits (`router.ts:169-173`), so the file may have been written in between.
`late` (history) are the unlinks whose file was. The removals `configure()` itself awaits are one step, because only
`configure()` writes the marker; those of shutdown are two again. Pids are used again, but not while the worker
remembers one. `overtaken` is a history variable: an exit was handled while
the last warm-up answer was on its way.

### Automations (`src/automations/*.ts`, `app/server/automation.actions.ts`)

`status` and `kind` are columns, `scheds` and `jobs` what bunqueue holds for them (both survive the
agent). A call of `syncSchedules` is a record of where it stands and which automations it has still to
go through. A run is a number: `run` is its row, `step` how far `processJob` is with it, `chat` its chat
job, `settling` the end of a look between its two writes. A sync may throw at any of its awaits (`SyncFails`),
and `unsynced` remembers why the next one is missing. The clock is left out: a scheduler may wake an
automation at any time.

### SessionState (`rt/services/queue/session-cache.ts`, `session-state-client.ts`, `src/session/*.ts`)

`table` holds the rows, `cache` the three maps of `QueueSessionCache`, `copy[p]` the four maps of a
`RemoteSessionStateStore`. `wire[p]` and `replies[p]` are the two directions of a socket; a reply is a
record of what was true when the request was served. Of rows and summaries the name and the messages are
kept; sessions have no parents. A request is marked `awaited` until it times out.
A tracked promise is the number of its write; `pending[p]` are those no flush has taken, `running[p][f]`
the batch of a flush. An append keeps its number over its second request (`reload`).

### BackgroundQueues (`src/memory/memory-queue.ts`, `src/episodes/dream-queue.ts`, `src/skills/candidate-*.ts`)

`queue` says which of the three a behaviour is about; what they share is one definition, what differs is
guarded by it. `rows` is the table of messages reduced to their conversation, `due` the turns that have
yet to call `enqueueAuto`, `adds` the calls of `queue.add` under way, in their order. `work` is the job being
processed: what is left of its batch, what the detector found, the idea whose sub-session is being
flushed. A model call that throws loses its segment: the job goes on with the next, and what the segment had already
suggested is not counted (`InspectFails`, `PostFails`). `seen`, `unread` (messages whose model call threw), `missed`,
`stranded`, `posts` and `unmarked` are history. A delayed job may start at any
time.

## 3. Runs

Bounds are CONSTANTS in the guards; each is named and commented in the module. Every property of a
passing run has a mutant: a faulty variant of one definition, kept beside it as `X_y`, that violates it.

| run | question | states |
|---|---|---|
| `bus_delivery` | what happens to each command; the bus implements `CommandLifecycle` | 474k |
| `bus_gate` | the chat gate, and that commands are served (fair) | 617k |
| `chat_turns` | turns, stops, deletions, mounts, exits, timeouts (fair) | 925k |
| `supervisor` | children, checks, close (fair) | 43k |
| `supervisor_close` | finding: a start after close | violation |
| `lock` | five calls of the sandbox lock (fair) | 1.5k |
| `sandbox` | agent and worker, reloads and mishaps | 1.8M |
| `permission` | three calls, every race for an answer | 1.24M |
| `local_inference` | one change, three faults (fair) | 1.09M |
| `automations` | looks, schedules, reminders (fair) | 340k |
| `sessions` | caches, copies and flushes | 531k |
| `background` | memories, dreams, skill ideas after a turn | 4.4M |

### What each shows, and why its bounds are enough

**`bus_delivery`.** Two commands for the agent, neither of them a chat, two connections that may overlap or
follow one another, one restart. `ImplementsLifecycle`: the refinement of `CommandLifecycle`, which contains that "completed"
means done, that outcomes settle (only completed to failed is ever rewritten) and that no waiter is told
what the table never said. `StartedAtMostOnce`: no handler is started twice. `RowsMatchTable`: memory and
table agree between all steps, which is what `dispatch` relies on when it trusts a remembered status.
`ClaimAccountedFor`: a claimed row has a frame, a running handler or a completion somewhere, or a
connection of its worker has broken. `StartedInOrder`: no overtaking within a worker and kind (that the gate
keeps chats in order among themselves is left to the proof, whose set of chats is any). Double
delivery needs one command and two connections; overtaking needs two commands; one restart puts any state
of the first life before a second. The proofs of section 4 remove the
bounds from all five properties.

**`bus_gate`** (fair). One chat, one connection per role, one heartbeat beyond the first each.
`NothingStranded`: when a callback is over nothing dispatchable is left, although `setService` returns
early when a status looks the same. `ServedCommandsSettle`: a command whose worker stays, with the gate
open for a chat, is claimed and settled, unless a connection of its worker broke after the claim; that
exception is real (section 5). The gate depends on three roles; more chats pass or wait together.

**`chat_turns`** (fair). Two chats of one conversation, a pool of one or two with one change of its
size, one pause, any two of: stop or task cancellation, delete all sessions, mount, exit, resize, a timeout
of a submission or of a turn. `PauseIsOwed`: the worker is paused while the gate is closed, and otherwise only
while somebody owes it a resume; `CompletedMeansAnswered`, `RunsOnce`; `TasksEnd`: tasks end, unless the
command was lost with the worker or failed before bunqueue accepted it, the gate stays closed, or the job was
swept: by the deletion of all sessions, or by the cancellation of another task of the conversation.
Pauses overlap with two enqueues; two events are what the races in the code need (a stop and an exit, a mount and
a stop). `StopReachesRun` and `RefreshWaitsForRuns` except conversations that are `shared`: the two turns of the run
may follow one another or, in a pool of two, run side by side, and then the registry forgets one of them, although
`onIdle` promises to wait for the run (`active-runs.ts:24-27`; section 5). A conversation stays shared until a
program of it starts with no other beside it. Turns of several conversations share only the queue, the gate and
the countdown of a refresh; what two conversations add to that is in the proofs, for any `ConvOf`.

**`supervisor`** (fair). Four children, one fault, one check in flight, which may outlive several changes
of child. `NoForgottenChild`: a live child is owned, told to stop or about to be, and a restart is
scheduled only while none is owned. `HealthyNeverStopped`: without a fault nothing is stopped.
`SupervisionSettles`: in the end the service is healthy and left alone, or closed. After one fault three restarts can follow, because the remains
of a predecessor (a closing socket, a stale status) count against its successor; if four children were too
few to end the chain, `SupervisionSettles` would fail, since a restart that finds no child left never happens.

**`lock`** (fair). Five calls of either kind: the shortest mix with two lifecycle calls and operations
before, between and behind them. `Exclusive`, `InCallOrder`, `EveryCallEnds`.

**`sandbox`.** Two runs, three commands of the agent, one change of settings, one retried setup, any two
mishaps, at most two of the last three together. `FirstProviderKnown`, `NeverStuck`, `NobodyForgotten`, and
`NewestSettingsUsed`: the settings of the last change come into use, however the reloads of the change and of the
retry overlap, fail or die with the worker, unless both reloads of that change failed. They need not stay in use:
a reload that read the settings before the change may put its provider in place last (section 5), and that is
the one thing the property allows to undo them. Most of these properties speak of states `AtRest`, when nothing is
under way: what is left behind is what counts. A create, the destroy of a reload and another create are three
commands. A change whose two reloads both fail takes three events, so that exception is met in the proof and not in
this run. Runs are symmetric.

**`permission`.** Two calls with one key and a third with another, so that a rule may cover one key or
both; nothing else is bounded. `OneAnswer`, `NoSecondPrompt`,
`PausedForSomebody`.

**`local_inference`** (fair). One change of settings, three faults among failed steps, deaths of a
router or of the worker, and shutdowns. `NotReadyMeansRecovering`; `MarkerKept`: outside a shutdown `router.json`
names the worker's living router, and the one step that loses it is the unlink of a `late` removal, which had
read the file before that router's marker was written; `RecoverySettles` is
the liveness. Five pids: where a start finds all of them taken it waits for an old process to end, as SIGKILL makes it.

**`automations`** (fair). One automation that is recurring or a reminder and may change its kind, two
overlapping calls of `syncSchedules`, two looks, any two of: a change by the user or a tool, a run now,
a failed step or sync, a stop, an exit of the agent. `OneLook`: two looks at one automation are never under way
together, except one whose run was recorded as failed with its chat job already queued. `QuietSchedules`:
when no sync is asked for or under way, bunqueue wakes exactly the active automations, unless a status
changed without a sync, the last sync threw, or two calls overlapped. `ReminderRingsOnce`: a reminder that was delivered is not
delivered again until the user changes it. `EveryLookSettles`: a look ends, unless the agent died over it
or the user stopped it. One automation is enough, since automations share nothing but the list a sync
goes through; two looks and two calls of `syncSchedules` are what can be in each other's way.

**`sessions`.** Two processes, one session that exists or not at first, two flushes per process, any
three of: a write, a preload, a timeout or a replaced process. `CachesMatchTable`: the names and
messages queue-service answers from its caches are those of the tables. `OwnWritesShow`: once the replies are in, a process sees its own
last write, and what it cleared or deleted has not come back. `FlushMeansStored`: a flush returns without
an error only when everything the process wrote is stored, or its failure was thrown by some flush, or
another flush has taken it. `UnsettledIsOnItsWay`: no flush waits for something that will not come. Three calls are what
the races need: a read, a write that overtakes its reply, and a third to look at the result; a longer run
of four calls (6.1M states, from an empty table) found nothing new. Sessions share only the list, and
processes are symmetric.

**`background`.** Two conversations and the sub-sessions, three messages of turns with batches of two (so that
a batch can be full with a message left behind), one idea, one reply at a time, any two of: an explicit
request, a night, a cancelled task, a deleted conversation, a failed turn, a failed step, an exit of the agent.
`EveryMessageShown`: the cursor passes a message only when a model looked at it or the call that should have threw
(`unread`: such a segment is given up, as `tests/memory-queue.test.ts:335` and `tests/dream-queue.test.ts:131`
expect), and when nothing is left to do only messages are left over for which no job came to pass. `NoOrphanTask`: whatever task is shown as planned or
running has a job, or an add on its way, unless the agent died over it or an explicit request could not be
queued. `SuggestedOnce`: an idea is put to the user once, and once more for every time the posting was not
recorded. Two messages can follow one another into one batch while a third arrives behind it; three turns
are also enough to reuse a task, to replace its job, and to add one while that runs. Ideas share nothing
but the limit of suggestions per run.

### Fairness, and why the code justifies it

Weak fairness of a callback or timer that is due: an event loop runs what is queued, and every timer
in these protocols is a `setTimeout` that nothing clears except the actions shown. Beyond that:

- `bus_gate`: as long as a callback, a frame, a handler, a timer of `invoke` or the restart of a stopped
  runtime is due, one of them is taken (one weak fairness of their disjunction: weaker than one for each).
  Handlers return (each command has a deadline in its handler or its caller) and a stopped queue-service is
  started again by the user. No fairness for submitting, connecting or failing.
- `chat_turns`: the same, over the steps of the event loop and of turns; preparing and running a turn end,
  since sandbox and model calls have deadlines. Users owe nothing.
- `automations`: each look goes on, and the two writes at its end are made; chat turns end (`ChatTurn`,
  `TasksEnd`). Nobody owes a tick, a change or a sync.
- `supervisor`: strong fairness for a heartbeat and for some answered check. Heartbeats come every few
  seconds from a process that is not hung, and a check that is asked for often enough is answered
  sometimes; the guard of either may be false in between, so weak fairness would not do. A child that
  hangs is not fair, nor is obedience to SIGTERM of a hung child.
- `lock`: the inner provider's calls end (commands have timeouts).
- `local_inference`: the supervisor starts a dead worker again (`ServiceSupervisor`,
  `SupervisionSettles`); a living router answers; a router need not obey SIGTERM, SIGKILL follows.

Runs that check only safety use `Spec`. Deadlock is not checked: every one of these systems may
properly come to rest (nothing submitted, everything bounded used up), and rest is where `AtRest`
properties look.

## 4. Proofs

TLAPS checks the following from nothing, for every value of the constants that satisfies the named
assumption of the module: the types of the constants, that `None` and its like are none of the other
values, and in `CommandBus` that chats are for the agent. The bounds of the runs are constants too, so a theorem
holds for any number of commands, faults, exits or calls.

| theorem | states | inductive invariant |
|---|---|---|
| **CommandBus** `TypeCorrect` | `TypeOK` | itself |
| `AtMostOnce`, `MemoryMatchesTable` | `StartedAtMostOnce`, `RowsMatchTable` | `OnceInv` |
| `RefinesLifecycle` | `ImplementsLifecycle` | `LifeInv` |
| `NothingIsStranded` | `NothingStranded` | `Unvisited` |
| `ClaimsAccountedFor` | `ClaimAccountedFor` | `ClaimsHeld` |
| `StartsInOrder` | `StartedInOrder` | `Ordered` |
| **ChatTurn** `TurnsTyped` | `TypeOK` | `TypeInv` |
| `CompletedIsAnswered`, `StartsOnce` | `CompletedMeansAnswered`, `RunsOnce` | `TurnInv` |
| `PausesEnd` | `PauseIsOwed` | itself |
| `RefreshIsPatient`, `StopsReachRuns` | `RefreshWaitsForRuns`, `StopReachesRun` | `RunInv` |
| **ServiceSupervisor** `SupervisorTyped` | `TypeOK` | itself |
| `NoChildForgotten` | `NoForgottenChild` | itself, with `Inv` |
| `HealthyIsNotStopped` | `HealthyNeverStopped` | `NothingWrong` |
| **LifecycleLock** `LockTypes`, `LifecycleAlone`, `CallsInOrder` | `LockTypeOK`, `Exclusive`, `InCallOrder` | `LockInv` |
| **SandboxLifecycle** `SandboxTyped` | `TypeOK` | `TypeInv` |
| `RunsAreAnswered`, `AgentIsFree` | `NobodyForgotten`, `NeverStuck` | `AgentInv` |
| `SettingsAreUsed` | `NewestSettingsUsed` | `Newest` |
| `FirstIsKnown` | `FirstProviderKnown` | `FirstInv` |
| **PermissionGate** `PermissionTypes` | `TypeOK` | itself |
| `EveryoneHearsTheSame`, `AsksOnce`, `PausesAreAwaited` | `OneAnswer`, `NoSecondPrompt`, `PausedForSomebody` | `PermInv` |
| **LocalInference** `LocalTypes` | `TypeOK` | itself |
| `RecoveryAhead`, `MarkerNeverLost` | `NotReadyMeansRecovering`, `MarkerKept` | `LocalInv` |
| **Automations** `AutomationsTyped` | `TypeOK` | `TypeInv` |
| `LooksOnceAtATime` | `OneLook` | `LookInv` |
| `RemindersRingOnce` | `ReminderRingsOnce` | `Rung` |
| `SchedulesComeRight` | `QuietSchedules` | `SyncInv` |
| **SessionState** `SessionsTyped` | `TableTyped`, `FlowTyped` | `SessionInv` |
| `CachesAreTrue` | `CachesMatchTable` | `CacheInv` |
| `WritesAreOnTheirWay` | `UnsettledIsOnItsWay` | itself, with `FlowTyped` |
| `FlushedIsStored` | `FlushMeansStored` | `Kept` |
| `OwnWritesAreShown` | `OwnWritesShow` | `OwnInv` |
| **BackgroundQueues** `TasksTyped`, `NoTaskIsOrphaned` | `TypeOK`, `NoOrphanTask` | `TaskInv` |
| `PostedOnce` | `SuggestedOnce` | `PostsCounted` |
| `MessagesShown` | `EveryMessageShown` | `ShownInv` |

The theorems about `LifecycleLock` are in `SandboxLifecycleProofs`, because what the sandbox's model takes
from the lock is what they prove; those about `PermissionGate` are in `ChatTurnProofs`, since the gate is
passed by the tool calls of a turn.

**CommandBus.** `StartedAtMostOnce` is not inductive: a handler starts because a frame is there. `OnceInv`
follows the command backwards. A waiting row is in no frame (`WaitingNotSent`), a command is in at most
one frame of all connections (`SentOnce`), and one in a frame has not been started (`SentNotStarted`).
A frame is only made from a row remembered as pending, which `RowsMatchTable` says is pending in the
table; the claim makes it claimed in both. The steps fall into three kinds (rows move forward only,
a claim, a start), each with a lemma.

The refinement is proved step by step: each action is one step of the abstract command, or none. What it needs is that an
answer still fits its row when queue-service takes it. A success must find its command claimed and its handler
returned, so nothing may overtake it: `LifeInv` says where a command can be (on a wire or running, in one
place: `HeldIsClaimed`, `RunsOnce`), that nothing is said of it before its handler has ended, and that what is
said then is at most one success, before any failure, and on one connection (`SuccessFirst`,
`AwaitedOnce`). `Links` says what a connection that lost one of its ends still carries. `NothingStranded` speaks
of the end of a callback, `Unvisited` of each round of `dispatchAll`: what could be sent is still in the copy
the loop goes through. For `ClaimAccountedFor`, `ClaimsHeld` names the connection that has a claim in hand. For
`StartedInOrder`, `Ordered` says that commands are remembered and sent in the order they were
submitted in and that each wire keeps that order.

**ChatTurn.** A chat has one frame and its job one place (`ChatsOnTheWire`), and a job that can still come to
its program never had it started (`NotYetRun`): so exits, recovered entries and retries of bunqueue start no
program twice. `IdleCounted` says that the countdown of a mount refresh is the number of idle callbacks still
registered, without which the type of `refresh.left` is not inductive. The last two theorems are about any number of
turns of any conversations, run side by side or not. `RunInv` says what the registry knows then: two programs of one
conversation run at a time only where the conversation is `shared` (`OneUnlessShared`); in every other a running
program is in its place in the registry or was told to stop (`Registered`), and its idle callback is still there if a
refresh waits for it (`Awaited`). A start overwrites, and an end clears, the place of its own conversation only, so
what happens to a shared conversation does not reach the others.

**ServiceSupervisor.** `NoForgottenChild` is inductive once an owned child was spawned and `close()` has
begun when its steps are taken. `HealthyNeverStopped` needs to know what a supervisor looks like as long as nothing went wrong
(`Healthy`): one child, the first, whose status is the supervisor's report until its hello and its own then,
and a check that began after the startup window asks about a connected child.

**LifecycleLock.** `FoundLast` says the promise a call found is the last lifecycle call before it.
`TurnsInOrder` says that when a call has gone on behind its await, all lifecycle calls before it have
ended and, if it is one itself, all operations before it have begun. `OperationsCounted` says `activeOperations`
counts exactly the running operations, that the idle waiters are those waiting, and that they wait only
while some operation runs. Together they are inductive; `Exclusive` and `InCallOrder` follow without induction over
the chain, because `TurnsInOrder` is stated for all earlier calls and not only for the last.

**SandboxLifecycle.** The type of `provider` is already a fact about the protocol: a reload makes one provider, and a worker never has
more of them than reloads and crashes (`Counted`, over `Told`: a reload is on the wire or behind the calls of
one provider). `Waits` says that whoever waits for the sandbox waits for a call that is awaited, `Restful`
which beliefs an agent that is not shutting down can have. `Newest` follows the two reloads of the last change among
any number of older ones and retries: the web's is under way or over, the agent's too unless the agent is still at it,
what either reads is the settings as they are, and once one is done they have been in use (`Used`). Of other
reloads it says only that nothing is newer than the last change (`NothingNewer`): they may replace its provider
by an older one, never make it as if the last change had not been read.
`FirstInv` holds until the first reload that makes a provider: while the provider has no machine, all the agent ever
asked for is to create one. After a change whose reloads failed the worker still has its first provider, whose machine
the agent's reload may have destroyed behind a start that has yet to be answered: hence that exception.

**PermissionGate.** `OneAnswer` needs `Heard` (a verdict, or an answer told, is what the row says until it
is pruned), which rests on `Decided` changing pending rows only, and `Requested` (where a call, its row
and its verdict stand to each other). `NoSecondPrompt` needs `Remembered`: while a call of a key waits or
was refused, the turn's decision for that key says so, and there is at most one such call.
`PausedForSomebody` needs what is between a read of the task and its write: the agent is about to write
`paused_approval` only while a call waits, and the web never (`PauseAwaited`).

**LocalInference.** `RecoveryAhead` needs its strengthening to the first backfill (`RetryAhead`).
`MarkerNeverLost` needs that the removals an exit callback leaves behind, read or not, are of dead routers
(`RemovalsOfDead`), and that one that read `router.json` after its last writing found its own marker there or none
(`ReadIsTrue`), so that its unlink takes nothing from the living. What is left are the unlinks in `late`, which the
theorem names. `RemovalsOfDead` holds because outside a shutdown the exits a worker still waits for are of its
own routers (`WatchedIsOwn`), although `handleRouterExit` takes any exit for that of `this.router`. The
invariants say `up = "on"`: during shutdown they are false, and so is the property (section 5).

**Automations.** `OneLook` is not inductive because a chat that starts writes `running` whatever its row
says. `LookInv` says that a chat that may still start (about to be queued, queued with its pending entry, or
started) belongs to a run that has not ended and is not being ended, or to an orphan. With it only
`processJob` makes a run unfinished, and that looks at `hasActiveRun` in the same step (`UnfinishedBefore`,
which also serves the next property). `ReminderRingsOnce` follows a delivered reminder (`Rung`): it is not
active, and a look of it that is being settled, an orphan's for instance, has not read it as active either,
so what the look writes back does not wake it. For `QuietSchedules`, `PartlyRight` says what a call of
`syncSchedules` has made true at each of its stages: what it read still agrees with the table, the
obsolete schedulers are gone, then the obsolete jobs, and what should be scheduled is or is still to come.
A sync that throws takes every automation out of the claim until the next. A change without a sync takes its automation out of the claim, one with a sync ends in a call that
begins anew, and when nothing is left of a call that ran alone, what it has made true is the property.

**SessionState.** For the caches one lemma per request shows that what is cached of its session says what the row
says afterwards (`Matches`), that publishing the list adds only names of rows (`Summarised`), and that the other sessions
are left alone. The rest follows a write through its process. `Kept` says that a reply without an error is of a
write that is stored, that a second request of an append is too, and that each write of a process is
stored, or its error is waiting or thrown, or it is pending or in the batch of a flush; `FlushMeansStored` is what remains
when the last two are empty. That each unsettled write has a request or reply of its own is inductive as it
stands, because whatever takes a reply or a request away settles its write or sends the second request.

`OwnWritesShow` speaks of a process with empty wires, and so says nothing of the steps that lead there.
`OwnInv` says for each process and session, outside the races the property names, what holds while requests and
replies are under way. Each of the four things a copy may show (the name, the loaded messages, the
page, the last id) is right, or a reply still on its way will put it right; and no reply that says something
older comes after that one (`Mended`). While a request that will bring the right reply is on the wire, nothing
need be said (`NameShows`, `MessagesShow`). The other conjuncts are about what the wire may carry: the requests of
writes have not timed out (`Tracked`), nothing asked before a clear or a delete answers about the session
(`Wiped`), no page asked for before an append is under way (`Grown`), and after a delete the process uses the
session only once it has ensured it again (`Deleted`, `Gone`). Whether the process was the last to change the session is a
Boolean of `Own`, so that one lemma per request serves the writer's own requests, those that change
nothing, and those of others.

**BackgroundQueues.** `NoOrphanTask` speaks of tasks, and the steps of bunqueue of jobs. `Owned` counts for a task its job, the
job being processed and the add it was made for; that the replacement of a job by the next turn takes
no other task's job is `AutoTasks` with `OnePlanned` and `PlannedNext`: the adds ahead of a planned task's
own are of that task. `ShownInv` says of each message the queue owes a look that it had it, or that its model call threw (`Looked`), or that it is
in the job's batch, or has a turn, an add or a job ahead. `PostsCounted` counts postings against the idea's status.

**What stays with TLC.** All liveness, since fairness and ENABLED are outside of what the backends handle:
`ServedCommandsSettle`, `TasksEnd`, `SupervisionSettles`, `EveryCallEnds`, `RecoverySettles`,
`EveryLookSettles`. Every safety property of the passing runs is proved. The invariants were checked by TLC on the runs before they were proved, by themselves or, where types are
too large to enumerate, in the parts that say something. No module contains a RECURSIVE operator: the
models need none.

## 5. Findings and observations

One run ends in a counterexample to what the code says of itself.

- **`supervisor_close` / `NoStartAfterClose`** (`service-supervisor.ts:133`). `checkHealth` looks at `closing`
  before it awaits queue-service and not after. A check in flight when `close()` begins schedules a
  restart after `close()` has cleared the timer, and neither `restartFromHealthcheck` nor `start()` looks:
  a child is spawned when the supervisor is closed, and nobody will stop it. The exit handler and
  `recordStartFailure` of the same file do look.

The following were met while modelling. They are exceptions named in properties, or hazards without a
property, and have no run of their own.

- A start of the sandbox under way when the settings change completes in the provider that the worker
  has just replaced. The agent takes the id for live, and every later tool call fails with "session not
  found" until the settings change again (`sandbox-lifecycle.ts:78`; the exception in `FirstProviderKnown`).
- A second turn of a conversation overwrites the entry of the first in `ActiveRunRegistry`, and the end
  of either clears the other's: it is hidden from stop and from `onIdle` (`active-runs.ts:12`, 16; `shared` in the
  properties). The comment at lines 24-27 promises that `onIdle` waits until the run has cleared.
- Deleting all sessions drops the waiting jobs of the local queue without settling their tasks
  (`dispatcher.ts`, `cancelAll`): they stay planned, the exception in `TasksEnd`. So does the cancellation of one
  task: it stops the whole conversation, whose other queued turns are dropped, and marks only that task
  (`app/server/task.actions.ts:19`).
- A chat whose submission timed out for the web is marked failed and runs all the same (`app/server/chat.actions.ts:84-102`),
  and the user, told that it failed, may send it again. A turn that outlives `USER_CHAT_JOB_TIMEOUT` fails its task and
  goes on running.
- `stopAll` and `cancel` of the registry drop queued idle callbacks, so a mount refresh that waits for a
  stopped run is never done.
- A stop that arrives before `runMessage` registers its program stops nothing (`run-message.ts:218`).
- A rejected preload, or a failed submission of `retryTask`, leaves a task planned for ever.
- Overlapping reloads of the sandbox worker may end with the older settings (`rt/services/sandbox/runtime.ts:196-202`:
  each reads the settings first and makes its provider two awaits later; the exception in `NewestSettingsUsed`). When a
  reload fails, nothing tries again until the next change or retry. A reload during a create
  leaves a machine behind; after a change of settings a second start may go out beside the first.
- `SqliteTaskStore.update` reads and then writes: a cancellation in between is overwritten.
- With two calls waiting for approval, the first answer sets the task running while the second waits;
  the death of the agent leaves it `paused_approval` for ever.
- A worker that disconnects leaves its claimed commands claimed until queue-service restarts; a
  completion whose acknowledgement was lost is reported once more, as failed, and the row says failed.
- The local inference worker declares itself ready, and cancels its retry, without a router when the
  router's exit is handled just before the last warm-up answer. A removal of `router.json` begun at the exit of one
  router may read the file before the next router's marker is written and unlink it afterwards (`router.ts:169-173`, the
  exception in `MarkerKept`): when the worker then dies, nobody finds the router it leaves. During shutdown a queued `configure()` may
  start another router, whose marker is lost. A failure of the startup backfill stops a healthy router.

- Automations: a failed look sets an automation to `needs_input` (`completion.ts:90`), and the next
  `syncSchedules` (any change of any automation, or a start of the agent) removes its scheduler. A completed look,
  run by hand, sets it back to `active` and nobody syncs, so nothing wakes it until the next sync, although the
  test "recovers a needs-input automation after a successful run" (`tests/automation-completion.test.ts:31`)
  calls it recovered. Also: two overlapping calls of `syncSchedules` may leave a paused automation scheduled; a look
  whose later step failed is recorded as failed and takes place all the same; a failed look takes an
  archived automation back to `needs_input`; a run whose agent died stays queued for ever and keeps its
  automation from looking again; a reminder whose time comes during a manual look is skipped and lost.
- Sessions: a cleared or deleted session comes back in the copy of the process that did it when the reply
  of an earlier request arrives afterwards (`session-state-client.ts:142`, until the next preload); a
  `flush` may return while another flush of the process waits for the caller's write, and throw the error
  of somebody else's (`session-state-client.ts:45`); `preloadSession` keeps the copy of a session that
  somebody else has deleted (line 33).
- Background queues: `enqueueExplicit` has no `catch`, so a failed add leaves its task planned for ever
  (`memory-queue.ts:181`). A memory job is tried three times, but its task is failed on the first failed
  attempt and stays so when a later one succeeds (line 227; the comment at line 90 says failures are
  recorded once retries are exhausted). A nightly dream that is handed out again after an exit makes another
  task and leaves the first running. A message whose add is taken for a duplicate of the running job waits
  for the next turn. A planned task that the user cancels keeps its job, which runs all the same
  (`app/server/task.actions.ts:21`). A message whose model call threw is passed over for good: the cursor moves past the segment
  (`memory-queue.ts:294`, `dream-queue.ts:235`, `candidate-queue.ts:248`), and tests of two of the queues expect so.
  Two overlapping replies to a suggestion save two skills, and a dismissal while a
  skill is drafted does not stop its saving (`promote-acceptance.ts:125`). A suggestion is made again when
  the agent died before it was recorded.
- Read in the code and not modelled: `createLiveSession` (`session-records.ts:48`) uses the very array of the
  state store for the live transcript, and `appendSessionMessages` (lines 214 and 234) then pushes into it
  twice, so the first batch of a live session made from a preloaded one appears twice in what the model is
  given; and the live session of the agent does not see messages the web appends while it lives.

Hazards met that no property covers (so they are not in `PROJECT.json`): the last heartbeat of a replaced
process after the hello of its successor (`rt/services/queue/runtime.ts:368`; the supervisor's check of
stale heartbeats ends it); the lost idle callbacks (`active-runs.ts:64`) and the stop without a program
above; a preload that fails (`rt/services/agent/runtime.ts:371`); a hung child that ignores SIGTERM beside
its successor (`service-supervisor.ts:233`); the machine left by a reload during a create
(`rt/services/sandbox/runtime.ts:234`); the lost cancellation of `task-store.ts:147`; the call that waits for
approval when the agent dies (`permission-gate.ts:84`). In each the code promises nothing, and a property
would only restate what happens.

## 6. What is not modelled, and why

- Contents: what models say, tools do, memories and skills contain; formats of frames; logs and events.
- Time: timers are ordered by nothing but their causes. The one quantitative fact used is `StopMs`.
- SQLite is atomic per statement and never fails; losing the database file is out of scope. Where a row is read and then
  written by two processes, the two statements are apart in `PermissionGate` (tasks) and at the end of a look in
  `Automations`; elsewhere an update is one step, `SqliteAutomationStore.update` (`src/automations/store.ts:117-149`) for instance,
  although the web may write between its read and its write.
- Two workers of one role at once appear in `CommandBus` (overlapping connections) and, as children, in
  `ServiceSupervisor`; `SandboxLifecycle` and `LocalInference` have one at a time.
- queue-service restarting on its own (nobody restarts it), clients reconnecting (they never do).
- Components listed `not_modelled` in `PROJECT.json`, each with its reason. Most of the repository's lines
  are routes and components of the web interface, prompts, scoring of memories and episodes, generated
  code and adapters of libraries: they keep no state of their own that outlives a call, so there is no
  order of steps in them to get wrong. What is modelled is where processes, queues and tables meet.
- Of the session state, parents: the sessions of `SessionState` are top-level conversations, and of a row or a summary the
  name and the messages are kept. Three things follow from parents in the code and are left out. A child is not
  published, so the list is not loaded for it (`session-cache.ts:48`). An insert fails when its parent was deleted, and the
  optimistic name then stays in the copy of the process that asked. A delete sets the parent of its children
  to NULL (`sqlite-session-schema.ts:74`), while their cached summaries keep it until something else renews them. Also left
  out: token counts and the live session of the agent (`src/session/session-records.ts`); only the copies of the state
  store are modelled.
- Of the sandbox, the web's own resolving of the settings, which may fail before any reload is sent
  (`rt/aithy-runtime.server.ts:331-345`), two changes of the settings in the web at once, and a successor of a dead worker
  that starts before the death is noticed.
- Of the automations, what comes between the requests of one removal: the list of schedulers and the removal of each
  obsolete one are one step. Without an overlapping call, which `QuietSchedules` leaves out anyway, nothing adds a scheduler in
  between.
- Of the background queues, `runNow` of dreams and of skill ideas (`dream-queue.ts:138-178`,
  `candidate-queue.ts:142-189`), which add a job under a key of its own that replaces nothing: outside the tests nothing
  calls them. An idea is the dedupe key of its row, so one that the model rewords under `existingId` and
  that returns under its new key is a new idea here. A store that throws in the middle of a segment (`upsertCandidate`) is not modelled.

## 7. Plan

Written in the order of importance. Done:

1. `CommandBus`: everything else rests on it.
2. `ChatTurn`: what the user sees.
3. `ServiceSupervisor`: what keeps the others alive.
4. `LifecycleLock`, and `SandboxLifecycle` on top of its promises.
5. `PermissionGate`.
6. `LocalInference`.
7. `CommandLifecycle`, the abstract command, and `CommandBus` shown to implement it
   (`ImplementsLifecycle` of `bus_delivery`).
8. `Automations`: one active run per automation, its scheduler and its completions.
9. `SessionState`: the optimistic copy a client keeps while its writes wait for queue-service, and the
   stale answer that overwrites it.
10. `BackgroundQueues`: what happens to a message after its turn.
11. Every hazard of `PROJECT.json` tied to a property, or to the reason in section 5 why there is none.
12. Proofs of every safety property of these modules, and of the refinement (section 4).

Left, in the order of what each would add:

1. An abstract lock (a queue of shared and exclusive calls) implemented by `LifecycleLock`; the proof can
   use `TurnsInOrder` directly.
2. Leases of the MCP registry that a reload replaces (`src/mcp`), and pairing in `src/mesh`.
