------------------------------ MODULE Automations ------------------------------
(***************************************************************************)
(* The attentions of the agent: the automations and automation_runs tables *)
(* (SqliteAutomationStore), the queue that wakes them (AutomationQueue),   *)
(* the chat job each look becomes (AgentDispatcher), what the end of a     *)
(* look does to both tables (completeAutomationRun, failAutomationRun),    *)
(* and the users of all this: the web's server functions and the tools of  *)
(* the agent.                                                              *)
(*                                                                         *)
(* The agent worker is one JavaScript thread and the web another process   *)
(* on the same tables.  An await is a point where the agent may do         *)
(* something else; the two writes at the end of a look are separate steps  *)
(* (settling), between which only the web may write and the agent may die. *)
(* Any other call of the store reads a row and writes it back in one step. *)
(* Bunqueue is external: its schedulers and its jobs outlive the agent,    *)
(* and how long a call of it takes is not known.                           *)
(*                                                                         *)
(* Definitions named X_y are faulty variants of X, used only to test the   *)
(* properties; no specification uses them.                                 *)
(***************************************************************************)
EXTENDS Naturals, FiniteSets

CONSTANTS
  Autos,       \* automations that may be created
  Kinds,       \* schedules they may have, a subset of AllKinds
  Syncs,       \* names of the calls of syncSchedules that may overlap
  MaxRuns,     \* bound: looks, over all automations
  MaxEvents,   \* bound: changes by the user or a tool, calls of runNow, failures,
               \* stops of a look and exits of the agent worker, together
  Nobody       \* no run, no automation

AllKinds == {"recurring", "once", "reminder"}
Runs == 1..MaxRuns

ASSUME AutomationsAssumption ==
  /\ Kinds \subseteq AllKinds
  /\ MaxRuns \in Nat /\ MaxEvents \in Nat
  /\ Nobody \notin Autos \cup Runs

VARIABLES
  status,     \* column of automations, "absent" before the insert
  kind,       \* schedule_json and attention_type: a cron or an interval is
              \* "recurring", a one-time reminder is "reminder"
  scheds,     \* job schedulers of bunqueue (durable)
  jobs,       \* jobs of the automations queue that wait (durable)
  wire,       \* automations.sync commands on their way to the agent
  syncs,      \* calls of syncSchedules under way
  job,        \* the job each run was made for: its automation and its source
  run,        \* status column of automation_runs, "none" before the insert
  step,       \* how far processJob is with a run
  chat,       \* the chat job of a run
  held,       \* runs whose chat job is in AgentDispatcher.pending
  stopped,    \* runs whose conversation was stopped
  settling,   \* the end of a look between its writes
  unsynced,   \* history: why the next sync is missing: a change that asked for
              \* none, or a sync that threw
  overlap,    \* history: the last syncs did not run one after the other
  rang,       \* history: automations whose reminder was delivered since
              \* the user last changed them, and which are reminders still
  orphans,    \* history: runs recorded as failed with their chat queued
  events      \* how much of MaxEvents is used

tables == <<status, kind, job, run>>
queueVars == <<scheds, jobs>>
syncVars == <<wire, syncs, unsynced, overlap>>
lookVars == <<step, chat, held, stopped, settling, rang, orphans>>
vars == <<tables, queueVars, syncVars, lookVars, events>>

Statuses == {"absent", "active", "paused", "needs_input", "archived"}
Unfinished == {"queued", "running"}
Terminal == {"completed", "failed", "cancelled"}
Sources == {"tick", "once", "manual"}
Steps == {"none", "flushing", "adding", "linking", "done"}
Chats == {"none", "waiting", "starting", "running", "ended", "lost"}

Job(a, source) == [auto |-> a, source |-> source]
NoJob == Job(Nobody, "none")

Event == events < MaxEvents /\ events' = events + 1

NoSync == [stage |-> "none", active |-> {}, left |-> {}, adding |-> Nobody]
Idle(s) == syncs[s] = NoSync

NotSettling ==
  [run |-> Nobody, result |-> "none", seen |-> "none", kind |-> "none", written |-> FALSE]

(* The agent's thread runs something else only between two callbacks. *)
AgentFree == settling = NotSettling

(* Automations made earlier are active and scheduled. *)
Init ==
  /\ status \in [Autos -> {"absent", "active"}]
  /\ kind \in [Autos -> Kinds]
  /\ scheds = {a \in Autos : status[a] = "active" /\ kind[a] = "recurring"}
  /\ jobs = {Job(a, "once") : a \in {b \in Autos : status[b] = "active" /\ kind[b] # "recurring"}}
  /\ wire = 0
  /\ syncs = [s \in Syncs |-> NoSync]
  /\ job = [r \in Runs |-> NoJob]
  /\ run = [r \in Runs |-> "none"]
  /\ step = [r \in Runs |-> "none"]
  /\ chat = [r \in Runs |-> "none"]
  /\ held = {} /\ stopped = {}
  /\ settling = NotSettling
  /\ unsynced = [a \in Autos |-> "no"] /\ overlap = FALSE
  /\ rang = {} /\ orphans = {}
  /\ events = 0

-----------------------------------------------------------------------------
(* The store.                                                              *)

hasActiveRun(a) == \E r \in Runs : job[r].auto = a /\ run[r] \in Unfinished

Exists(a) == status[a] # "absent"

insert(a) == status' = [status EXCEPT ![a] = "active"] /\ UNCHANGED kind
update(a, s) == status' = [status EXCEPT ![a] = s]

createRun(r, j) ==
  /\ job' = [job EXCEPT ![r] = j]
  /\ run' = [run EXCEPT ![r] = "queued"]
(* Any status may replace any other. *)
updateRun(r, s) == run' = [run EXCEPT ![r] = s]

-----------------------------------------------------------------------------
(* syncSchedules                                                           *)

(* The call reads the active automations at once, with their schedules, and *)
(* works its way through them between awaits.                              *)
active == {[auto |-> a, kind |-> kind'[a]] : a \in {b \in Autos : status'[b] = "active"}}
Called == [stage |-> "schedulers", active |-> active, left |-> {}, adding |-> Nobody]

StartSync(s) ==
  /\ Idle(s)
  /\ syncs' = [syncs EXCEPT ![s] = Called]
  /\ unsynced' = [a \in Autos |-> "no"]
  /\ overlap' = \E other \in Syncs : ~Idle(other)

Of(s, kinds) == {e.auto : e \in {f \in syncs[s].active : f.kind \in kinds}}

(* Once nothing is left to add, the call is over. *)
Upserts(s, left, adding) ==
  IF left = {} /\ adding = Nobody THEN NoSync
  ELSE [syncs[s] EXCEPT !.stage = "upserts", !.left = left, !.adding = adding]

RemoveSchedulers_anyKind(s) ==
  /\ AgentFree /\ syncs[s].stage = "schedulers"
  /\ scheds' = scheds \cap Of(s, AllKinds)
  /\ syncs' = [syncs EXCEPT ![s].stage = "jobs"]
  /\ UNCHANGED <<tables, jobs, wire, unsynced, overlap, lookVars, events>>

(* getJobSchedulers and a removeJobScheduler for each obsolete one; of     *)
(* what these awaits let in, only an overlapping call adds a scheduler.    *)
RemoveSchedulers(s) ==
  /\ AgentFree /\ syncs[s].stage = "schedulers"
  /\ scheds' = scheds \cap Of(s, {"recurring"})
  /\ syncs' = [syncs EXCEPT ![s].stage = "jobs"]
  /\ UNCHANGED <<tables, jobs, wire, unsynced, overlap, lookVars, events>>

removeObsoleteOnceJobs(s) ==
  /\ AgentFree /\ syncs[s].stage = "jobs"
  /\ jobs' = {j \in jobs : j.source = "once" => j.auto \in Of(s, {"once", "reminder"})}
  /\ syncs' = [syncs EXCEPT ![s] = Upserts(s, syncs[s].active, Nobody)]
  /\ UNCHANGED <<tables, scheds, wire, unsynced, overlap, lookVars, events>>

Upserting(s, e) ==
  /\ AgentFree
  /\ syncs[s].stage = "upserts" /\ syncs[s].adding = Nobody
  /\ e \in syncs[s].left

upsertSchedule(s, e) ==
  /\ Upserting(s, e)
  /\ e.kind = "recurring"
  /\ scheds' = scheds \cup {e.auto}
  /\ syncs' = [syncs EXCEPT ![s] = Upserts(s, syncs[s].left \ {e}, Nobody)]
  /\ UNCHANGED <<tables, jobs, wire, unsynced, overlap, lookVars, events>>

(* upsertOnceSchedule: nothing while a look is under way; else the job is  *)
(* removed, which an await later is followed by the new one.               *)
upsertOnceSchedule(s, e) ==
  /\ Upserting(s, e)
  /\ e.kind # "recurring"
  /\ IF hasActiveRun(e.auto)
     THEN /\ syncs' = [syncs EXCEPT ![s] = Upserts(s, syncs[s].left \ {e}, Nobody)]
          /\ UNCHANGED jobs
     ELSE /\ syncs' = [syncs EXCEPT ![s] = Upserts(s, syncs[s].left \ {e}, e.auto)]
          /\ jobs' = jobs \ {Job(e.auto, "once")}
  /\ UNCHANGED <<tables, scheds, wire, unsynced, overlap, lookVars, events>>

AddOnceJob(s) ==
  /\ AgentFree
  /\ syncs[s].adding # Nobody
  /\ jobs' = jobs \cup {Job(syncs[s].adding, "once")}
  /\ syncs' = [syncs EXCEPT ![s] = Upserts(s, syncs[s].left, Nobody)]
  /\ UNCHANGED <<tables, scheds, wire, unsynced, overlap, lookVars, events>>

(* Bunqueue fails one of its requests: syncSchedules throws where it is,    *)
(* and nothing calls it again by itself.                                   *)
SyncFails(s) ==
  /\ AgentFree /\ ~Idle(s)
  /\ Event
  /\ syncs' = [syncs EXCEPT ![s] = NoSync]
  /\ unsynced' = [a \in Autos |-> "sync"]
  /\ UNCHANGED <<tables, queueVars, wire, overlap, lookVars>>

(* The agent receives automations.sync. *)
HandleSync(s) ==
  /\ AgentFree
  /\ wire > 0
  /\ wire' = wire - 1
  /\ UNCHANGED <<tables, queueVars, lookVars, events>>
  /\ StartSync(s)

-----------------------------------------------------------------------------
(* Changes: the web writes the row and submits automations.sync, which may *)
(* fail; a tool writes the row and calls syncSchedules itself.             *)

WebSubmits(a) ==
  \/ wire' = wire + 1 /\ UNCHANGED <<syncs, unsynced, overlap>>
  \/ unsynced' = [unsynced EXCEPT ![a] = "submit"] /\ UNCHANGED <<wire, syncs, overlap>>

ToolSyncs == AgentFree /\ UNCHANGED wire /\ \E s \in Syncs : StartSync(s)

Change(a) ==
  /\ Event
  /\ rang' = rang \ {a}
  /\ WebSubmits(a) \/ ToolSyncs
  /\ UNCHANGED <<queueVars, job, run, step, chat, held, stopped, settling, orphans>>

(* createAutomation of the web, create of the tools *)
create(a) ==
  /\ ~Exists(a)
  /\ insert(a)
  /\ Change(a)

(* pause, resume and archive, whatever the status is *)
SetStatus(a, s) ==
  /\ Exists(a)
  /\ update(a, s) /\ UNCHANGED kind
  /\ Change(a)

(* updateAutomation: the web only *)
updateAutomation(a, k) ==
  /\ Exists(a)
  /\ update(a, IF status[a] = "needs_input" THEN "active" ELSE status[a])
  /\ kind' = [kind EXCEPT ![a] = k]
  /\ Event
  /\ rang' = rang \ {a}
  /\ WebSubmits(a)
  /\ UNCHANGED <<queueVars, job, run, step, chat, held, stopped, settling, orphans>>

runNow(a) ==
  /\ AgentFree
  /\ status[a] \notin {"absent", "archived"}
  /\ ~hasActiveRun(a)
  /\ Event
  /\ jobs' = jobs \cup {Job(a, "manual")}
  /\ UNCHANGED <<tables, scheds, syncVars, lookVars>>

-----------------------------------------------------------------------------
(* Looks                                                                   *)

(* A scheduler adds a job, never a second one (preventOverlap). *)
Tick(a) ==
  /\ a \in scheds
  /\ Job(a, "tick") \notin jobs
  /\ jobs' = jobs \cup {Job(a, "tick")}
  /\ UNCHANGED <<tables, scheds, syncVars, lookVars, events>>

Skipped_overlapping(j) ==
  \/ status[j.auto] \in {"absent", "archived"}
  \/ j.source # "manual" /\ status[j.auto] # "active"
Skipped(j) ==
  \/ status[j.auto] \in {"absent", "archived"}
  \/ j.source # "manual" /\ status[j.auto] # "active"
  \/ hasActiveRun(j.auto)

Skip(j) ==
  /\ AgentFree
  /\ j \in jobs /\ Skipped(j)
  /\ jobs' = jobs \ {j}
  /\ UNCHANGED <<tables, scheds, syncVars, lookVars, events>>

(* processJob up to its first await, the flush of the session state. *)
processJob(j, r) ==
  /\ AgentFree
  /\ j \in jobs /\ ~Skipped(j)
  /\ job[r] = NoJob /\ \A q \in 1..(r - 1) : job[q] # NoJob
  /\ jobs' = jobs \ {j}
  /\ createRun(r, j)
  /\ step' = [step EXCEPT ![r] = "flushing"]
  /\ UNCHANGED <<status, kind, scheds, syncVars, chat, held, stopped, settling, rang,
                 orphans, events>>

(* enqueueAgentRun after the flush: the task, and enqueueUserChat up to    *)
(* its await.                                                              *)
enqueueAgentRun(r) ==
  /\ AgentFree
  /\ step[r] = "flushing"
  /\ step' = [step EXCEPT ![r] = "adding"]
  /\ held' = held \cup {r}
  /\ UNCHANGED <<tables, queueVars, syncVars, chat, stopped, settling, rang, orphans, events>>

(* Bunqueue has accepted the chat job. *)
Accepted(r) ==
  /\ AgentFree
  /\ step[r] = "adding"
  /\ step' = [step EXCEPT ![r] = "linking"]
  /\ chat' = [chat EXCEPT ![r] = "waiting"]
  /\ UNCHANGED <<tables, queueVars, syncVars, held, stopped, settling, rang, orphans, events>>

(* The task is linked to its job and updateNextRun has returned. *)
updateNextRun(r) ==
  /\ AgentFree
  /\ step[r] = "linking"
  /\ step' = [step EXCEPT ![r] = "done"]
  /\ UNCHANGED <<tables, queueVars, syncVars, chat, held, stopped, settling, rang, orphans,
                 events>>

(* The end of a look reads the automation ... *)
Settle(r, result) ==
  LET a == job[r].auto
  IN settling' = [run |-> r, result |-> result, seen |-> status[a], kind |-> kind[a],
                  written |-> FALSE]

(* Any of the steps of processJob throws.  The chat job may be queued. *)
ProcessFails(r) ==
  /\ AgentFree
  /\ step[r] \in {"flushing", "adding", "linking"}
  /\ Event
  /\ step' = [step EXCEPT ![r] = "done"]
  /\ held' = IF step[r] = "linking" THEN held ELSE held \ {r}
  /\ orphans' = IF step[r] = "linking" THEN orphans \cup {r} ELSE orphans
  /\ Settle(r, "failed")
  /\ UNCHANGED <<tables, queueVars, syncVars, chat, stopped, rang>>

runJob_silent(r) ==
  /\ AgentFree
  /\ chat[r] = "waiting"
  /\ chat' = [chat EXCEPT ![r] = IF r \in held THEN "starting" ELSE "ended"]
  /\ UNCHANGED <<tables, queueVars, syncVars, step, held, stopped, settling, rang, orphans,
                 events>>

(* AgentDispatcher.runJob: a job that is not pending any more is a leftover *)
(* and its result says completed.                                          *)
runJob(r) ==
  /\ AgentFree
  /\ chat[r] = "waiting"
  /\ IF r \in held
     THEN chat' = [chat EXCEPT ![r] = "starting"] /\ UNCHANGED settling
     ELSE chat' = [chat EXCEPT ![r] = "ended"] /\ Settle(r, "completed")
  /\ UNCHANGED <<tables, queueVars, syncVars, step, held, stopped, rang, orphans, events>>

onStarted(r) ==
  /\ AgentFree
  /\ chat[r] = "starting"
  /\ chat' = [chat EXCEPT ![r] = "running"]
  /\ updateRun(r, "running")
  /\ UNCHANGED <<status, kind, job, queueVars, syncVars, step, held, stopped, settling, rang,
                 orphans, events>>

(* The reply; bunqueue may report nothing of a job that was cancelled. *)
onCompleted(r, result) ==
  /\ AgentFree
  /\ chat[r] = "running"
  /\ result = "cancelled" => r \in stopped
  /\ chat' = [chat EXCEPT ![r] = "ended"]
  /\ held' = held \ {r}
  /\ Settle(r, result) \/ (r \in stopped \ held /\ UNCHANGED settling)
  /\ UNCHANGED <<tables, queueVars, syncVars, step, stopped, rang, orphans, events>>

(* The chat job throws; bunqueue may try it again, without its pending entry. *)
onFailed(r) ==
  /\ AgentFree
  /\ chat[r] \in {"starting", "running"}
  /\ Event
  /\ \E next \in {"ended", "waiting"} : chat' = [chat EXCEPT ![r] = next]
  /\ held' = held \ {r}
  /\ Settle(r, "failed")
  /\ UNCHANGED <<tables, queueVars, syncVars, step, stopped, rang, orphans>>

(* The user stops the conversation of a look: activeRuns.stop and          *)
(* cancelByConversation.  Of a queued job bunqueue may report nothing.     *)
Stop(r) ==
  /\ AgentFree
  /\ chat[r] \in {"waiting", "starting", "running"}
  /\ Event
  /\ stopped' = stopped \cup {r}
  /\ \/ held' = held \ {r}
     \/ chat[r] = "waiting" /\ UNCHANGED held
  /\ UNCHANGED <<tables, queueVars, syncVars, step, chat, settling, rang, orphans>>

(* ... then writes its run ... *)
WriteRun ==
  /\ ~AgentFree /\ ~settling.written
  /\ updateRun(settling.run, settling.result)
  /\ settling' = [settling EXCEPT !.written = TRUE]
  /\ UNCHANGED <<status, kind, job, queueVars, syncVars, step, chat, held, stopped, rang,
                 orphans, events>>

automationStatusAfterRun_keepsReminder(current, result, k) ==
  CASE result = "failed" -> "needs_input"
    [] result = "cancelled" -> current
    [] OTHER -> IF current \in {"paused", "archived"} THEN current ELSE "active"
automationStatusAfterRun(current, result, k) ==
  CASE result = "failed" -> "needs_input"
    [] result = "cancelled" -> current
    [] result = "completed" /\ k = "reminder" -> "archived"
    [] OTHER -> IF current \in {"paused", "archived"} THEN current ELSE "active"

(* ... and the status that follows from what it has read. *)
WriteStatus ==
  LET a == job[settling.run].auto
      next == automationStatusAfterRun(settling.seen, settling.result, settling.kind)
  IN /\ ~AgentFree /\ settling.written
     /\ update(a, next)
     /\ settling' = NotSettling
     /\ unsynced' = [unsynced EXCEPT ![a] =
                        IF next = status[a] THEN @ ELSE "look"]
     /\ rang' = IF settling.kind = "reminder" /\ kind[a] = "reminder"
                   /\ settling.result = "completed"
                THEN rang \cup {a} ELSE rang
     /\ UNCHANGED <<kind, job, run, queueVars, wire, syncs, overlap, step, chat, held, stopped,
                    orphans, events>>

-----------------------------------------------------------------------------
(* The agent worker exits and starts again: its memory is lost and the     *)
(* first thing it does is a call of syncSchedules.  Bunqueue recovers the  *)
(* jobs that were being processed, or does not.                            *)
Exit(s) ==
  LET busy == {r \in Runs : step[r] \in {"flushing", "adding", "linking"}}
      unsaid == {r \in Runs : ~settling.written /\ r = settling.run}
  IN /\ Event
     /\ UNCHANGED tables
     /\ \E again \in SUBSET busy : jobs' = jobs \cup {job[r] : r \in again}
     /\ \E recovered \in SUBSET {r \in Runs : step[r] = "adding" \/ chat[r] \in {"starting", "running"}} :
          chat' = [r \in Runs |->
                     IF r \in recovered THEN "waiting"
                     ELSE IF step[r] \in {"flushing", "adding"} \/ chat[r] \in {"starting", "running"}
                             \/ r \in unsaid
                          THEN "lost" ELSE chat[r]]
     /\ step' = [r \in Runs |-> IF r \in busy THEN "done" ELSE step[r]]
     /\ held' = {}
     /\ settling' = NotSettling
     /\ syncs' = [x \in Syncs |-> IF x = s THEN Called ELSE NoSync]
     /\ unsynced' = [a \in Autos |-> "no"]
     /\ overlap' = FALSE
     /\ UNCHANGED <<scheds, wire, stopped, rang, orphans>>

-----------------------------------------------------------------------------
Sync(s) ==
  \/ RemoveSchedulers(s) \/ removeObsoleteOnceJobs(s)
  \/ \E e \in syncs[s].left : upsertSchedule(s, e) \/ upsertOnceSchedule(s, e)
  \/ AddOnceJob(s)

Look(r) ==
  \/ enqueueAgentRun(r) \/ Accepted(r) \/ updateNextRun(r)
  \/ runJob(r) \/ onStarted(r)
  \/ \E result \in Terminal : onCompleted(r, result)

User ==
  \E a \in Autos :
    \/ create(a)
    \/ \E s \in {"active", "paused", "archived"} : SetStatus(a, s)
    \/ \E k \in Kinds : updateAutomation(a, k)
    \/ runNow(a)

Next ==
  \/ User
  \/ \E s \in Syncs : HandleSync(s) \/ Sync(s) \/ SyncFails(s) \/ Exit(s)
  \/ \E a \in Autos : Tick(a)
  \/ \E j \in jobs : Skip(j) \/ \E r \in Runs : processJob(j, r)
  \/ \E r \in Runs : Look(r) \/ ProcessFails(r) \/ onFailed(r) \/ Stop(r)
  \/ WriteRun \/ WriteStatus

Spec == Init /\ [][Next]_vars

(* A look under way goes on: queue-service answers the flush, bunqueue the *)
(* add, and the sandbox and the model the chat (each has a deadline).      *)
Fairness ==
  /\ \A r \in Runs : WF_vars(Look(r))
  /\ WF_vars(WriteRun) /\ WF_vars(WriteStatus)

FairSpec == Spec /\ Fairness

-----------------------------------------------------------------------------
(* Properties *)

Entries == [auto : Autos, kind : Kinds]
Calls == [stage : {"none", "schedulers", "jobs", "upserts"}, active : SUBSET Entries,
          left : SUBSET Entries, adding : Autos \cup {Nobody}]

(* Every variable stays in its range. *)
TypeOK ==
  /\ status \in [Autos -> Statuses]
  /\ kind \in [Autos -> Kinds]
  /\ scheds \subseteq Autos
  /\ jobs \subseteq [auto : Autos, source : Sources]
  /\ wire \in Nat
  /\ syncs \in [Syncs -> Calls]
  /\ job \in [Runs -> [auto : Autos, source : Sources] \cup {NoJob}]
  /\ run \in [Runs -> {"none"} \cup Unfinished \cup Terminal]
  /\ step \in [Runs -> Steps]
  /\ chat \in [Runs -> Chats]
  /\ held \subseteq Runs /\ stopped \subseteq Runs
  /\ settling \in [run : Runs, result : Terminal, seen : Statuses, kind : Kinds,
                   written : BOOLEAN] \cup {NotSettling}
  /\ unsynced \in [Autos -> {"no", "submit", "look", "sync"}]
  /\ overlap \in BOOLEAN
  /\ rang \subseteq Autos /\ orphans \subseteq Runs
  /\ events \in Nat

(* An automation has one look at a time, whoever asks for it: its own      *)
(* schedule, the user, a tool, or a job bunqueue hands back after an exit. *)
(* A look recorded as failed after its chat was queued is the exception:   *)
(* the chat still starts and the row says running again.                   *)
OneLook ==
  \A q, r \in Runs :
    run[q] \in Unfinished /\ run[r] \in Unfinished /\ job[q].auto = job[r].auto
      => q = r \/ {q, r} \cap orphans # {}

Quiet == AgentFree /\ wire = 0 /\ \A s \in Syncs : Idle(s)

(* When nothing is left to do, bunqueue wakes the active automations and   *)
(* no others, whatever was created, paused, edited, resumed or archived    *)
(* while an earlier call of syncSchedules was under way -- unless a status *)
(* changed without a sync (a submission that failed, the end of a look),   *)
(* the last sync threw, or two calls overlapped, the later of which may    *)
(* finish first.                                                           *)
QuietSchedules ==
  Quiet /\ ~overlap =>
    \A a \in Autos : unsynced[a] = "no" =>
      /\ a \in scheds <=> (status[a] = "active" /\ kind[a] = "recurring")
      /\ Job(a, "once") \in jobs => status[a] = "active" /\ kind[a] # "recurring"

(* A reminder that has been delivered does not ring again by itself: not   *)
(* from a call of syncSchedules that took it for active, not from a job    *)
(* handed back after an exit, only after the user has changed it.          *)
ReminderRingsOnce ==
  [][\A r \in Runs : run[r] = "none" /\ run'[r] = "queued" /\ job'[r].source # "manual"
       => job'[r].auto \notin rang]_vars

(* A look that is queued or running ends, unless the agent died with it or *)
(* the user stopped it.                                                    *)
EveryLookSettles ==
  \A r \in Runs :
    run[r] \in Unfinished ~> run[r] \in Terminal \/ chat[r] = "lost" \/ r \in stopped

===============================================================================
