---------------------------- MODULE AutomationsProofs ----------------------------
(* Proofs about Automations, for any automations and schedules, any number of      *)
(* calls of syncSchedules under way and any number of looks and events.            *)
EXTENDS Automations, TLAPS

(* What has begun stands on the run that was made for it.  A call of         *)
(* syncSchedules has left only what it has read, and adds a job only while   *)
(* it upserts.                                                               *)
Made ==
  /\ \A r \in Runs : job[r] = NoJob => step[r] = "none" /\ chat[r] = "none" /\ run[r] = "none"
  /\ ~AgentFree => job[settling.run] # NoJob
Reading ==
  \A s \in Syncs : /\ syncs[s].left \subseteq syncs[s].active
                   /\ syncs[s].adding # Nobody => syncs[s].stage = "upserts"

TypeInv == TypeOK /\ Made /\ Reading

-----------------------------------------------------------------------------
(* Types.                                                                    *)

JobNames == [auto : Autos, source : Sources]
Settlings ==
  [run : Runs, result : Terminal, seen : Statuses, kind : Kinds, written : BOOLEAN]

LEMMA JobKinds ==
  /\ \A a \in Autos, source \in Sources : Job(a, source) \in JobNames
  /\ \A a, source : Job(a, source).auto = a /\ Job(a, source).source = source
  /\ \A j \in JobNames : j = Job(j.auto, j.source) /\ j.auto \in Autos /\ j.source \in Sources
  /\ NoJob \notin JobNames
  /\ {"tick", "once", "manual"} \subseteq Sources
BY AutomationsAssumption DEF Job, JobNames, NoJob, Sources

(* While a look is being settled, it is known which. *)
LEMMA Settled ==
  ASSUME TypeInv, ~AgentFree
  PROVE  /\ settling \in Settlings /\ settling.run \in Runs
         /\ job[settling.run] \in JobNames /\ job[settling.run].auto \in Autos
<1>1. settling \in Settlings
  BY DEF TypeInv, TypeOK, AgentFree, Settlings
<1>2. settling.run \in Runs
  BY <1>1 DEF Settlings
<1>3. job[settling.run] \in JobNames
  BY <1>2 DEF TypeInv, TypeOK, Made, JobNames
<1>. QED
  BY <1>1, <1>2, <1>3, JobKinds

LEMMA NobodySettles ==
  /\ NotSettling.run \notin Runs
  /\ NotSettling \notin Settlings
BY AutomationsAssumption DEF NotSettling, Settlings

(* The end of a look is begun for a look that was made. *)
LEMMA SettleTypes ==
  ASSUME TypeInv, NEW r \in Runs, job[r] # NoJob, NEW result \in Terminal, Settle(r, result)
  PROVE  settling' \in Settlings /\ settling'.run = r
<1>1. job[r].auto \in Autos
  BY JobKinds DEF TypeInv, TypeOK, JobNames
<1>2. status[job[r].auto] \in Statuses /\ kind[job[r].auto] \in Kinds
  BY <1>1 DEF TypeInv, TypeOK
<1>. QED
  BY <1>2 DEF Settle, Settlings

LEMMA CallTypes ==
  /\ NoSync \in Calls /\ NoSync.left = {} /\ NoSync.active = {}
  /\ NoSync.stage = "none" /\ NoSync.adding = Nobody
BY DEF NoSync, Calls

LEMMA CalledTypes ==
  ASSUME status' \in [Autos -> Statuses], kind' \in [Autos -> Kinds]
  PROVE  /\ Called \in Calls /\ Called.left = {} /\ Called.adding = Nobody
         /\ Called.stage = "schedulers"
<1>1. active \subseteq Entries
  BY DEF active, Entries
<1>. HIDE DEF active, Entries
<1>. QED
  BY <1>1 DEF Called, Calls

LEMMA StartTypes ==
  ASSUME TypeInv, NEW s \in Syncs, StartSync(s),
         status' \in [Autos -> Statuses], kind' \in [Autos -> Kinds]
  PROVE  /\ syncs' \in [Syncs -> Calls] /\ Reading'
         /\ unsynced' \in [Autos -> {"no", "submit", "look", "sync"}] /\ overlap' \in BOOLEAN
<1>1. Called \in Calls /\ Called.left = {} /\ Called.adding = Nobody
  BY CalledTypes
<1>2. syncs' = [syncs EXCEPT ![s] = Called] /\ syncs \in [Syncs -> Calls]
  BY DEF StartSync, TypeInv, TypeOK
<1>3. syncs' \in [Syncs -> Calls]
  BY <1>1, <1>2
<1>4. Reading'
  BY <1>1, <1>2 DEF Reading, TypeInv
<1>. QED
  BY <1>3, <1>4 DEF StartSync

(* The calls that go on with what they have read. *)
LEMMA UpsertTypes ==
  ASSUME TypeInv, NEW s \in Syncs, NEW left, left \subseteq syncs[s].active,
         NEW adding \in Autos \cup {Nobody}, syncs' = [syncs EXCEPT ![s] = Upserts(s, left, adding)]
  PROVE  syncs' \in [Syncs -> Calls] /\ Reading'
<1>1. syncs[s] \in Calls /\ syncs \in [Syncs -> Calls]
  BY DEF TypeInv, TypeOK
<1>2. left \subseteq Entries
  BY <1>1 DEF Calls
<1>3. Upserts(s, left, adding) \in Calls
  BY <1>1, <1>2, CallTypes DEF Upserts, Calls
<1>4. /\ Upserts(s, left, adding).left \subseteq Upserts(s, left, adding).active
      /\ Upserts(s, left, adding).adding # Nobody => Upserts(s, left, adding).stage = "upserts"
  BY <1>1, CallTypes DEF Upserts, Calls
<1>5. Reading'
  BY <1>1, <1>4 DEF Reading, TypeInv
<1>. QED
  BY <1>1, <1>3, <1>5

LEMMA InitTypes == Init => TypeInv
<1>. SUFFICES ASSUME Init PROVE TypeInv
  OBVIOUS
<1>1. TypeOK
  <2>1. jobs \subseteq JobNames
    BY JobKinds DEF Init
  <2>2. syncs \in [Syncs -> Calls]
    BY CallTypes DEF Init
  <2>3. status \in [Autos -> Statuses] /\ kind \in [Autos -> Kinds] /\ scheds \subseteq Autos
    BY DEF Init, Statuses
  <2>. QED
    BY <2>1, <2>2, <2>3 DEF Init, TypeOK, Steps, Chats, JobNames
<1>2. Made
  BY DEF Init, Made, AgentFree
<1>3. Reading
  BY CallTypes DEF Init, Reading
<1>. QED
  BY <1>1, <1>2, <1>3 DEF TypeInv

(* The steps of a call of syncSchedules. *)
LEMMA SyncTypes ==
  ASSUME TypeInv, NEW s \in Syncs, Sync(s)
  PROVE  TypeInv'
<1>. DEFINE Same == UNCHANGED <<tables, wire, unsynced, overlap, lookVars, events>>
<1>1. ASSUME Same, jobs' \subseteq JobNames, scheds' \subseteq Autos,
             syncs' \in [Syncs -> Calls], Reading'
      PROVE  TypeInv'
  BY <1>1 DEF TypeInv, TypeOK, Made, AgentFree, tables, lookVars, JobNames
<1>2. syncs[s] \in Calls /\ syncs \in [Syncs -> Calls] /\ scheds \subseteq Autos
      /\ jobs \subseteq JobNames /\ syncs[s].left \subseteq Entries
      /\ syncs[s].adding \in Autos \cup {Nobody}
  BY DEF TypeInv, TypeOK, Calls, JobNames
<1>. HIDE DEF Same
<1>3. CASE RemoveSchedulers(s)
  <2>1. Same /\ jobs' = jobs /\ scheds' \subseteq Autos
        /\ syncs' = [syncs EXCEPT ![s].stage = "jobs"] /\ syncs[s].stage = "schedulers"
    BY <1>2, <1>3 DEF RemoveSchedulers, Same
  <2>2. syncs' \in [Syncs -> Calls]
    BY <1>2, <2>1 DEF Calls
  <2>3. Reading'
    BY <1>2, <2>1 DEF Reading, Calls, TypeInv
  <2>. QED
    BY <1>1, <1>2, <2>1, <2>2, <2>3
<1>4. CASE removeObsoleteOnceJobs(s)
  <2>1. Same /\ jobs' \subseteq JobNames /\ scheds' = scheds
        /\ syncs' = [syncs EXCEPT ![s] = Upserts(s, syncs[s].active, Nobody)]
    BY <1>2, <1>4 DEF removeObsoleteOnceJobs, Same
  <2>. QED
    BY <1>1, <1>2, <2>1, UpsertTypes
<1>5. ASSUME NEW e \in syncs[s].left, upsertSchedule(s, e) PROVE TypeInv'
  <2>1. e.auto \in Autos
    BY <1>2 DEF Entries
  <2>2. Same /\ jobs' = jobs /\ scheds' \subseteq Autos
        /\ syncs' = [syncs EXCEPT ![s] = Upserts(s, syncs[s].left \ {e}, Nobody)]
    BY <1>2, <1>5, <2>1 DEF upsertSchedule, Same
  <2>3. syncs[s].left \ {e} \subseteq syncs[s].active
    BY DEF TypeInv, Reading
  <2>. QED
    BY <1>1, <1>2, <2>2, <2>3, UpsertTypes
<1>6. ASSUME NEW e \in syncs[s].left, upsertOnceSchedule(s, e) PROVE TypeInv'
  <2>1. e.auto \in Autos
    BY <1>2 DEF Entries
  <2>2. PICK adding \in Autos \cup {Nobody} :
          Same /\ jobs' \subseteq jobs /\ scheds' = scheds
          /\ syncs' = [syncs EXCEPT ![s] = Upserts(s, syncs[s].left \ {e}, adding)]
    BY <1>6, <2>1 DEF upsertOnceSchedule, Same
  <2>3. syncs[s].left \ {e} \subseteq syncs[s].active
    BY DEF TypeInv, Reading
  <2>. QED
    BY <1>1, <1>2, <2>2, <2>3, UpsertTypes
<1>7. CASE AddOnceJob(s)
  <2>1. syncs[s].adding \in Autos
    BY <1>2, <1>7 DEF AddOnceJob
  <2>2. Same /\ jobs' \subseteq JobNames /\ scheds' = scheds
        /\ syncs' = [syncs EXCEPT ![s] = Upserts(s, syncs[s].left, Nobody)]
    BY <1>2, <1>7, <2>1, JobKinds DEF AddOnceJob, Same
  <2>3. syncs[s].left \subseteq syncs[s].active
    BY DEF TypeInv, Reading
  <2>. QED
    BY <1>1, <1>2, <2>2, <2>3, UpsertTypes
<1>. QED
  BY <1>3, <1>4, <1>5, <1>6, <1>7 DEF Sync

LEMMA SyncFailsTypes ==
  ASSUME TypeInv, NEW s \in Syncs, SyncFails(s)
  PROVE  TypeInv'
<1>1. syncs' \in [Syncs -> Calls] /\ Reading'
  BY CallTypes DEF SyncFails, TypeInv, TypeOK, Reading
<1>. QED
  BY <1>1 DEF SyncFails, Event, TypeInv, TypeOK, Made, AgentFree, tables, queueVars, lookVars

LEMMA HandleSyncTypes ==
  ASSUME TypeInv, NEW s \in Syncs, HandleSync(s)
  PROVE  TypeInv'
<1>1. UNCHANGED <<tables, queueVars, lookVars, events>> /\ StartSync(s) /\ wire' \in Nat
  BY DEF HandleSync, TypeInv, TypeOK
<1>2. status' \in [Autos -> Statuses] /\ kind' \in [Autos -> Kinds]
  BY <1>1 DEF TypeInv, TypeOK, tables
<1>3. /\ syncs' \in [Syncs -> Calls] /\ Reading'
      /\ unsynced' \in [Autos -> {"no", "submit", "look", "sync"}] /\ overlap' \in BOOLEAN
  BY <1>1, <1>2, StartTypes
<1>. QED
  BY <1>1, <1>3 DEF TypeInv, TypeOK, Made, AgentFree, tables, queueVars, lookVars

(* What the user does. *)
LEMMA ChangeTypes ==
  ASSUME TypeInv, NEW a \in Autos, status' \in [Autos -> Statuses], kind' \in [Autos -> Kinds],
         Event, rang' = rang \ {a}, WebSubmits(a) \/ ToolSyncs,
         UNCHANGED <<queueVars, job, run, step, chat, held, stopped, settling, orphans>>
  PROVE  TypeInv'
<1>1. /\ syncs' \in [Syncs -> Calls] /\ Reading' /\ wire' \in Nat
      /\ unsynced' \in [Autos -> {"no", "submit", "look", "sync"}] /\ overlap' \in BOOLEAN
  <2>1. CASE WebSubmits(a)
    BY <2>1 DEF WebSubmits, TypeInv, TypeOK, Reading
  <2>2. CASE ToolSyncs
    BY <2>2, StartTypes DEF ToolSyncs, TypeInv, TypeOK
  <2>. QED
    BY <2>1, <2>2
<1>2. events' \in Nat
  BY DEF Event, TypeInv, TypeOK
<1>. QED
  BY <1>1, <1>2 DEF TypeInv, TypeOK, Made, AgentFree, queueVars

LEMMA UserTypes ==
  ASSUME TypeInv, User
  PROVE  TypeInv'
<1>. USE DEF Change, Exists
<1>1. ASSUME NEW a \in Autos, create(a) PROVE TypeInv'
  <2>1. status' \in [Autos -> Statuses] /\ kind' \in [Autos -> Kinds]
    BY <1>1 DEF create, insert, TypeInv, TypeOK, Statuses
  <2>. QED
    BY <1>1, <2>1, ChangeTypes DEF create
<1>2. ASSUME NEW a \in Autos, NEW s \in {"active", "paused", "archived"}, SetStatus(a, s)
      PROVE  TypeInv'
  <2>1. status' \in [Autos -> Statuses] /\ kind' \in [Autos -> Kinds]
    BY <1>2 DEF SetStatus, update, TypeInv, TypeOK, Statuses
  <2>. QED
    BY <1>2, <2>1, ChangeTypes DEF SetStatus
<1>3. ASSUME NEW a \in Autos, NEW k \in Kinds, updateAutomation(a, k) PROVE TypeInv'
  <2>1. status' \in [Autos -> Statuses] /\ kind' \in [Autos -> Kinds]
    BY <1>3 DEF updateAutomation, update, TypeInv, TypeOK, Statuses
  <2>. QED
    BY <1>3, <2>1, ChangeTypes DEF updateAutomation
<1>4. ASSUME NEW a \in Autos, runNow(a) PROVE TypeInv'
  <2>1. jobs' \subseteq JobNames /\ events' \in Nat
    BY <1>4, JobKinds DEF runNow, Event, TypeInv, TypeOK, JobNames
  <2>. QED
    BY <1>4, <2>1 DEF runNow, TypeInv, TypeOK, Made, Reading, AgentFree, tables, syncVars, lookVars,
                      JobNames
<1>. QED
  BY <1>1, <1>2, <1>3, <1>4 DEF User

LEMMA QueueTypes ==
  ASSUME TypeInv, UNCHANGED <<tables, scheds, syncVars, lookVars, events>>, jobs' \subseteq JobNames
  PROVE  TypeInv'
BY DEF TypeInv, TypeOK, Made, Reading, AgentFree, tables, syncVars, lookVars, JobNames

LEMMA TickTypes == TypeInv /\ (\E a \in Autos : Tick(a)) => TypeInv'
BY QueueTypes, JobKinds DEF Tick, TypeInv, TypeOK, JobNames

LEMMA SkipTypes == TypeInv /\ (\E j \in jobs : Skip(j)) => TypeInv'
BY QueueTypes DEF Skip, TypeInv, TypeOK, JobNames

LEMMA ProcessTypes ==
  ASSUME TypeInv, NEW j \in jobs, NEW r \in Runs, processJob(j, r)
  PROVE  TypeInv'
<1>1. j \in JobNames /\ j # NoJob
  BY JobKinds DEF TypeInv, TypeOK, JobNames
<1>2. jobs' \subseteq JobNames
  BY DEF processJob, TypeInv, TypeOK, JobNames
<1>3. /\ job' = [job EXCEPT ![r] = j] /\ run' = [run EXCEPT ![r] = "queued"]
      /\ step' = [step EXCEPT ![r] = "flushing"]
      /\ UNCHANGED <<status, kind, scheds, syncVars, chat, held, stopped, settling, rang, orphans,
                     events>>
  BY DEF processJob, createRun
<1>4. TypeOK'
  BY <1>1, <1>2, <1>3 DEF TypeInv, TypeOK, syncVars, Unfinished, Steps, JobNames
<1>5. job'[r] # NoJob /\ \A q \in Runs : q # r => job'[q] = job[q]
  BY <1>1, <1>3 DEF TypeInv, TypeOK
<1>6. Made'
  BY <1>3, <1>5, Settled DEF TypeInv, TypeOK, Made, AgentFree
<1>7. Reading'
  BY <1>3 DEF TypeInv, Reading, syncVars
<1>. QED
  BY <1>4, <1>6, <1>7 DEF TypeInv

(* What the steps of a look leave alone. *)
LookFrame == UNCHANGED <<status, kind, job, queueVars, syncVars, rang>>

(* The steps of a look that has been made, and of its chat. *)
LEMMA LookTypesFrame ==
  ASSUME TypeInv, LookFrame, step' \in [Runs -> Steps], chat' \in [Runs -> Chats],
         run' \in [Runs -> {"none"} \cup Unfinished \cup Terminal],
         held' \subseteq Runs, stopped' \subseteq Runs, orphans' \subseteq Runs, events' \in Nat,
         \A r \in Runs : job[r] = NoJob => step'[r] = step[r] /\ chat'[r] = chat[r] /\ run'[r] = run[r],
         \/ settling' = settling
         \/ settling' = NotSettling
         \/ settling' \in Settlings /\ job[settling'.run] # NoJob
  PROVE  TypeInv'
<1>. USE DEF LookFrame, queueVars, syncVars
<1>1. settling' \in Settlings \cup {NotSettling}
  BY DEF TypeInv, TypeOK, Settlings
<1>2. TypeOK'
  BY <1>1 DEF TypeInv, TypeOK, Settlings
<1>3. Made'
  BY DEF TypeInv, TypeOK, Made, AgentFree
<1>4. Reading'
  BY DEF TypeInv, Reading
<1>. QED
  BY <1>2, <1>3, <1>4 DEF TypeInv

(* A look has a job. *)
LEMMA Made_job ==
  ASSUME TypeInv, NEW r \in Runs, step[r] # "none" \/ chat[r] # "none" \/ run[r] # "none"
  PROVE  job[r] # NoJob /\ job[r] \in JobNames /\ job[r].auto \in Autos
<1>1. job[r] # NoJob
  BY DEF TypeInv, Made
<1>. QED
  BY <1>1, JobKinds DEF TypeInv, TypeOK, JobNames

LEMMA StepTypes ==
  ASSUME TypeInv, NEW r \in Runs, enqueueAgentRun(r) \/ Accepted(r) \/ updateNextRun(r)
  PROVE  TypeInv'
<1>. USE DEF enqueueAgentRun, Accepted, updateNextRun
<1>1. job[r] # NoJob
  BY Made_job
<1>2. LookFrame /\ UNCHANGED <<run, stopped, settling, orphans, events>>
  BY DEF LookFrame, tables
<1>3. step' \in [Runs -> Steps] /\ chat' \in [Runs -> Chats] /\ held' \subseteq Runs
  BY DEF TypeInv, TypeOK, Steps, Chats
<1>4. \A q \in Runs : q # r => step'[q] = step[q] /\ chat'[q] = chat[q]
  BY DEF TypeInv, TypeOK
<1>. QED
  BY <1>1, <1>2, <1>3, <1>4, LookTypesFrame DEF TypeInv, TypeOK

LEMMA ProcessFailsTypes ==
  ASSUME TypeInv, NEW r \in Runs, ProcessFails(r)
  PROVE  TypeInv'
<1>. USE DEF ProcessFails
<1>1. job[r] # NoJob
  BY Made_job
<1>2. LookFrame /\ UNCHANGED <<run, stopped, chat>>
  BY DEF LookFrame, tables
<1>3. step' \in [Runs -> Steps] /\ held' \subseteq Runs /\ orphans' \subseteq Runs /\ events' \in Nat
  BY DEF TypeInv, TypeOK, Steps, Event
<1>4. \A q \in Runs : q # r => step'[q] = step[q]
  BY DEF TypeInv, TypeOK
<1>5. settling' \in Settlings /\ settling'.run = r
  BY <1>1, SettleTypes DEF Terminal
<1>. QED
  BY <1>1, <1>2, <1>3, <1>4, <1>5, LookTypesFrame DEF TypeInv, TypeOK

LEMMA ChatTypes ==
  ASSUME TypeInv, NEW r \in Runs,
         \/ runJob(r) \/ onStarted(r) \/ onFailed(r) \/ Stop(r)
         \/ \E result \in Terminal : onCompleted(r, result)
  PROVE  TypeInv'
<1>. USE DEF runJob, onStarted, onCompleted, onFailed, Stop
<1>1. job[r] # NoJob
  BY Made_job
<1>2. LookFrame /\ UNCHANGED <<step, orphans>>
  BY DEF LookFrame, tables
<1>3. chat' \in [Runs -> Chats]
  BY DEF TypeInv, TypeOK, Chats
<1>4. run' \in [Runs -> {"none"} \cup Unfinished \cup Terminal]
  BY DEF TypeInv, TypeOK, Unfinished, updateRun, tables
<1>5. held' \subseteq Runs /\ stopped' \subseteq Runs /\ events' \in Nat
  BY DEF TypeInv, TypeOK, Event
<1>6. \A q \in Runs : q # r => chat'[q] = chat[q] /\ run'[q] = run[q]
  BY DEF TypeInv, TypeOK, updateRun, tables
<1>7. settling' = settling \/ \E result \in Terminal : Settle(r, result)
  BY DEF Terminal
<1>8. settling' = settling \/ (settling' \in Settlings /\ settling'.run = r)
  <2>1. ASSUME NEW result \in Terminal, Settle(r, result)
        PROVE  settling' \in Settlings /\ settling'.run = r
    BY <1>1, <2>1, SettleTypes
  <2>. QED
    BY <1>7, <2>1
<1>. QED
  BY <1>1, <1>2, <1>3, <1>4, <1>5, <1>6, <1>8, LookTypesFrame DEF TypeInv, TypeOK

LEMMA WriteRunTypes ==
  ASSUME TypeInv, WriteRun
  PROVE  TypeInv'
<1>. USE DEF WriteRun, updateRun
<1>1. settling \in Settlings /\ settling.run \in Runs /\ job[settling.run] \in JobNames
  BY Settled
<1>2. job[settling.run] # NoJob
  BY <1>1, JobKinds
<1>3. LookFrame /\ UNCHANGED <<step, chat, held, stopped, orphans, events>>
  BY DEF LookFrame, tables
<1>4. settling' \in Settlings /\ settling'.run = settling.run
  BY <1>1 DEF Settlings
<1>5. run' \in [Runs -> {"none"} \cup Unfinished \cup Terminal]
  BY <1>1 DEF TypeInv, TypeOK, Settlings
<1>6. \A q \in Runs : q # settling.run => run'[q] = run[q]
  BY DEF TypeInv, TypeOK
<1>. QED
  BY <1>2, <1>3, <1>4, <1>5, <1>6, LookTypesFrame DEF TypeInv, TypeOK

LEMMA StatusAfter ==
  ASSUME NEW current \in Statuses, NEW result \in Terminal, NEW k
  PROVE  automationStatusAfterRun(current, result, k) \in Statuses
BY DEF automationStatusAfterRun, Statuses, Terminal

LEMMA WriteStatusTypes ==
  ASSUME TypeInv, WriteStatus
  PROVE  TypeInv'
<1>. DEFINE a == job[settling.run].auto
            next == automationStatusAfterRun(settling.seen, settling.result, settling.kind)
<1>1. settling \in Settlings /\ a \in Autos
  BY Settled DEF WriteStatus
<1>2. next \in Statuses
  BY <1>1, StatusAfter DEF Settlings
<1>3. /\ status' = [status EXCEPT ![a] = next] /\ settling' = NotSettling
      /\ rang' \subseteq rang \cup {a}
      /\ unsynced' \in [Autos -> {"no", "submit", "look", "sync"}]
      /\ UNCHANGED <<kind, job, run, queueVars, wire, syncs, overlap, step, chat, held, stopped,
                     orphans, events>>
  BY DEF WriteStatus, update, TypeInv, TypeOK
<1>4. status' \in [Autos -> Statuses] /\ rang' \subseteq Autos
  BY <1>1, <1>2, <1>3 DEF TypeInv, TypeOK
<1>. QED
  BY <1>3, <1>4 DEF TypeInv, TypeOK, Made, Reading, AgentFree, queueVars

LEMMA ExitTypes ==
  ASSUME TypeInv, NEW s \in Syncs, Exit(s)
  PROVE  TypeInv'
<1>1. UNCHANGED <<tables, scheds, wire, stopped, rang, orphans>> /\ settling' = NotSettling
      /\ held' = {} /\ overlap' = FALSE /\ unsynced' = [a \in Autos |-> "no"]
  BY DEF Exit
<1>2. \A r \in Runs : step[r] \in {"flushing", "adding", "linking"} => job[r] \in JobNames
  BY Made_job
<1>3. jobs' \subseteq JobNames
  BY <1>2 DEF Exit, TypeInv, TypeOK, JobNames
<1>4. /\ step' = [r \in Runs |-> IF step[r] \in {"flushing", "adding", "linking"} THEN "done" ELSE step[r]]
      /\ events' \in Nat
  BY DEF Exit, Event, TypeInv, TypeOK
<1>5. PICK recovered \in SUBSET {r \in Runs : step[r] = "adding" \/ chat[r] \in {"starting", "running"}} :
          chat' = [r \in Runs |->
                     IF r \in recovered THEN "waiting"
                     ELSE IF step[r] \in {"flushing", "adding"} \/ chat[r] \in {"starting", "running"}
                             \/ r \in {q \in Runs : ~settling.written /\ q = settling.run}
                          THEN "lost" ELSE chat[r]]
  BY DEF Exit
<1>6. step' \in [Runs -> Steps] /\ chat' \in [Runs -> Chats]
  BY <1>4, <1>5 DEF TypeInv, TypeOK, Steps, Chats
<1>7. ASSUME NEW r \in Runs, job[r] = NoJob PROVE step'[r] = "none" /\ chat'[r] = "none"
  <2>1. step[r] = "none" /\ chat[r] = "none"
    BY <1>7 DEF TypeInv, Made
  <2>2. ~settling.written => settling.run # r
    BY <1>7, Settled, NobodySettles DEF TypeInv, Made, AgentFree
  <2>. QED
    BY <1>4, <1>5, <2>1, <2>2
<1>8. Made'
  BY <1>1, <1>7 DEF TypeInv, Made, AgentFree, tables
<1>9. status' \in [Autos -> Statuses] /\ kind' \in [Autos -> Kinds]
  BY <1>1 DEF TypeInv, TypeOK, tables
<1>10. Called \in Calls /\ Called.left = {} /\ Called.adding = Nobody
  BY <1>9, CalledTypes
<1>11. syncs' = [x \in Syncs |-> IF x = s THEN Called ELSE NoSync]
  BY DEF Exit
<1>12. syncs' \in [Syncs -> Calls] /\ Reading'
  BY <1>10, <1>11, CallTypes DEF Reading
<1>13. TypeOK'
  BY <1>1, <1>3, <1>4, <1>6, <1>12 DEF TypeInv, TypeOK, tables, JobNames
<1>. QED
  BY <1>8, <1>12, <1>13 DEF TypeInv

LEMMA TypeStep == TypeInv /\ [Next]_vars => TypeInv'
<1>. SUFFICES ASSUME TypeInv, [Next]_vars PROVE TypeInv'
  OBVIOUS
<1>1. CASE UNCHANGED vars
  BY <1>1 DEF vars, tables, queueVars, syncVars, lookVars, TypeInv, TypeOK, Made, Reading, AgentFree
<1>2. ASSUME NEW r \in Runs, Look(r) PROVE TypeInv'
  BY <1>2, StepTypes, ChatTypes DEF Look
<1>3. ASSUME NEW r \in Runs, ProcessFails(r) \/ onFailed(r) \/ Stop(r) PROVE TypeInv'
  BY <1>3, ProcessFailsTypes, ChatTypes
<1>. QED
  BY <1>1, <1>2, <1>3, UserTypes, HandleSyncTypes, SyncTypes, SyncFailsTypes, ExitTypes, TickTypes, SkipTypes,
     ProcessTypes, WriteRunTypes, WriteStatusTypes DEF Next

LEMMA TypeInvariant == Spec => []TypeInv
BY InitTypes, TypeStep, PTL DEF Spec

(* Every variable of the automations keeps its type. *)
THEOREM AutomationsTyped == Spec => []TypeOK
<1>1. TypeInv => TypeOK
  BY DEF TypeInv
<1>. QED
  BY <1>1, TypeInvariant, PTL

-----------------------------------------------------------------------------
(* One look at a time.                                                       *)

(* A chat that may still say that its look is running: it is about to be     *)
(* queued, it is queued and its pending entry is there, or it has started.   *)
Coming(r) ==
  \/ step[r] \in {"flushing", "adding"}
  \/ r \in held /\ (step[r] = "linking" \/ chat[r] = "waiting")
  \/ chat[r] \in {"starting", "running"}

(* Its run has not ended and is not being ended, or it is an orphan. *)
Unsettled(r) == run[r] \in Unfinished /\ settling.run # r
ComingUnsettled(r) == Coming(r) => r \in orphans \/ Unsettled(r)

(* The chat of a look waits for the steps of processJob. *)
ChatFollows(r) ==
  /\ step[r] \in {"flushing", "adding"} => chat[r] = "none"
  /\ r \in held => step[r] \in {"adding", "linking", "done"}
  /\ r \in orphans => step[r] = "done"

LookInv == \A r \in Runs : ComingUnsettled(r) /\ ChatFollows(r)

LEMMA InitLooks == Init => LookInv /\ OneLook
BY DEF Init, LookInv, ComingUnsettled, ChatFollows, Coming, OneLook, Unfinished

LEMMA LooksKept ==
  ASSUME LookInv, UNCHANGED <<run, step, chat, held, orphans, settling>>
  PROVE  LookInv'
BY DEF LookInv, ComingUnsettled, ChatFollows, Coming, Unsettled

(* A step that disturbs one look leaves the others as they are. *)
LEMMA LooksOthers ==
  ASSUME TypeInv, LookInv, NEW r \in Runs,
         \A q \in Runs : q # r => /\ step'[q] = step[q] /\ chat'[q] = chat[q] /\ run'[q] = run[q]
                                  /\ q \in held' <=> q \in held
                                  /\ q \in orphans' <=> q \in orphans,
         settling' = settling \/ settling'.run \notin Runs \ {r},
         (ComingUnsettled(r) /\ ChatFollows(r))'
  PROVE  LookInv'
BY DEF LookInv, ComingUnsettled, ChatFollows, Coming, Unsettled

LEMMA FreeSettles == AgentFree => \A r \in Runs : settling.run # r
BY NobodySettles DEF AgentFree

LEMMA ProcessLooks ==
  ASSUME TypeInv, LookInv, NEW j \in jobs, NEW r \in Runs, processJob(j, r)
  PROVE  LookInv'
<1>. USE DEF processJob, createRun
<1>1. step[r] = "none" /\ chat[r] = "none" /\ r \notin held /\ r \notin orphans
  BY DEF TypeInv, Made, LookInv, ChatFollows
<1>2. settling'.run # r
  BY FreeSettles
<1>3. run'[r] = "queued" /\ step'[r] = "flushing" /\ chat'[r] = "none" /\ r \notin held'
      /\ r \notin orphans'
  BY <1>1 DEF TypeInv, TypeOK
<1>4. (ComingUnsettled(r) /\ ChatFollows(r))'
  BY <1>2, <1>3 DEF ComingUnsettled, ChatFollows, Unsettled, Unfinished
<1>. QED
  BY <1>4, LooksOthers DEF TypeInv, TypeOK

LEMMA StepLooks ==
  ASSUME TypeInv, LookInv, NEW r \in Runs,
         enqueueAgentRun(r) \/ Accepted(r) \/ updateNextRun(r)
  PROVE  LookInv'
<1>. USE DEF enqueueAgentRun, Accepted, updateNextRun, tables
<1>1. ComingUnsettled(r) /\ ChatFollows(r)
  BY DEF LookInv
<1>2. (ComingUnsettled(r) /\ ChatFollows(r))'
  BY <1>1 DEF ComingUnsettled, ChatFollows, Unsettled, Coming, TypeInv, TypeOK
<1>. QED
  BY <1>2, LooksOthers DEF TypeInv, TypeOK

LEMMA ProcessFailsLooks ==
  ASSUME TypeInv, LookInv, NEW r \in Runs, ProcessFails(r)
  PROVE  LookInv'
<1>. USE DEF ProcessFails, tables
<1>1. ComingUnsettled(r) /\ ChatFollows(r)
  BY DEF LookInv
<1>2. settling'.run = r
  BY DEF Settle
<1>3. step'[r] = "done"
  BY DEF TypeInv, TypeOK
<1>4. step[r] = "linking" => r \in orphans'
  OBVIOUS
<1>5. step[r] # "linking" => chat[r] = "none" /\ r \notin held'
  BY <1>1 DEF ChatFollows
<1>6. (ComingUnsettled(r) /\ ChatFollows(r))'
  BY <1>3, <1>4, <1>5 DEF ComingUnsettled, ChatFollows, Coming
<1>. QED
  BY <1>2, <1>6, LooksOthers DEF TypeInv, TypeOK

LEMMA ChatLooks ==
  ASSUME TypeInv, LookInv, NEW r \in Runs,
         \/ runJob(r) \/ onStarted(r) \/ onFailed(r) \/ Stop(r)
         \/ \E result \in Terminal : onCompleted(r, result)
  PROVE  LookInv'
<1>. USE DEF tables
<1>1. ComingUnsettled(r) /\ ChatFollows(r) /\ \A q \in Runs : settling.run # q
  BY FreeSettles DEF LookInv, runJob, onStarted, onFailed, Stop, onCompleted
<1>2. CASE runJob(r)
  <2>1. (ComingUnsettled(r) /\ ChatFollows(r))'
    BY <1>1, <1>2 DEF runJob, ComingUnsettled, ChatFollows, Unsettled, Coming, TypeInv, TypeOK
  <2>. QED
    BY <1>2, <2>1, LooksOthers DEF runJob, Settle, TypeInv, TypeOK
<1>3. CASE onStarted(r)
  <2>1. run'[r] = "running"
    BY <1>3 DEF onStarted, updateRun, TypeInv, TypeOK
  <2>2. (ComingUnsettled(r) /\ ChatFollows(r))'
    BY <1>1, <1>3, <2>1 DEF onStarted, ComingUnsettled, ChatFollows, Unsettled, Unfinished,
                            Coming, TypeInv, TypeOK
  <2>. QED
    BY <1>3, <2>2, LooksOthers DEF onStarted, updateRun, TypeInv, TypeOK
<1>4. CASE onFailed(r)
  <2>1. (ComingUnsettled(r) /\ ChatFollows(r))'
    BY <1>1, <1>4 DEF onFailed, ComingUnsettled, ChatFollows, Unsettled, Coming, TypeInv, TypeOK
  <2>. QED
    BY <1>4, <2>1, LooksOthers DEF onFailed, Settle, TypeInv, TypeOK
<1>5. CASE Stop(r)
  <2>1. (ComingUnsettled(r) /\ ChatFollows(r))'
    BY <1>1, <1>5 DEF Stop, ComingUnsettled, ChatFollows, Unsettled, Coming, TypeInv, TypeOK
  <2>. QED
    BY <1>5, <2>1, LooksOthers DEF Stop, TypeInv, TypeOK
<1>6. ASSUME NEW result \in Terminal, onCompleted(r, result) PROVE LookInv'
  <2>1. (ComingUnsettled(r) /\ ChatFollows(r))'
    BY <1>1, <1>6 DEF onCompleted, ComingUnsettled, ChatFollows, Unsettled, Coming, TypeInv, TypeOK
  <2>. QED
    BY <1>6, <2>1, LooksOthers DEF onCompleted, Settle, TypeInv, TypeOK
<1>. QED
  BY <1>2, <1>3, <1>4, <1>5, <1>6

LEMMA WriteLooks ==
  ASSUME TypeInv, LookInv, WriteRun \/ WriteStatus
  PROVE  LookInv'
<1>. USE DEF tables
<1>1. settling.run \in Runs /\ settling \in Settlings
  BY Settled DEF WriteRun, WriteStatus
<1>. PICK r \in Runs : r = settling.run
  BY <1>1
<1>2. ComingUnsettled(r) /\ ChatFollows(r)
  BY <1>1 DEF LookInv
<1>3. UNCHANGED <<step, chat, held, orphans>>
  BY DEF WriteRun, WriteStatus
<1>4. ~Coming(r) \/ r \in orphans
  BY <1>2 DEF ComingUnsettled, Unsettled
<1>5. (ComingUnsettled(r) /\ ChatFollows(r))'
  BY <1>2, <1>3, <1>4 DEF ComingUnsettled, ChatFollows, Coming
<1>6. settling'.run \notin Runs \ {r}
  BY <1>1, NobodySettles DEF WriteRun, WriteStatus, Settlings
<1>7. \A q \in Runs : q # r => run'[q] = run[q]
  BY DEF WriteRun, WriteStatus, updateRun, TypeInv, TypeOK
<1>. QED
  BY <1>3, <1>5, <1>6, <1>7, LooksOthers

LEMMA ExitLooks ==
  ASSUME TypeInv, LookInv, NEW s \in Syncs, Exit(s)
  PROVE  LookInv'
<1>1. held' = {} /\ UNCHANGED <<run, orphans>>
  BY DEF Exit, tables
<1>2. \A r \in Runs : step'[r] \notin {"flushing", "adding", "linking"}
  BY DEF Exit
<1>3. \A r \in Runs : chat'[r] \notin {"starting", "running"}
  BY DEF Exit
<1>4. \A r \in Runs : step[r] = "done" => step'[r] = "done"
  BY DEF Exit
<1>. QED
  BY <1>1, <1>2, <1>3, <1>4 DEF LookInv, ComingUnsettled, ChatFollows, Coming

LEMMA LookStep == TypeInv /\ LookInv /\ [Next]_vars => LookInv'
<1>. SUFFICES ASSUME TypeInv, LookInv, [Next]_vars PROVE LookInv'
  OBVIOUS
<1>1. CASE User
  BY <1>1, LooksKept DEF User, create, SetStatus, Change, updateAutomation, runNow, tables, lookVars, insert, update
<1>2. ASSUME NEW s \in Syncs, HandleSync(s) \/ Sync(s) \/ SyncFails(s) PROVE LookInv'
  BY <1>2, LooksKept DEF HandleSync, SyncFails, Sync, RemoveSchedulers, removeObsoleteOnceJobs, upsertSchedule,
                         upsertOnceSchedule, AddOnceJob, tables, lookVars
<1>3. ASSUME NEW a \in Autos, Tick(a) PROVE LookInv'
  BY <1>3, LooksKept DEF Tick, tables, lookVars
<1>4. ASSUME NEW j \in jobs, Skip(j) PROVE LookInv'
  BY <1>4, LooksKept DEF Skip, tables, lookVars
<1>5. CASE UNCHANGED vars
  BY <1>5, LooksKept DEF vars, tables, lookVars
<1>6. ASSUME NEW r \in Runs, Look(r) PROVE LookInv'
  BY <1>6, StepLooks, ChatLooks DEF Look
<1>7. ASSUME NEW r \in Runs, ProcessFails(r) \/ onFailed(r) \/ Stop(r) PROVE LookInv'
  BY <1>7, ProcessFailsLooks, ChatLooks
<1>. QED
  BY <1>1, <1>2, <1>3, <1>4, <1>5, <1>6, <1>7, ExitLooks, ProcessLooks, WriteLooks DEF Next

(* Only a new look, or the word of a chat that its look is running, makes a  *)
(* run unfinished.                                                           *)
LEMMA UnfinishedBefore ==
  ASSUME TypeInv, LookInv, [Next]_vars, NEW r \in Runs, run'[r] \in Unfinished
  PROVE  \/ run[r] \in Unfinished /\ job'[r] = job[r]
         \/ r \in orphans' /\ job'[r] = job[r] /\ run'[r] = "running"
         \/ \E j \in jobs : processJob(j, r)
<1>. USE DEF tables
<1>1. ASSUME UNCHANGED <<run, job>> PROVE run[r] \in Unfinished /\ job'[r] = job[r]
  BY <1>1
<1>2. CASE UNCHANGED vars
  BY <1>1, <1>2 DEF vars
<1>3. CASE User
  BY <1>1, <1>3 DEF User, create, SetStatus, Change, updateAutomation, runNow
<1>4. ASSUME NEW s \in Syncs, HandleSync(s) \/ Sync(s) \/ SyncFails(s) \/ Exit(s)
      PROVE  run[r] \in Unfinished /\ job'[r] = job[r]
  BY <1>1, <1>4 DEF HandleSync, SyncFails, Sync, RemoveSchedulers, removeObsoleteOnceJobs, upsertSchedule,
                    upsertOnceSchedule, AddOnceJob, Exit
<1>5. ASSUME \/ \E a \in Autos : Tick(a)
             \/ \E j \in jobs : Skip(j)
             \/ WriteStatus
      PROVE  run[r] \in Unfinished /\ job'[r] = job[r]
  BY <1>1, <1>5 DEF Tick, Skip, WriteStatus
<1>6. ASSUME NEW q \in Runs, NEW j \in jobs, processJob(j, q)
      PROVE  q = r \/ (run[r] \in Unfinished /\ job'[r] = job[r])
  BY <1>6 DEF processJob, createRun, TypeInv, TypeOK
<1>7. ASSUME NEW q \in Runs,
             \/ enqueueAgentRun(q) \/ Accepted(q) \/ updateNextRun(q) \/ runJob(q)
             \/ ProcessFails(q) \/ onFailed(q) \/ Stop(q)
             \/ \E result \in Terminal : onCompleted(q, result)
      PROVE  run[r] \in Unfinished /\ job'[r] = job[r]
  BY <1>1, <1>7 DEF enqueueAgentRun, Accepted, updateNextRun, runJob, ProcessFails, onFailed, Stop,
                    onCompleted
<1>8. ASSUME NEW q \in Runs, onStarted(q)
      PROVE  /\ run[r] \in Unfinished \/ (r \in orphans' /\ run'[r] = "running")
             /\ job'[r] = job[r]
  <2>1. run'[r] = IF q = r THEN "running" ELSE run[r]
    BY <1>8 DEF onStarted, updateRun, TypeInv, TypeOK
  <2>2. Coming(q) /\ UNCHANGED <<orphans, job>>
    BY <1>8 DEF onStarted, Coming
  <2>3. q \in orphans \/ run[q] \in Unfinished
    BY <2>2 DEF LookInv, ComingUnsettled, Unsettled
  <2>. QED
    BY <2>1, <2>2, <2>3
<1>9. CASE WriteRun
  <2>1. settling \in Settlings /\ settling.run \in Runs
    BY <1>9, Settled DEF WriteRun
  <2>2. run' = [run EXCEPT ![settling.run] = settling.result] /\ job' = job
    BY <1>9 DEF WriteRun, updateRun
  <2>3. run'[settling.run] \notin Unfinished
    BY <2>1, <2>2 DEF TypeInv, TypeOK, Settlings, Terminal, Unfinished
  <2>. QED
    BY <2>2, <2>3 DEF TypeInv, TypeOK
<1>. QED
  BY <1>2, <1>3, <1>4, <1>5, <1>6, <1>7, <1>8, <1>9 DEF Next, Look

LEMMA OrphansStay ==
  ASSUME [Next]_vars
  PROVE  orphans \subseteq orphans'
<1>. USE DEF tables, lookVars
<1>1. CASE UNCHANGED vars
  BY <1>1 DEF vars
<1>2. CASE User
  BY <1>2 DEF User, create, SetStatus, Change, updateAutomation, runNow
<1>3. ASSUME NEW s \in Syncs, HandleSync(s) \/ Sync(s) \/ SyncFails(s) \/ Exit(s) PROVE UNCHANGED orphans
  BY <1>3 DEF HandleSync, SyncFails, Sync, RemoveSchedulers, removeObsoleteOnceJobs, upsertSchedule,
              upsertOnceSchedule, AddOnceJob, Exit
<1>4. ASSUME \/ \E a \in Autos : Tick(a)
             \/ \E j \in jobs : Skip(j) \/ \E r \in Runs : processJob(j, r)
             \/ WriteStatus \/ WriteRun
      PROVE  UNCHANGED orphans
  BY <1>4 DEF Tick, Skip, processJob, WriteStatus, WriteRun
<1>5. ASSUME NEW q \in Runs, Look(q) \/ ProcessFails(q) \/ onFailed(q) \/ Stop(q)
      PROVE  orphans \subseteq orphans'
  BY <1>5 DEF Look, enqueueAgentRun, Accepted, updateNextRun, runJob, onStarted, ProcessFails,
              onFailed, Stop, onCompleted
<1>. QED
  BY <1>1, <1>2, <1>3, <1>4, <1>5 DEF Next

LEMMA OneLookStep == TypeInv /\ LookInv /\ OneLook /\ [Next]_vars => OneLook'
<1>. SUFFICES ASSUME TypeInv, LookInv, OneLook, [Next]_vars,
                     NEW q \in Runs, NEW r \in Runs, q # r,
                     run'[q] \in Unfinished, run'[r] \in Unfinished, job'[q].auto = job'[r].auto
              PROVE  q \in orphans' \/ r \in orphans'
  BY DEF OneLook
<1>1. ASSUME NEW x \in Runs, NEW y \in Runs, x # y, run'[y] \in Unfinished,
             job'[x].auto = job'[y].auto, NEW j \in jobs, processJob(j, x)
      PROVE  FALSE
  <2>1. job'[x] = j /\ job'[y] = job[y] /\ run'[y] = run[y]
    BY <1>1 DEF processJob, createRun, TypeInv, TypeOK
  <2>2. ~hasActiveRun(j.auto)
    BY <1>1 DEF processJob, Skipped
  <2>. QED
    BY <1>1, <2>1, <2>2 DEF hasActiveRun
<1>2. ~(\E j \in jobs : processJob(j, q)) /\ ~(\E j \in jobs : processJob(j, r))
  BY <1>1
<1>3. CASE q \in orphans' \/ r \in orphans'
  BY <1>3
<1>4. CASE q \notin orphans' /\ r \notin orphans'
  <2>1. run[q] \in Unfinished /\ job'[q] = job[q]
    BY <1>2, <1>4, UnfinishedBefore
  <2>2. run[r] \in Unfinished /\ job'[r] = job[r]
    BY <1>2, <1>4, UnfinishedBefore
  <2>3. q \in orphans \/ r \in orphans
    BY <2>1, <2>2 DEF OneLook
  <2>. QED
    BY <2>3, OrphansStay
<1>. QED
  BY <1>3, <1>4

LEMMA LookInvariant == Spec => [](TypeInv /\ LookInv /\ OneLook)
<1>1. Init => TypeInv /\ LookInv /\ OneLook
  BY InitTypes, InitLooks
<1>2. TypeInv /\ LookInv /\ OneLook /\ [Next]_vars => (TypeInv /\ LookInv /\ OneLook)'
  BY TypeStep, LookStep, OneLookStep
<1>. QED
  BY <1>1, <1>2, PTL DEF Spec

(* An automation has one look at a time, whoever asks for it and however     *)
(* often the agent starts again (hasActiveRun and createRun in processJob),  *)
(* but for a look that was recorded as failed after its chat was queued.     *)
THEOREM LooksOnceAtATime == Spec => []OneLook
BY LookInvariant, PTL

-----------------------------------------------------------------------------
(* Delivered reminders.                                                      *)

(* What was delivered and not changed since is a reminder that is not        *)
(* active, and no look being settled has read it otherwise.                  *)
RungQuiet(a) ==
  /\ kind[a] = "reminder" /\ status[a] # "active"
  /\ ~AgentFree /\ job[settling.run].auto = a
       => settling.seen # "active" /\ settling.kind = "reminder"
Rung == \A a \in rang : RungQuiet(a)

LEMMA RungKept ==
  ASSUME TypeInv, Rung, UNCHANGED <<status, kind, rang>>,
         \/ UNCHANGED <<job, settling>>
         \/ settling' = NotSettling
         \/ \E r \in Runs, result \in Terminal :
              job[r] # NoJob /\ job' = job /\ Settle(r, result)
  PROVE  Rung'
<1>1. CASE UNCHANGED <<job, settling>>
  BY <1>1 DEF Rung, RungQuiet, AgentFree
<1>2. CASE settling' = NotSettling
  BY <1>2 DEF Rung, RungQuiet, AgentFree
<1>3. ASSUME NEW r \in Runs, NEW result \in Terminal, job[r] # NoJob, job' = job,
             Settle(r, result)
      PROVE  Rung'
  <2>1. /\ settling'.run = r /\ settling'.seen = status[job[r].auto]
        /\ settling'.kind = kind[job[r].auto]
    BY <1>3 DEF Settle
  <2>. QED
    BY <1>3, <2>1 DEF Rung, RungQuiet
<1>. QED
  BY <1>1, <1>2, <1>3

LEMMA RungUser == TypeInv /\ Rung /\ User => Rung'
<1>. SUFFICES ASSUME TypeInv, Rung, User PROVE Rung'
  OBVIOUS
<1>1. ASSUME NEW a \in Autos, UNCHANGED <<job, settling>>, rang' = rang \ {a},
             \A b \in Autos \ {a} : status'[b] = status[b] /\ kind'[b] = kind[b]
      PROVE  Rung'
  BY <1>1 DEF Rung, RungQuiet, AgentFree, TypeInv, TypeOK
<1>2. ASSUME NEW a \in Autos,
             \/ create(a)
             \/ \E s \in {"active", "paused", "archived"} : SetStatus(a, s)
             \/ \E k \in Kinds : updateAutomation(a, k)
      PROVE  Rung'
  <2>1. \A b \in Autos \ {a} : status'[b] = status[b] /\ kind'[b] = kind[b]
    BY <1>2 DEF create, insert, SetStatus, update, updateAutomation, TypeInv, TypeOK
  <2>2. UNCHANGED <<job, settling>> /\ rang' = rang \ {a}
    BY <1>2 DEF create, SetStatus, updateAutomation, Change
  <2>. QED
    BY <1>1, <2>1, <2>2
<1>3. ASSUME NEW a \in Autos, runNow(a) PROVE Rung'
  BY <1>3, RungKept DEF runNow, tables, lookVars
<1>. QED
  BY <1>2, <1>3 DEF User

LEMMA RungLook ==
  ASSUME TypeInv, Rung, NEW r \in Runs, Look(r) \/ ProcessFails(r) \/ onFailed(r) \/ Stop(r)
  PROVE  Rung'
<1>. USE DEF tables, Terminal
<1>1. CASE enqueueAgentRun(r) \/ Accepted(r) \/ updateNextRun(r) \/ onStarted(r) \/ Stop(r)
  BY <1>1, RungKept DEF enqueueAgentRun, Accepted, updateNextRun, onStarted, Stop
<1>2. CASE runJob(r)
  BY <1>2, RungKept, Made_job DEF runJob
<1>3. ASSUME NEW result \in Terminal, onCompleted(r, result) PROVE Rung'
  BY <1>3, RungKept, Made_job DEF onCompleted
<1>4. CASE ProcessFails(r)
  BY <1>4, RungKept, Made_job DEF ProcessFails
<1>5. CASE onFailed(r)
  BY <1>5, RungKept, Made_job DEF onFailed
<1>. QED
  BY <1>1, <1>2, <1>3, <1>4, <1>5 DEF Look

LEMMA RungWriteRun == TypeInv /\ Rung /\ WriteRun => Rung'
<1>. SUFFICES ASSUME TypeInv, Rung, WriteRun PROVE Rung'
  OBVIOUS
<1>1. settling \in Settlings /\ UNCHANGED <<status, kind, job, rang>>
  BY Settled DEF WriteRun
<1>2. /\ settling'.run = settling.run /\ settling'.seen = settling.seen
      /\ settling'.kind = settling.kind
  BY <1>1 DEF WriteRun, Settlings
<1>. QED
  BY <1>1, <1>2 DEF Rung, RungQuiet, WriteRun

(* The reminder that has just been delivered is archived, and one that was   *)
(* delivered before stays so.                                                *)
LEMMA RungWriteStatus == TypeInv /\ Rung /\ WriteStatus => Rung'
<1>. SUFFICES ASSUME TypeInv, Rung, WriteStatus, NEW b \in rang' PROVE RungQuiet(b)'
  BY DEF Rung
<1>. DEFINE next == automationStatusAfterRun(settling.seen, settling.result, settling.kind)
<1>. PICK a \in Autos : a = job[settling.run].auto
  BY Settled DEF WriteStatus
<1>1. settling \in Settlings /\ ~AgentFree
  BY Settled DEF WriteStatus
<1>2. status' = [status EXCEPT ![a] = next] /\ kind' = kind /\ settling' = NotSettling
  BY DEF WriteStatus, update
<1>3. b # a => b \in rang
  BY DEF WriteStatus
<1>4. CASE b # a
  BY <1>2, <1>3, <1>4 DEF Rung, RungQuiet, AgentFree, TypeInv, TypeOK
<1>5. CASE b = a
  <2>1. settling.kind = "reminder" /\ kind[a] = "reminder"
        /\ (settling.seen # "active" \/ settling.result = "completed")
    <3>1. CASE a \in rang
      BY <1>1, <3>1 DEF Rung, RungQuiet
    <3>2. CASE a \notin rang
      BY <1>5, <3>2 DEF WriteStatus
    <3>. QED
      BY <3>1, <3>2
  <2>2. next # "active"
    BY <1>1, <2>1 DEF automationStatusAfterRun, Settlings, Terminal
  <2>3. status'[a] # "active"
    BY <1>2, <2>2 DEF TypeInv, TypeOK
  <2>. QED
    BY <1>2, <1>5, <2>1, <2>3 DEF RungQuiet, AgentFree
<1>. QED
  BY <1>4, <1>5

LEMMA RungStep == TypeInv /\ Rung /\ [Next]_vars => Rung'
<1>. SUFFICES ASSUME TypeInv, Rung, [Next]_vars PROVE Rung'
  OBVIOUS
<1>. USE DEF tables, lookVars
<1>1. CASE UNCHANGED vars
  BY <1>1, RungKept DEF vars
<1>2. ASSUME NEW s \in Syncs, HandleSync(s) \/ Sync(s) \/ SyncFails(s) PROVE Rung'
  BY <1>2, RungKept DEF HandleSync, SyncFails, Sync, RemoveSchedulers, removeObsoleteOnceJobs, upsertSchedule,
                        upsertOnceSchedule, AddOnceJob
<1>3. ASSUME NEW s \in Syncs, Exit(s) PROVE Rung'
  BY <1>3, RungKept DEF Exit
<1>4. ASSUME \/ \E a \in Autos : Tick(a)
             \/ \E j \in jobs : Skip(j)
      PROVE  Rung'
  BY <1>4, RungKept DEF Tick, Skip
<1>5. ASSUME NEW j \in jobs, NEW r \in Runs, processJob(j, r) PROVE Rung'
  BY <1>5, RungKept DEF processJob, AgentFree
<1>. QED
  BY <1>1, <1>2, <1>3, <1>4, <1>5, RungUser, RungLook, RungWriteRun, RungWriteStatus DEF Next

LEMMA RungInvariant == Spec => [](TypeInv /\ LookInv /\ Rung)
<1>1. Init => TypeInv /\ LookInv /\ Rung
  BY InitTypes, InitLooks DEF Init, Rung
<1>2. TypeInv /\ LookInv /\ Rung /\ [Next]_vars => (TypeInv /\ LookInv /\ Rung)'
  BY TypeStep, LookStep, RungStep
<1>. QED
  BY <1>1, <1>2, PTL DEF Spec

(* A reminder that has been delivered rings again only after the user has    *)
(* changed it (automationStatusAfterRun, the guards of processJob).          *)
THEOREM RemindersRingOnce == Spec => ReminderRingsOnce
<1>. DEFINE Step == \A r \in Runs : run[r] = "none" /\ run'[r] = "queued" /\ job'[r].source # "manual"
                      => job'[r].auto \notin rang
<1>1. TypeInv /\ LookInv /\ Rung /\ [Next]_vars => [Step]_vars
  <2>. SUFFICES ASSUME TypeInv, LookInv, Rung, Next, NEW r \in Runs, run[r] = "none",
                       run'[r] = "queued", job'[r].source # "manual"
                PROVE  job'[r].auto \notin rang
    BY DEF vars
  <2>1. run[r] \notin Unfinished /\ run'[r] \in Unfinished
    BY DEF Unfinished
  <2>2. PICK j \in jobs : processJob(j, r)
    BY <2>1, UnfinishedBefore
  <2>3. job'[r] = j
    BY <2>2 DEF processJob, createRun, TypeInv, TypeOK
  <2>4. status[j.auto] = "active"
    BY <2>2, <2>3 DEF processJob, Skipped
  <2>. QED
    BY <2>3, <2>4 DEF Rung, RungQuiet
<1>. QED
  BY <1>1, RungInvariant, PTL DEF Spec, ReminderRingsOnce

-----------------------------------------------------------------------------
(* Schedules.                                                                *)

Alone == \A s, t \in Syncs : ~Idle(s) /\ ~Idle(t) => s = t

(* What bunqueue should wake, by a scheduler or by a once job. *)
Recurs(a) == status[a] = "active" /\ kind[a] = "recurring"
RingsLater(a) == status[a] = "active" /\ kind[a] # "recurring"
Right(a) ==
  /\ a \in scheds <=> Recurs(a)
  /\ Job(a, "once") \in jobs => RingsLater(a)

(* How far a call of syncSchedules has made that true: what it has read of   *)
(* the automation is still so, and each of its stages keeps a part of it.    *)
Entry(a, k) == [auto |-> a, kind |-> k]
Agrees(s, a) ==
  \A k \in Kinds : Entry(a, k) \in syncs[s].active <=> status[a] = "active" /\ k = kind[a]
PartlyRight(s, a) ==
  /\ Agrees(s, a)
  /\ syncs[s].stage # "schedulers" => (a \in scheds => Recurs(a))
  /\ syncs[s].stage \notin {"schedulers", "jobs"} =>
       /\ Recurs(a) => a \in scheds \/ Entry(a, kind[a]) \in syncs[s].left
       /\ Job(a, "once") \in jobs => RingsLater(a)
  /\ syncs[s].adding = a => RingsLater(a)

Synced(a) ==
  /\ \A s \in Syncs : ~Idle(s) => PartlyRight(s, a)
  /\ (\A s \in Syncs : Idle(s)) => Right(a)

SyncInv ==
  /\ ~overlap => Alone
  /\ wire = 0 /\ ~overlap => \A a \in Autos : unsynced[a] = "no" => Synced(a)

LEMMA InitSyncs == Init => SyncInv
<1>. SUFFICES ASSUME Init PROVE SyncInv
  OBVIOUS
<1>1. \A s \in Syncs : Idle(s)
  BY DEF Init, Idle
<1>2. ASSUME NEW a \in Autos PROVE Right(a)
  BY JobKinds DEF Init, Right, Recurs, RingsLater
<1>. QED
  BY <1>1, <1>2 DEF SyncInv, Alone, Synced

(* A step that touches neither the calls nor what they are about. *)
LEMMA SyncsKept ==
  ASSUME SyncInv, UNCHANGED <<status, kind, scheds, wire, syncs, unsynced, overlap>>,
         \A a \in Autos : Job(a, "once") \in jobs' => Job(a, "once") \in jobs
  PROVE  SyncInv'
BY DEF SyncInv, Alone, Synced, Right, PartlyRight, Agrees, Recurs, RingsLater, Idle

(* A call that throws: what it had still to do is not done. *)
LEMMA SyncFailsRight ==
  ASSUME TypeInv, SyncInv, NEW s \in Syncs, SyncFails(s)
  PROVE  SyncInv'
<1>1. \A x \in Syncs : Idle(x) => Idle(x)'
  BY DEF SyncFails, TypeInv, TypeOK, Idle
<1>. QED
  BY <1>1 DEF SyncFails, SyncInv, Alone

(* A status that changes without a sync. *)
LEMMA ChangeUnsynced ==
  ASSUME SyncInv, UNCHANGED <<scheds, jobs, wire, syncs, overlap>>,
         \A a \in Autos : unsynced'[a] = "no" =>
            unsynced[a] = "no" /\ status'[a] = status[a] /\ kind'[a] = kind[a]
  PROVE  SyncInv'
BY DEF SyncInv, Alone, Synced, Right, PartlyRight, Agrees, Recurs, RingsLater, Idle

(* A change whose sync is on its way. *)
LEMMA ChangeSubmitted ==
  ASSUME TypeInv, SyncInv, wire' = wire + 1, UNCHANGED <<syncs, overlap>>
  PROVE  SyncInv'
<1>1. wire' # 0
  BY DEF TypeInv, TypeOK
<1>. QED
  BY <1>1 DEF SyncInv, Alone, Idle

(* A call that begins alone has read what is there. *)
LEMMA FreshCall ==
  ASSUME TypeInv', NEW s \in Syncs, syncs'[s] = Called,
         ~overlap' => \A t \in Syncs : t # s => syncs'[t] = NoSync
  PROVE  SyncInv'
<1>1. status' \in [Autos -> Statuses] /\ kind' \in [Autos -> Kinds]
  BY DEF TypeInv, TypeOK
<1>2. ~overlap' => Alone'
  BY DEF Alone, Idle
<1>3. Called.stage = "schedulers" /\ Called.adding = Nobody /\ Called.active = active
  BY <1>1, CalledTypes DEF Called
<1>4. ASSUME NEW a \in Autos PROVE PartlyRight(s, a)'
  <2>1. \A k \in Kinds : Entry(a, k) \in active <=> status'[a] = "active" /\ k = kind'[a]
    BY <1>1 DEF Entry, active
  <2>2. Agrees(s, a)'
    BY <1>3, <2>1 DEF Agrees, Entry
  <2>3. a # Nobody
    BY AutomationsAssumption
  <2>. QED
    BY <1>3, <2>2, <2>3 DEF PartlyRight
<1>5. ~Idle(s)'
  BY <1>3, CallTypes DEF Idle
<1>. QED
  BY <1>2, <1>4, <1>5 DEF SyncInv, Synced, Idle

LEMMA StartSyncs ==
  ASSUME TypeInv, TypeInv', NEW s \in Syncs, StartSync(s)
  PROVE  SyncInv'
<1>1. syncs'[s] = Called /\ \A t \in Syncs : t # s => syncs'[t] = syncs[t]
  BY DEF StartSync, TypeInv, TypeOK
<1>2. ~overlap' => \A t \in Syncs : t # s => syncs'[t] = NoSync
  BY <1>1 DEF StartSync, Idle
<1>. QED
  BY <1>1, <1>2, FreshCall

LEMMA ExitSyncs ==
  ASSUME TypeInv', NEW s \in Syncs, Exit(s)
  PROVE  SyncInv'
<1>1. syncs' = [x \in Syncs |-> IF x = s THEN Called ELSE NoSync]
  BY DEF Exit
<1>. QED
  BY <1>1, FreshCall

(* A step of a call that is under way makes its part true. *)
LEMMA CallGoesOn ==
  ASSUME TypeInv, SyncInv, NEW s \in Syncs, ~Idle(s), NEW c, syncs' = [syncs EXCEPT ![s] = c],
         UNCHANGED <<wire, unsynced, overlap>>,
         \A a \in Autos : PartlyRight(s, a)
                            => IF c = NoSync THEN Right(a)' ELSE PartlyRight(s, a)'
  PROVE  SyncInv'
<1>1. syncs'[s] = c /\ \A t \in Syncs : t # s => syncs'[t] = syncs[t]
  BY DEF TypeInv, TypeOK
<1>2. ~overlap => \A t \in Syncs : t # s => Idle(t) /\ Idle(t)'
  BY <1>1 DEF SyncInv, Alone, Idle
<1>3. ~overlap' => Alone'
  BY <1>2 DEF Alone
<1>4. Idle(s)' <=> c = NoSync
  BY <1>1 DEF Idle
<1>5. ASSUME wire = 0, ~overlap, NEW a \in Autos, unsynced[a] = "no" PROVE Synced(a)'
  <2>1. PartlyRight(s, a)
    BY <1>5 DEF SyncInv, Synced
  <2>2. IF c = NoSync THEN Right(a)' ELSE PartlyRight(s, a)'
    BY <2>1
  <2>. QED
    BY <1>2, <1>4, <1>5, <2>2 DEF Synced
<1>. QED
  BY <1>3, <1>5 DEF SyncInv

(* The names a call has read, by their kinds. *)
LEMMA NamesRead ==
  ASSUME TypeInv, NEW s \in Syncs, NEW a \in Autos, Agrees(s, a)
  PROVE  /\ a \in Of(s, {"recurring"}) <=> Recurs(a)
         /\ a \in Of(s, {"once", "reminder"}) <=> RingsLater(a)
<1>1. syncs[s].active \subseteq Entries /\ kind[a] \in Kinds
  BY DEF TypeInv, TypeOK, Calls
<1>2. Kinds \subseteq {"recurring", "once", "reminder"}
  BY AutomationsAssumption DEF AllKinds
<1>3. \A e \in syncs[s].active : e = Entry(e.auto, e.kind) /\ e.kind \in Kinds
  BY <1>1 DEF Entry, Entries
<1>4. \A e \in syncs[s].active : e.auto = a => status[a] = "active" /\ e.kind = kind[a]
  BY <1>3 DEF Agrees
<1>5. status[a] = "active" => Entry(a, kind[a]) \in syncs[s].active
  BY <1>1 DEF Agrees
<1>6. Entry(a, kind[a]).auto = a /\ Entry(a, kind[a]).kind = kind[a]
  BY DEF Entry
<1>7. a \in Of(s, {"recurring"}) <=> Recurs(a)
  BY <1>4, <1>5, <1>6 DEF Of, Recurs
<1>8. a \in Of(s, {"once", "reminder"}) <=> RingsLater(a)
  BY <1>1, <1>2, <1>4, <1>5, <1>6 DEF Of, RingsLater
<1>. QED
  BY <1>7, <1>8

LEMMA EntriesRead ==
  ASSUME TypeInv, NEW s \in Syncs, NEW e \in syncs[s].active, Agrees(s, e.auto)
  PROVE  status[e.auto] = "active" /\ e.kind = kind[e.auto] /\ e = Entry(e.auto, e.kind)
<1>1. syncs[s].active \subseteq Entries
  BY DEF TypeInv, TypeOK, Calls
<1>2. e = Entry(e.auto, e.kind) /\ e.kind \in Kinds
  BY <1>1 DEF Entry, Entries
<1>. QED
  BY <1>2 DEF Agrees

LEMMA UpsertFields ==
  ASSUME TypeInv, NEW s \in Syncs, NEW left, NEW adding, ~(left = {} /\ adding = Nobody)
  PROVE  LET d == Upserts(s, left, adding)
         IN  /\ d.stage = "upserts" /\ d.left = left /\ d.adding = adding
             /\ d.active = syncs[s].active
<1>1. PICK c \in Calls : c = syncs[s]
  BY DEF TypeInv, TypeOK
<1>2. Upserts(s, left, adding) = [c EXCEPT !.stage = "upserts", !.left = left, !.adding = adding]
  BY <1>1 DEF Upserts
<1>3. c = [stage |-> c.stage, active |-> c.active, left |-> c.left, adding |-> c.adding]
  BY DEF Calls
<1>. QED
  BY <1>1, <1>2, <1>3

(* A call that comes to its upserts, or goes on with them, or is over. *)
LEMMA UpsertsRight ==
  ASSUME TypeInv, NEW s \in Syncs, NEW left, NEW adding,
         syncs' = [syncs EXCEPT ![s] = Upserts(s, left, adding)], UNCHANGED <<status, kind>>,
         NEW a \in Autos, Agrees(s, a), a \in scheds' => Recurs(a),
         Recurs(a) => a \in scheds' \/ Entry(a, kind[a]) \in left,
         Job(a, "once") \in jobs' => RingsLater(a), adding = a => RingsLater(a)
  PROVE  IF Upserts(s, left, adding) = NoSync THEN Right(a)' ELSE PartlyRight(s, a)'
<1>1. syncs'[s] = Upserts(s, left, adding) /\ syncs[s] \in Calls
  BY DEF TypeInv, TypeOK
<1>2. (Recurs(a)' <=> Recurs(a)) /\ (RingsLater(a)' <=> RingsLater(a))
  BY DEF Recurs, RingsLater
<1>3. CASE left = {} /\ adding = Nobody
  <2>1. Upserts(s, left, adding) = NoSync
    BY <1>3 DEF Upserts
  <2>2. a \in scheds' <=> Recurs(a)
    BY <1>3
  <2>. QED
    BY <1>2, <2>1, <2>2 DEF Right
<1>4. CASE ~(left = {} /\ adding = Nobody)
  <2>1. /\ syncs'[s].stage = "upserts" /\ syncs'[s].left = left /\ syncs'[s].adding = adding
        /\ syncs'[s].active = syncs[s].active
    BY <1>1, <1>4, UpsertFields
  <2>2. Agrees(s, a)'
    BY <2>1 DEF Agrees
  <2>3. PartlyRight(s, a)'
    BY <1>2, <2>1, <2>2 DEF PartlyRight
  <2>4. Upserts(s, left, adding) # NoSync
    BY <1>1, <2>1, CallTypes
  <2>. QED
    BY <2>3, <2>4
<1>. QED
  BY <1>3, <1>4

LEMMA SyncRight ==
  ASSUME TypeInv, SyncInv, NEW s \in Syncs, Sync(s)
  PROVE  SyncInv'
<1>. USE DEF tables
<1>1. syncs[s] \in Calls /\ syncs \in [Syncs -> Calls]
  BY DEF TypeInv, TypeOK
<1>2. /\ syncs[s].left \subseteq syncs[s].active
      /\ syncs[s].adding # Nobody => syncs[s].stage = "upserts"
  BY DEF TypeInv, Reading
<1>3. Idle(s) => syncs[s].stage = "none" /\ syncs[s].adding = Nobody
  BY CallTypes DEF Idle
<1>4. CASE RemoveSchedulers(s)
  <2>1. /\ syncs[s].stage = "schedulers" /\ scheds' = scheds \cap Of(s, {"recurring"})
        /\ syncs' = [syncs EXCEPT ![s].stage = "jobs"]
        /\ UNCHANGED <<status, kind, jobs, wire, unsynced, overlap>>
    BY <1>4 DEF RemoveSchedulers
  <2>. DEFINE c == [syncs[s] EXCEPT !.stage = "jobs"]
  <2>2. /\ c.stage = "jobs" /\ c.active = syncs[s].active /\ c.adding = syncs[s].adding
        /\ c # NoSync
    BY <1>1, CallTypes DEF Calls
  <2>3. syncs' = [syncs EXCEPT ![s] = c] /\ syncs'[s] = c
    BY <1>1, <2>1
  <2>. HIDE DEF c
  <2>4. ASSUME NEW a \in Autos, PartlyRight(s, a) PROVE PartlyRight(s, a)'
    <3>1. Agrees(s, a) /\ Agrees(s, a)'
      BY <2>1, <2>2, <2>3, <2>4 DEF PartlyRight, Agrees
    <3>2. a \in scheds' => Recurs(a)'
      BY <2>1, <3>1, NamesRead DEF Recurs
    <3>3. syncs'[s].adding # a
      BY <1>2, <2>1, <2>2, <2>3, AutomationsAssumption
    <3>. QED
      BY <2>2, <2>3, <3>1, <3>2, <3>3 DEF PartlyRight
  <2>5. ~Idle(s)
    BY <1>3, <2>1
  <2>. QED
    BY <2>1, <2>2, <2>3, <2>4, <2>5, CallGoesOn
<1>5. ASSUME NEW left, NEW adding, syncs' = [syncs EXCEPT ![s] = Upserts(s, left, adding)],
             UNCHANGED <<status, kind, wire, unsynced, overlap>>, ~Idle(s),
             \A a \in Autos : PartlyRight(s, a) =>
               /\ a \in scheds' => Recurs(a)
               /\ Recurs(a) => a \in scheds' \/ Entry(a, kind[a]) \in left
               /\ Job(a, "once") \in jobs' => RingsLater(a)
               /\ adding = a => RingsLater(a)
      PROVE  SyncInv'
  <2>1. ASSUME NEW a \in Autos, PartlyRight(s, a)
        PROVE  IF Upserts(s, left, adding) = NoSync THEN Right(a)' ELSE PartlyRight(s, a)'
    <3>1. Agrees(s, a)
      BY <2>1 DEF PartlyRight
    <3>. QED
      BY <1>5, <2>1, <3>1, UpsertsRight
  <2>. QED
    BY <1>5, <2>1, CallGoesOn
<1>6. CASE removeObsoleteOnceJobs(s)
  <2>1. /\ syncs[s].stage = "jobs"
        /\ jobs' = {j \in jobs : j.source = "once" => j.auto \in Of(s, {"once", "reminder"})}
        /\ syncs' = [syncs EXCEPT ![s] = Upserts(s, syncs[s].active, Nobody)]
        /\ UNCHANGED <<status, kind, scheds, wire, unsynced, overlap>>
    BY <1>6 DEF removeObsoleteOnceJobs
  <2>2. ASSUME NEW a \in Autos, PartlyRight(s, a)
        PROVE  /\ a \in scheds' => Recurs(a)
               /\ Recurs(a) => Entry(a, kind[a]) \in syncs[s].active
               /\ Job(a, "once") \in jobs' => RingsLater(a)
               /\ Nobody = a => RingsLater(a)
    <3>1. Agrees(s, a) /\ kind[a] \in Kinds
      BY <2>2 DEF PartlyRight, TypeInv, TypeOK
    <3>2. a \in scheds' => Recurs(a)
      BY <2>1, <2>2 DEF PartlyRight
    <3>3. Recurs(a) => Entry(a, kind[a]) \in syncs[s].active
      BY <3>1 DEF Agrees, Recurs
    <3>4. Job(a, "once") \in jobs' => RingsLater(a)
      BY <2>1, <3>1, NamesRead, JobKinds
    <3>. QED
      BY <3>2, <3>3, <3>4, AutomationsAssumption
  <2>3. ~Idle(s)
    BY <1>3, <2>1
  <2>. QED
    BY <1>5, <2>1, <2>2, <2>3
<1>7. ASSUME NEW e \in syncs[s].left, upsertSchedule(s, e) PROVE SyncInv'
  <2>. PICK left : left = syncs[s].left \ {e}
    OBVIOUS
  <2>1. /\ syncs[s].stage = "upserts" /\ syncs[s].adding = Nobody /\ e.kind = "recurring"
        /\ scheds' = scheds \cup {e.auto}
        /\ syncs' = [syncs EXCEPT ![s] = Upserts(s, left, Nobody)]
        /\ UNCHANGED <<status, kind, jobs, wire, unsynced, overlap>>
    BY <1>7 DEF upsertSchedule, Upserting
  <2>2. ASSUME NEW a \in Autos, PartlyRight(s, a)
        PROVE  /\ a \in scheds' => Recurs(a)
               /\ Recurs(a) => a \in scheds' \/ Entry(a, kind[a]) \in left
               /\ Job(a, "once") \in jobs' => RingsLater(a)
               /\ Nobody = a => RingsLater(a)
    <3>1. /\ Agrees(s, a) /\ (a \in scheds => Recurs(a))
          /\ Recurs(a) => a \in scheds \/ Entry(a, kind[a]) \in syncs[s].left
          /\ Job(a, "once") \in jobs => RingsLater(a)
      BY <2>1, <2>2 DEF PartlyRight
    <3>2. e.auto = a => Recurs(a)
      BY <1>2, <2>1, <3>1, EntriesRead DEF Recurs
    <3>3. Entry(a, kind[a]) = e => e.auto = a
      BY DEF Entry
    <3>. QED
      BY <2>1, <3>1, <3>2, <3>3, AutomationsAssumption
  <2>3. ~Idle(s)
    BY <1>3, <2>1
  <2>4. /\ syncs' = [syncs EXCEPT ![s] = Upserts(s, left, Nobody)]
        /\ UNCHANGED <<status, kind, wire, unsynced, overlap>>
    BY <2>1
  <2>. QED
    BY <1>5, <2>2, <2>3, <2>4
<1>8. ASSUME NEW e \in syncs[s].left, upsertOnceSchedule(s, e) PROVE SyncInv'
  <2>1. /\ syncs[s].stage = "upserts" /\ syncs[s].adding = Nobody /\ e.kind # "recurring"
        /\ jobs' \subseteq jobs
        /\ UNCHANGED <<status, kind, scheds, wire, unsynced, overlap>>
    BY <1>8 DEF upsertOnceSchedule, Upserting
  <2>2. PICK adding \in {Nobody, e.auto} :
          syncs' = [syncs EXCEPT ![s] = Upserts(s, syncs[s].left \ {e}, adding)]
    BY <1>8 DEF upsertOnceSchedule
  <2>3. ASSUME NEW a \in Autos, PartlyRight(s, a)
        PROVE  /\ a \in scheds' => Recurs(a)
               /\ Recurs(a) => a \in scheds' \/ Entry(a, kind[a]) \in syncs[s].left \ {e}
               /\ Job(a, "once") \in jobs' => RingsLater(a)
               /\ adding = a => RingsLater(a)
    <3>1. /\ Agrees(s, a) /\ (a \in scheds => Recurs(a))
          /\ Recurs(a) => a \in scheds \/ Entry(a, kind[a]) \in syncs[s].left
          /\ Job(a, "once") \in jobs => RingsLater(a)
      BY <2>1, <2>3 DEF PartlyRight
    <3>2. e.auto = a => RingsLater(a)
      BY <1>2, <2>1, <3>1, EntriesRead DEF RingsLater
    <3>3. Recurs(a) => Entry(a, kind[a]) # e
      BY <2>1 DEF Entry, Recurs
    <3>. QED
      BY <2>1, <3>1, <3>2, <3>3, AutomationsAssumption
  <2>4. ~Idle(s)
    BY <1>3, <2>1
  <2>. QED
    BY <1>5, <2>1, <2>2, <2>3, <2>4
<1>9. CASE AddOnceJob(s)
  <2>1. /\ syncs[s].stage = "upserts" /\ syncs[s].adding # Nobody
        /\ jobs' = jobs \cup {Job(syncs[s].adding, "once")}
        /\ syncs' = [syncs EXCEPT ![s] = Upserts(s, syncs[s].left, Nobody)]
        /\ UNCHANGED <<status, kind, scheds, wire, unsynced, overlap>>
    BY <1>2, <1>9 DEF AddOnceJob
  <2>2. ASSUME NEW a \in Autos, PartlyRight(s, a)
        PROVE  /\ a \in scheds' => Recurs(a)
               /\ Recurs(a) => a \in scheds' \/ Entry(a, kind[a]) \in syncs[s].left
               /\ Job(a, "once") \in jobs' => RingsLater(a)
               /\ Nobody = a => RingsLater(a)
    <3>1. /\ (a \in scheds => Recurs(a))
          /\ Recurs(a) => a \in scheds \/ Entry(a, kind[a]) \in syncs[s].left
          /\ Job(a, "once") \in jobs => RingsLater(a)
          /\ syncs[s].adding = a => RingsLater(a)
      BY <2>1, <2>2 DEF PartlyRight
    <3>2. Job(a, "once") = Job(syncs[s].adding, "once") => a = syncs[s].adding
      BY JobKinds
    <3>. QED
      BY <2>1, <3>1, <3>2, AutomationsAssumption
  <2>3. ~Idle(s)
    BY <1>3, <2>1
  <2>. QED
    BY <1>5, <2>1, <2>2, <2>3
<1>. QED
  BY <1>4, <1>6, <1>7, <1>8, <1>9 DEF Sync

LEMMA OtherJobs ==
  ASSUME NEW a, NEW b, NEW source, source # "once"
  PROVE  Job(a, "once") # Job(b, source)
BY JobKinds

LEMMA UserRight == TypeInv /\ TypeInv' /\ SyncInv /\ User => SyncInv'
<1>. SUFFICES ASSUME TypeInv, TypeInv', SyncInv, User PROVE SyncInv'
  OBVIOUS
<1>1. ASSUME NEW a \in Autos, WebSubmits(a) \/ ToolSyncs, UNCHANGED queueVars,
             \A b \in Autos \ {a} : status'[b] = status[b] /\ kind'[b] = kind[b]
      PROVE  SyncInv'
  <2>1. CASE wire' = wire + 1 /\ UNCHANGED <<syncs, unsynced, overlap>>
    BY <2>1, ChangeSubmitted
  <2>2. CASE unsynced' = [unsynced EXCEPT ![a] = "submit"] /\ UNCHANGED <<wire, syncs, overlap>>
    BY <1>1, <2>2, ChangeUnsynced DEF queueVars, TypeInv, TypeOK
  <2>3. CASE ToolSyncs
    BY <2>3, StartSyncs DEF ToolSyncs
  <2>. QED
    BY <1>1, <2>1, <2>2, <2>3 DEF WebSubmits
<1>2. ASSUME NEW a \in Autos,
             \/ create(a)
             \/ \E s \in {"active", "paused", "archived"} : SetStatus(a, s)
             \/ \E k \in Kinds : updateAutomation(a, k)
      PROVE  SyncInv'
  <2>1. \A b \in Autos \ {a} : status'[b] = status[b] /\ kind'[b] = kind[b]
    BY <1>2 DEF create, insert, SetStatus, update, updateAutomation, TypeInv, TypeOK
  <2>2. (WebSubmits(a) \/ ToolSyncs) /\ UNCHANGED queueVars
    BY <1>2 DEF create, SetStatus, updateAutomation, Change
  <2>. QED
    BY <1>1, <2>1, <2>2
<1>3. ASSUME NEW a \in Autos, runNow(a) PROVE SyncInv'
  <2>1. \A b \in Autos : Job(b, "once") # Job(a, "manual")
    BY OtherJobs
  <2>. QED
    BY <1>3, <2>1, SyncsKept DEF runNow, tables, syncVars
<1>. QED
  BY <1>2, <1>3 DEF User

LEMMA WriteStatusRight == TypeInv /\ SyncInv /\ WriteStatus => SyncInv'
<1>. SUFFICES ASSUME TypeInv, SyncInv, WriteStatus PROVE SyncInv'
  OBVIOUS
<1>. PICK a \in Autos : a = job[settling.run].auto
  BY Settled DEF WriteStatus
<1>. PICK next :
       /\ status' = [status EXCEPT ![a] = next]
       /\ unsynced' = [unsynced EXCEPT ![a] = IF next = status[a] THEN @ ELSE "look"]
  BY DEF WriteStatus, update
<1>1. UNCHANGED <<kind, scheds, jobs, wire, syncs, overlap>>
  BY DEF WriteStatus, queueVars
<1>2. \A b \in Autos : unsynced'[b] = "no" => unsynced[b] = "no" /\ status'[b] = status[b]
  BY DEF TypeInv, TypeOK
<1>. QED
  BY <1>1, <1>2, ChangeUnsynced

LEMMA SyncStep == TypeInv /\ SyncInv /\ [Next]_vars => SyncInv'
<1>. SUFFICES ASSUME TypeInv, TypeInv', SyncInv, [Next]_vars PROVE SyncInv'
  BY TypeStep
<1>. USE DEF tables, queueVars, syncVars
<1>1. CASE UNCHANGED vars
  BY <1>1, SyncsKept DEF vars
<1>2. ASSUME NEW s \in Syncs, HandleSync(s) PROVE SyncInv'
  BY <1>2, StartSyncs DEF HandleSync
<1>3. ASSUME NEW a \in Autos, Tick(a) PROVE SyncInv'
  <2>1. \A b \in Autos : Job(b, "once") # Job(a, "tick")
    BY OtherJobs
  <2>. QED
    BY <1>3, <2>1, SyncsKept DEF Tick
<1>4. ASSUME NEW j \in jobs, Skip(j) PROVE SyncInv'
  BY <1>4, SyncsKept DEF Skip
<1>5. ASSUME NEW j \in jobs, NEW r \in Runs, processJob(j, r) PROVE SyncInv'
  BY <1>5, SyncsKept DEF processJob
<1>6. ASSUME NEW r \in Runs, Look(r) \/ ProcessFails(r) \/ onFailed(r) \/ Stop(r) PROVE SyncInv'
  BY <1>6, SyncsKept DEF Look, enqueueAgentRun, Accepted, updateNextRun, runJob, onStarted,
                         onCompleted, ProcessFails, onFailed, Stop
<1>7. CASE WriteRun
  BY <1>7, SyncsKept DEF WriteRun
<1>. QED
  BY <1>1, <1>2, <1>3, <1>4, <1>5, <1>6, <1>7, UserRight, WriteStatusRight, SyncRight, SyncFailsRight, ExitSyncs
     DEF Next

LEMMA SyncInvariant == Spec => [](TypeInv /\ SyncInv)
<1>1. Init => TypeInv /\ SyncInv
  BY InitTypes, InitSyncs
<1>2. TypeInv /\ SyncInv /\ [Next]_vars => (TypeInv /\ SyncInv)'
  BY TypeStep, SyncStep
<1>. QED
  BY <1>1, <1>2, PTL DEF Spec

(* When no sync is on its way or under way, bunqueue wakes the active        *)
(* automations by the job their kind asks for, and no others, whatever was   *)
(* changed while earlier calls of syncSchedules were at work (syncSchedules, *)
(* removeObsoleteOnceJobs and the two upserts).                              *)
THEOREM SchedulesComeRight == Spec => []QuietSchedules
<1>1. TypeInv /\ SyncInv => QuietSchedules
  BY DEF SyncInv, Synced, Right, Recurs, RingsLater, QuietSchedules, Quiet
<1>. QED
  BY <1>1, SyncInvariant, PTL
==================================================================================
