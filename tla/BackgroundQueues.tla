--------------------------- MODULE BackgroundQueues ---------------------------
(***************************************************************************)
(* The three queues of the agent worker that read what was said once a     *)
(* turn is over: memories (MemoryQueue), dreams (DreamQueue) and ideas for *)
(* skills (SkillCandidateQueue).  They share a shape: a turn reuses or     *)
(* makes one planned task and adds one delayed job, which takes the place  *)
(* of the delayed job before it; the job reads the messages behind a       *)
(* cursor, goes through them session by session with a model call for      *)
(* each, and moves the cursor.  They differ in details, and a behaviour is *)
(* of one of them (the variable queue): memories are also asked for        *)
(* explicitly, are tried three times and expire; dreams also come every    *)
(* night; an idea for a skill is put to the user in a sub-session, and the *)
(* user's reply is handled by the web.                                     *)
(*                                                                         *)
(* The agent is one JavaScript thread, so what stands between two awaits   *)
(* is one step.  Message ids grow and are never used again                 *)
(* (AUTOINCREMENT).  Bunqueue is external: it runs one job of a queue at a *)
(* time, hands back a job whose process died, lets an add replace the      *)
(* delayed job of the same key, and may take the add for a duplicate while *)
(* a job of the key is past its delay.                                     *)
(*                                                                         *)
(* Definitions named X_y are faulty variants of X, used only to test the   *)
(* properties; no specification uses them.                                 *)
(***************************************************************************)
EXTENDS Naturals, Sequences, FiniteSets, FiniteSetsExt, Functions

CONSTANTS
  Queues,          \* the queues looked at, a subset of AllQueues
  Sessions,        \* top-level conversations
  Sub,             \* all sub-sessions together
  Ideas,           \* ideas for skills, by their dedupe key
  Limit,           \* MAX_MESSAGES_PER_RUN
  MaxSuggestions,  \* MAX_SUGGESTIONS_PER_RUN
  MaxMessages,     \* bound: messages stored by turns
  MaxDrafts,       \* bound: replies to one suggestion being handled at once
  MaxEvents,       \* bound: explicit requests, nights, cancelled tasks,
                   \* deletions of a session, failed turns, failed steps and
                   \* exits, together
  None             \* no idea

AllQueues == {"memory", "dreams", "skills"}

ASSUME BackgroundAssumption ==
  /\ Queues \subseteq AllQueues
  /\ Sub \notin Sessions
  /\ None \notin Ideas
  /\ Limit \in Nat \ {0} /\ MaxSuggestions \in Nat
  /\ MaxMessages \in Nat /\ MaxDrafts \in Nat /\ MaxEvents \in Nat

VARIABLES
  queue,      \* which of the queues this is
  rows,       \* table messages: the session of each message, by id
  gone,       \* sessions that were deleted, with their messages
  cursor,     \* last_message_id of the queue's cursor
  tasks,      \* table tasks: the queue's tasks, by the order of their making
  ideas,      \* table skill_candidates: status, "none" before the insert
  jobs,       \* jobs bunqueue holds (durable)
  due,        \* turns, by the id of their message, that have yet to enqueue
  adds,       \* calls of queue.add under way
  work,       \* the job being processed
  drafts,     \* replies of the user for which the web drafts a skill
  seen,       \* history: messages a model looked at or the gate passed over
  unread,     \* history: messages the model was called for, and the call threw
  missed,     \* history: messages for which no job came to pass
  stranded,   \* history: tasks whose job did not come to pass
  posts,      \* history: how often each idea was put to the user
  unmarked,   \* history: how often that was not recorded
  events      \* how much of MaxEvents is used

tables == <<rows, gone, cursor, ideas>>
history == <<seen, unread, missed, stranded, posts, unmarked>>
vars == <<queue, tables, tasks, jobs, due, adds, work, drafts, history, events>>

Kinds == {"auto", "explicit", "nightly"}
Task(kind, status) == [kind |-> kind, status |-> status]
Terminal == {"completed", "failed", "cancelled"}
JobStates == {"delayed", "taken", "again"}

NoTask == 0
Job(t, kind) == [task |-> t, kind |-> kind, state |-> "delayed", tries |-> 0]

Add(t, fresh, i) == [task |-> t, fresh |-> fresh, message |-> i]

NoWork ==
  [job |-> Job(NoTask, "none"), task |-> NoTask, left |-> {}, last |-> 0,
   found |-> {}, posting |-> None, sent |-> 0, here |-> 0]
Idle == work = NoWork

Event == events < MaxEvents /\ events' = events + 1

Init ==
  /\ queue \in Queues
  /\ rows = <<>> /\ gone = {} /\ cursor = 0
  /\ tasks = <<>>
  /\ ideas = [i \in Ideas |-> "none"]
  /\ jobs = {} /\ due = {} /\ adds = <<>> /\ work = NoWork
  /\ drafts = [i \in Ideas |-> 0]
  /\ seen = {} /\ unread = {} /\ missed = {} /\ stranded = {}
  /\ posts = [i \in Ideas |-> 0] /\ unmarked = [i \in Ideas |-> 0]
  /\ events = 0

-----------------------------------------------------------------------------
(* Tasks                                                                   *)

planned_everyTurn == {}

(* The planned task of the dedupe key, which only automatic tasks have.    *)
planned == {t \in DOMAIN tasks : tasks[t] = Task("auto", "planned")}

(* A status that is final is not changed any more.                         *)
updated(table, t, status) ==
  [table EXCEPT ![t] = Task(@.kind, IF @.status \in Terminal THEN @.status ELSE status)]
updateTask(t, status) == tasks' = updated(tasks, t, status)

-----------------------------------------------------------------------------
(* Turns                                                                   *)

(* A turn ends well: its messages are stored, and the queue is told unless *)
(* they are of a sub-session, in which workers, too, leave messages        *)
(* (reports of failures).                                                  *)
TurnEnds(s) ==
  /\ Len(rows) < MaxMessages
  /\ s \notin gone
  /\ rows' = Append(rows, s)
  /\ due' = IF s = Sub THEN due ELSE due \cup {Len(rows) + 1}
  /\ UNCHANGED <<queue, gone, cursor, ideas, tasks, jobs, adds, work, drafts, history, events>>

(* A turn that fails leaves messages and tells no queue; one that is       *)
(* stopped or asks back does not tell the queue of memories.               *)
TurnLost(s) ==
  /\ Len(rows) < MaxMessages
  /\ s \notin gone
  /\ Event
  /\ rows' = Append(rows, s)
  /\ missed' = missed \cup {Len(rows) + 1}
  /\ UNCHANGED <<queue, gone, cursor, ideas, tasks, jobs, due, adds, work, drafts, seen, unread, stranded, posts, unmarked>>

(* The first half of enqueueAuto, up to its await.                         *)
enqueueAuto(i) ==
  /\ i \in due
  /\ due' = due \ {i}
  /\ \/ \E t \in planned :
          /\ adds' = Append(adds, Add(t, FALSE, i))
          /\ UNCHANGED tasks
     \/ /\ planned = {}
        /\ tasks' = Append(tasks, Task("auto", "planned"))
        /\ adds' = Append(adds, Add(Len(tasks) + 1, TRUE, i))
  /\ UNCHANGED <<queue, tables, jobs, work, drafts, history, events>>

(* deduplication { replace: true }                                         *)
Replaced == {j \in jobs : j.kind = "auto" /\ j.state = "delayed"}

(* The calls of one process are served in their order.                     *)
Added ==
  /\ adds # <<>>
  /\ adds' = Tail(adds)
  /\ jobs' = (jobs \ Replaced) \cup {Job(Head(adds).task, "auto")}
  /\ stranded' = stranded \ {Head(adds).task}
  /\ UNCHANGED <<queue, tables, tasks, due, work, drafts, seen, unread, missed, posts, unmarked, events>>

(* A task that was made for this add ends with it; a reused one is left to *)
(* the add it was made for.                                                *)
NotAdded(status) ==
  /\ adds # <<>>
  /\ adds' = Tail(adds)
  /\ IF Head(adds).fresh THEN updateTask(Head(adds).task, status) ELSE UNCHANGED tasks
  /\ missed' = missed \cup {Head(adds).message}
  /\ UNCHANGED <<queue, tables, jobs, due, work, drafts, seen, unread, stranded, posts, unmarked>>

Duplicate ==
  /\ \E j \in jobs : j.kind = "auto" /\ j.state # "delayed"
  /\ NotAdded("cancelled")
  /\ UNCHANGED events

AddFails == Event /\ NotAdded("failed")

(* Every request has a task and a key of its own.  Nothing catches a failed *)
(* add, which leaves the task as it is.                                     *)
enqueueExplicit ==
  /\ queue = "memory"
  /\ Event
  /\ tasks' = Append(tasks, Task("explicit", "planned"))
  /\ LET t == Len(tasks) + 1 IN
       \/ jobs' = jobs \cup {Job(t, "explicit")} /\ UNCHANGED stranded
       \/ stranded' = stranded \cup {t} /\ UNCHANGED jobs
  /\ UNCHANGED <<queue, tables, due, adds, work, drafts, seen, unread, missed, posts, unmarked>>

(* The scheduler of schedule() makes a job every night.                    *)
Night ==
  /\ queue = "dreams"
  /\ Event
  /\ jobs' = jobs \cup {Job(NoTask, "nightly")}
  /\ UNCHANGED <<queue, tables, tasks, due, adds, work, drafts, history>>

-----------------------------------------------------------------------------
(* A job                                                                   *)

Behind == {i \in DOMAIN rows : i > cursor /\ rows[i] \notin gone}
Batch == {i \in Behind : Cardinality({k \in Behind : k < i}) < Limit}

MaxAttempts == IF queue = "memory" THEN 3 ELSE 1

Taken(j) == [j EXCEPT !.state = "taken", !.tries = @ + 1]
Again(j) == [j EXCEPT !.state = "again"]

Startable(j) == Idle /\ j \in jobs /\ j.state # "taken"

(* A nightly job has no task and makes one.                                *)
TaskOf(j) == IF j.kind = "nightly" THEN Len(tasks) + 1 ELSE j.task
Running(j) ==
  IF j.kind = "nightly" THEN Append(tasks, Task("nightly", "running"))
                        ELSE updated(tasks, j.task, "running")

(* An explicit request is about one conversation and leaves the cursor.    *)
startJob(j) ==
  LET batch == IF j.kind = "explicit" THEN {} ELSE Batch IN
  /\ Startable(j)
  /\ jobs' = (jobs \ {j}) \cup {Taken(j)}
  /\ tasks' = Running(j)
  /\ work' = [NoWork EXCEPT !.job = Taken(j), !.task = TaskOf(j),
                            !.left = {i \in batch : rows[i] # Sub},
                            !.last = IF batch = {} THEN 0 ELSE Max(batch)]
  /\ missed' = IF j.kind = "explicit" THEN missed ELSE missed \cup (Behind \ Batch)
  /\ UNCHANGED <<queue, tables, due, adds, drafts, seen, unread, stranded, posts, unmarked, events>>

(* A memory job that waited too long is dropped, and one that finds no     *)
(* model configured is done without having looked.                         *)
NotRun(j) ==
  /\ queue = "memory" /\ Startable(j)
  /\ Event
  /\ jobs' = jobs \ {j}
  /\ \E status \in {"cancelled", "completed"} : updateTask(j.task, status)
  /\ missed' = IF j.kind = "explicit" THEN missed ELSE missed \cup Behind
  /\ UNCHANGED <<queue, tables, due, adds, work, drafts, seen, unread, stranded, posts, unmarked>>

Segment ==
  LET first == CHOOSE i \in work.left : \A k \in work.left : i <= k
  IN {i \in work.left : rows[i] = rows[first]}

(* The session before is done, and what was suggested in it counts.        *)
NextSegment(found) ==
  /\ work.left # {} /\ work.found = {} /\ work.posting = None
  /\ work' = [work EXCEPT !.left = @ \ Segment, !.found = found,
                          !.sent = @ + work.here, !.here = 0]

(* One session of the batch: it is passed over by the gate, or a model     *)
(* looks at it.  Ideas are what the detector may find.                     *)
inspect(found) ==
  /\ NextSegment(found)
  /\ seen' = seen \cup Segment
  /\ UNCHANGED <<queue, tables, tasks, jobs, due, adds, drafts, unread, missed, stranded, posts, unmarked, events>>

(* The model call throws: nobody looked, and the batch goes on.            *)
InspectFails ==
  /\ Event
  /\ NextSegment({})
  /\ unread' = unread \cup Segment
  /\ UNCHANGED <<queue, tables, tasks, jobs, due, adds, drafts, seen, missed, stranded, posts, unmarked>>

upsertCandidate_reopens(i) == [ideas EXCEPT ![i] = "developing"]

upsertCandidate(i) == [ideas EXCEPT ![i] = IF @ = "none" THEN "developing" ELSE @]

Suggestible(i) == upsertCandidate(i)[i] = "developing" /\ work.sent + work.here < MaxSuggestions

(* What the detector found is stored, and not suggested: it is no longer   *)
(* developing, enough was suggested, or the detector is not sure.          *)
Noted(i) ==
  /\ i \in work.found /\ work.posting = None
  /\ ideas' = upsertCandidate(i)
  /\ work' = [work EXCEPT !.found = @ \ {i}]
  /\ UNCHANGED <<queue, rows, gone, cursor, tasks, jobs, due, adds, drafts, history, events>>

(* The sub-session is made in the same step; suggest awaits its flush.     *)
suggest(i) ==
  /\ i \in work.found /\ work.posting = None
  /\ Suggestible(i)
  /\ ideas' = upsertCandidate(i)
  /\ work' = [work EXCEPT !.found = @ \ {i}, !.posting = i]
  /\ rows' = Append(rows, Sub)
  /\ posts' = [posts EXCEPT ![i] = @ + 1]
  /\ UNCHANGED <<queue, gone, cursor, tasks, jobs, due, adds, drafts, seen, unread, missed, stranded, unmarked, events>>

markSuggested ==
  LET i == work.posting IN
  /\ i # None
  /\ ideas' = [ideas EXCEPT ![i] = IF @ = "developing" THEN "suggested" ELSE @]
  /\ work' = [work EXCEPT !.posting = None, !.here = @ + 1]
  /\ UNCHANGED <<queue, rows, gone, cursor, tasks, jobs, due, adds, drafts, history, events>>

(* The flush throws, though the sub-session may be there.  The rest of the *)
(* segment is dropped, and what was suggested in it is not counted.        *)
PostFails ==
  /\ work.posting # None
  /\ Event
  /\ unmarked' = [unmarked EXCEPT ![work.posting] = @ + 1]
  /\ work' = [work EXCEPT !.posting = None, !.found = {}, !.here = 0]
  /\ UNCHANGED <<queue, tables, tasks, jobs, due, adds, drafts, seen, unread, missed, stranded, posts>>

Done == ~Idle /\ work.left = {} /\ work.found = {} /\ work.posting = None

setCursor_newest(n) == cursor' = Len(rows)

setCursor(n) == cursor' = IF n > cursor THEN n ELSE cursor

Complete ==
  /\ Done
  /\ setCursor(work.last)
  /\ updateTask(work.task, "completed")
  /\ jobs' = jobs \ {work.job}
  /\ work' = NoWork
  /\ UNCHANGED <<queue, rows, gone, ideas, due, adds, drafts, history, events>>

(* The task has failed, whether or not the job is tried again.             *)
FailJob(j, taken, table, t) ==
  /\ Event
  /\ tasks' = updated(table, t, "failed")
  /\ \/ /\ taken.tries < MaxAttempts
        /\ jobs' = (jobs \ {j}) \cup {Again(taken)}
        /\ UNCHANGED missed
     \/ /\ taken.tries >= MaxAttempts
        /\ jobs' = jobs \ {j}
        /\ missed' = IF j.kind = "explicit" THEN missed ELSE missed \cup Behind
  /\ work' = NoWork
  /\ UNCHANGED <<queue, tables, due, adds, drafts, seen, unread, stranded, posts, unmarked>>

(* The batch could not be read.                                            *)
LoadFails(j) ==
  /\ Startable(j) /\ j.kind # "explicit"
  /\ FailJob(j, Taken(j), Running(j), TaskOf(j))

(* The cursor could not be moved, or an explicit request was not served.   *)
Fail == Done /\ FailJob(work.job, work.job, tasks, work.task)

-----------------------------------------------------------------------------
(* Others                                                                  *)

(* The user's reply to a suggestion: a skill is drafted, which takes a     *)
(* while, or the idea is dismissed at once.                                *)
Save(i) ==
  /\ ideas[i] = "suggested" /\ drafts[i] < MaxDrafts
  /\ drafts' = [drafts EXCEPT ![i] = @ + 1]
  /\ UNCHANGED <<queue, tables, tasks, jobs, due, adds, work, history, events>>

Drafted(i, status) ==
  /\ drafts[i] > 0
  /\ drafts' = [drafts EXCEPT ![i] = @ - 1]
  /\ ideas' = [ideas EXCEPT ![i] = IF @ = "suggested" THEN status ELSE @]
  /\ UNCHANGED <<queue, rows, gone, cursor, tasks, jobs, due, adds, work, history, events>>

markAccepted(i) == Drafted(i, "accepted")
DraftFails(i) == Drafted(i, ideas[i])

markDismissed(i) ==
  /\ ideas[i] = "suggested"
  /\ ideas' = [ideas EXCEPT ![i] = "dismissed"]
  /\ UNCHANGED <<queue, rows, gone, cursor, tasks, jobs, due, adds, work, drafts, history, events>>

(* The user cancels a task: its job is not told.                           *)
cancelTask(t) ==
  /\ tasks[t].status \notin Terminal
  /\ Event
  /\ updateTask(t, "cancelled")
  /\ UNCHANGED <<queue, tables, jobs, due, adds, work, drafts, history>>

DeleteSession(s) ==
  /\ s \notin gone
  /\ Event
  /\ gone' = gone \cup {s}
  /\ UNCHANGED <<queue, rows, cursor, ideas, tasks, jobs, due, adds, work, drafts, history>>

(* The agent dies and is started again.  A nightly job handed back makes   *)
(* another task.                                                           *)
Exit ==
  /\ Event
  /\ jobs' = {IF j.state = "taken" THEN Again(j) ELSE j : j \in jobs}
  /\ due' = {} /\ adds' = <<>> /\ work' = NoWork
  /\ missed' = missed \cup due \cup {a.message : a \in Range(adds)}
  /\ stranded' = stranded
       \cup ({a.task : a \in Range(adds)} \ {j.task : j \in jobs})
       \cup (IF work.job.kind = "nightly" THEN {work.task} ELSE {})
  /\ unmarked' = [i \in Ideas |-> unmarked[i] + (IF work.posting = i THEN 1 ELSE 0)]
  /\ UNCHANGED <<queue, tables, tasks, drafts, seen, unread, posts>>

-----------------------------------------------------------------------------
Next ==
  \/ \E s \in Sessions \cup {Sub} : TurnEnds(s)
  \/ \E s \in Sessions : TurnLost(s)
  \/ \E i \in due : enqueueAuto(i)
  \/ Added \/ Duplicate \/ AddFails
  \/ enqueueExplicit \/ Night
  \/ \E j \in jobs : startJob(j) \/ NotRun(j) \/ LoadFails(j)
  \/ \E found \in SUBSET (IF queue = "skills" THEN Ideas ELSE {}) : inspect(found)
  \/ InspectFails
  \/ \E i \in Ideas : Noted(i) \/ suggest(i)
  \/ markSuggested \/ PostFails \/ Complete \/ Fail
  \/ \E i \in Ideas : Save(i) \/ markAccepted(i) \/ DraftFails(i) \/ markDismissed(i)
  \/ \E t \in DOMAIN tasks : cancelTask(t)
  \/ \E s \in Sessions : DeleteSession(s)
  \/ Exit

Spec == Init /\ [][Next]_vars

-----------------------------------------------------------------------------
Statuses == Terminal \cup {"planned", "running"}
TaskRows == [kind : Kinds, status : Statuses]
JobRows == [task : Nat, kind : Kinds \cup {"none"}, state : JobStates, tries : Nat]
AddRows == [task : Nat, fresh : BOOLEAN, message : Nat]
WorkRows ==
  [job : JobRows, task : Nat, left : SUBSET Nat, last : Nat, found : SUBSET Ideas,
   posting : Ideas \cup {None}, sent : Nat, here : Nat]

(* Every variable has its type.                                            *)
TypeOK ==
  /\ queue \in Queues
  /\ rows \in Seq(Sessions \cup {Sub}) /\ gone \subseteq Sessions
  /\ cursor \in Nat
  /\ tasks \in Seq(TaskRows)
  /\ ideas \in [Ideas -> {"none", "developing", "suggested", "accepted", "dismissed"}]
  /\ jobs \subseteq JobRows /\ adds \in Seq(AddRows) /\ work \in WorkRows
  /\ drafts \in [Ideas -> Nat] /\ posts \in [Ideas -> Nat] /\ unmarked \in [Ideas -> Nat]
  /\ due \subseteq Nat /\ seen \subseteq Nat /\ unread \subseteq Nat /\ missed \subseteq Nat /\ stranded \subseteq Nat
  /\ events \in Nat

(* The cursor passes a message of a conversation only after a model looked *)
(* at it or the gate passed over it, or after the one model call for it    *)
(* threw, which is not tried again (processAuto, process).  When nothing   *)
(* is left to do no message is left over, unless no job for it came to     *)
(* pass or the batch was full.                                             *)
EveryMessageShown ==
  \A i \in DOMAIN rows :
    rows[i] \notin gone \cup {Sub} =>
      /\ i <= cursor => i \in seen \cup unread
      /\ due = {} /\ adds = <<>> /\ jobs = {} => i \in seen \cup unread \cup missed

(* A task that is shown as planned or running has a job, or an add on its  *)
(* way, that will end it; if the process died over it, or the add of an    *)
(* explicit request failed, it may be left (createOrReusePlanned and the   *)
(* replacement of jobs in enqueueAuto fit together).                       *)
NoOrphanTask ==
  \A t \in DOMAIN tasks :
    \/ tasks[t].status \in Terminal
    \/ t \in stranded
    \/ \E j \in jobs : j.task = t
    \/ \E a \in Range(adds) : a.task = t
    \/ work.task = t

(* An idea is put to the user once, however often it is found again and    *)
(* whatever the user answered; once more for every time the posting was    *)
(* not recorded (upsertCandidate, suggest, markSuggested).                 *)
SuggestedOnce == \A i \in Ideas : posts[i] <= 1 + unmarked[i]
===============================================================================
