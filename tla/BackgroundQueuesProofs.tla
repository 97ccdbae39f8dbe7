------------------------- MODULE BackgroundQueuesProofs -------------------------
\* Proofs about BackgroundQueues, for any queues, conversations, messages and ideas, any
\* limits and any number of failures and exits.
EXTENDS BackgroundQueues, FiniteSetTheorems, WellFoundedInduction, TLAPS

\* What jobs, calls of add and turns refer to is there.
Refs ==
  /\ \A j \in jobs : IF j.kind = "nightly" THEN j.task = NoTask ELSE j.task \in DOMAIN tasks
  /\ \A k \in DOMAIN adds : adds[k].task \in DOMAIN tasks
  /\ due \cup {adds[k].message : k \in DOMAIN adds} \subseteq DOMAIN rows

\* A job that was taken is the one being processed, for the task it names or made.
WorkIsJob ==
  /\ \A j \in jobs : j.state = "taken" => ~Idle /\ j = work.job
  /\ ~Idle => /\ work.job \in jobs /\ work.job.state = "taken"
              /\ work.job.kind # "nightly" => work.task = work.job.task
              /\ work.task \in DOMAIN tasks
              /\ work.job.kind = "explicit" => work.left = {}

\* There is at most one planned task, and the adds ahead of its own are of that task.
OnePlanned == \A t, u \in planned : t = u
PlannedNext ==
  \A k \in DOMAIN adds : \A u \in planned :
    \/ adds[k].task = u
    \/ \E m \in DOMAIN adds : m > k /\ adds[m].task = u /\ adds[m].fresh

\* An automatic task runs by a job that is past its delay, and only automatic tasks are
\* in the way of the replacement of jobs.
AutoTasks ==
  /\ \A t \in DOMAIN tasks :
       tasks[t] = Task("auto", "running") => \E j \in jobs : j.task = t /\ j.state # "delayed"
  /\ \A j \in jobs : j.kind = "auto" => tasks[j.task].kind = "auto"
  /\ \A k \in DOMAIN adds : tasks[adds[k].task].kind = "auto"

\* NoOrphanTask, where only the add a task was made for counts.
Owned ==
  \A t \in DOMAIN tasks :
    \/ tasks[t].status \in Terminal
    \/ t \in stranded
    \/ \E j \in jobs : j.task = t
    \/ \E k \in DOMAIN adds : adds[k].task = t /\ adds[k].fresh
    \/ work.task = t

TaskInv == Refs /\ WorkIsJob /\ OnePlanned /\ PlannedNext /\ AutoTasks /\ Owned

\* How often an idea was put to the user is how often that was not recorded, and once
\* more if it was or is about to be.
PostsCounted ==
  /\ \A i \in Ideas :
       posts[i] = unmarked[i] + (IF work.posting = i THEN 1 ELSE 0)
                              + (IF ideas[i] \in {"none", "developing"} THEN 0 ELSE 1)
  /\ work.posting # None => ideas[work.posting] = "developing"

\* The messages the queue owes a look.
Owed == {i \in DOMAIN rows : rows[i] \notin gone \cup {Sub}}

\* The messages that had their look, or whose model call threw.
Looked == seen \cup unread

\* The cursor, and the point the job will move it to, leave nothing behind.
NothingPassed ==
  /\ cursor <= Len(rows) /\ work.last <= Len(rows) /\ work.left \subseteq DOMAIN rows
  /\ \A i \in Owed : i <= cursor => i \in Looked
  /\ \A i \in Owed : i <= work.last => i \in Looked \cup work.left

\* What was not looked at has a turn, an add or a job ahead.
LookAhead ==
  \A i \in Owed :
    \/ i \in Looked \cup missed \cup due \cup work.left
    \/ \E k \in DOMAIN adds : adds[k].message = i
    \/ \E j \in jobs : j.kind # "explicit" /\ j.state # "taken"

ShownInv == NothingPassed /\ LookAhead
-----------------------------------------------------------------------------
\* What Append does to a sequence over any set.
LEMMA AppendSeq ==
  ASSUME NEW S, NEW s \in Seq(S), NEW e \in S
  PROVE  /\ Append(s, e) \in Seq(S)
         /\ DOMAIN Append(s, e) = DOMAIN s \cup {Len(s) + 1}
         /\ \A k \in DOMAIN s : Append(s, e)[k] = s[k]
         /\ Append(s, e)[Len(s) + 1] = e
         /\ DOMAIN s = 1..Len(s) /\ Len(s) \in Nat
  OBVIOUS

\* What Tail leaves of a sequence over any set.
LEMMA TailSeq ==
  ASSUME NEW S, NEW s \in Seq(S), s # <<>>
  PROVE  /\ Tail(s) \in Seq(S)
         /\ Head(s) \in S /\ Head(s) = s[1] /\ 1 \in DOMAIN s
         /\ \A k \in DOMAIN Tail(s) : k + 1 \in DOMAIN s /\ Tail(s)[k] = s[k + 1]
         /\ \A k \in DOMAIN s : k # 1 => k - 1 \in DOMAIN Tail(s) /\ Tail(s)[k - 1] = s[k]
         /\ DOMAIN s = 1..Len(s) /\ Len(s) \in Nat
  OBVIOUS

\* Setting one entry keeps a sequence a sequence.
LEMMA ExceptSeq ==
  ASSUME NEW S, NEW s \in Seq(S), NEW t, NEW e, t \in DOMAIN s => e \in S
  PROVE  [s EXCEPT ![t] = e] \in Seq(S)
<1>. DEFINE n == Len(s)
            r == [s EXCEPT ![t] = e]
<1>1. n \in Nat /\ DOMAIN r = 1..n /\ DOMAIN s = 1..n
  OBVIOUS
<1>2. \A k \in 1..n : r[k] \in S
  BY <1>1
<1>3. r = [k \in 1..n |-> r[k]]
  BY <1>1
<1>4. r \in [1..n -> S]
  <2>. HIDE DEF r
  <2>. QED
    BY <1>2, <1>3, Zenon
<1>5. \A f \in [1..n -> S] : f \in Seq(S)
  BY <1>1
<1>. QED
  BY <1>4, <1>5

\* A task is a row of the table.
LEMMA TaskRow ==
  ASSUME NEW k \in Kinds, NEW u \in Statuses
  PROVE  Task(k, u) \in TaskRows
  BY DEF Task, TaskRows

\* Setting the status of a task keeps the table and touches only that task, and no
\* final status.
LEMMA UpdatedTasks ==
  ASSUME NEW s \in Seq(TaskRows), NEW t, NEW u \in Statuses
  PROVE  /\ updated(s, t, u) \in Seq(TaskRows)
         /\ DOMAIN updated(s, t, u) = DOMAIN s
         /\ \A x \in DOMAIN s : updated(s, t, u)[x] =
              IF x = t /\ s[x].status \notin Terminal THEN Task(s[x].kind, u) ELSE s[x]
<1>. DEFINE new == Task(s[t].kind, IF s[t].status \in Terminal THEN s[t].status ELSE u)
<1>1. updated(s, t, u) = [s EXCEPT ![t] = new]
  BY DEF updated
<1>2. t \in DOMAIN s => s[t] \in TaskRows
  OBVIOUS
<1>3. t \in DOMAIN s => s[t].kind \in Kinds /\ s[t].status \in Statuses /\ s[t] = Task(s[t].kind, s[t].status)
  BY <1>2 DEF TaskRows, Task
<1>4. t \in DOMAIN s => new \in TaskRows
  BY <1>3, TaskRow
<1>5. [s EXCEPT ![t] = new] \in Seq(TaskRows)
  <2>. HIDE DEF new
  <2>. QED
    BY <1>4, ExceptSeq
<1>. QED
  BY <1>1, <1>3, <1>5

\* Jobs as they are made, taken and handed back, and the idle worker, have their types.
LEMMA JobRow ==
  /\ \A t \in Nat, k \in Kinds : Job(t, k) \in JobRows
  /\ \A j \in JobRows : Taken(j) \in JobRows /\ Again(j) \in JobRows
  /\ NoWork \in WorkRows
<1>1. \A t \in Nat, k \in Kinds \cup {"none"} : Job(t, k) \in JobRows
  BY DEF Job, JobRows, JobStates
<1>2. \A j \in JobRows : Taken(j) \in JobRows
  <2>1. \A j \in JobRows : j.tries + 1 \in Nat
    BY DEF JobRows
  <2>. QED
    BY <2>1, Zenon DEF JobRows, JobStates, Taken
<1>3. \A j \in JobRows : Again(j) \in JobRows
  BY DEF JobRows, JobStates, Again
<1>4. Job(NoTask, "none") \in JobRows
  BY <1>1 DEF NoTask
<1>5. NoWork \in WorkRows
  BY <1>4 DEF NoWork, WorkRows, NoTask
<1>. QED
  BY <1>1, <1>2, <1>3, <1>5

\* What is behind the cursor is a message.
LEMMA BehindRows ==
  ASSUME TypeOK
  PROVE  Behind \subseteq Nat /\ Behind \subseteq DOMAIN rows
  BY DEF Behind, TypeOK

\* Marking a task keeps the type of the table.
LEMMA UpdateType ==
  ASSUME TypeOK, NEW t, NEW u \in Statuses, updateTask(t, u)
  PROVE  tasks' \in Seq(TaskRows)
  BY UpdatedTasks DEF updateTask, TypeOK

\* Events are counted in numbers.
LEMMA EventType ==
  ASSUME TypeOK, Event
  PROVE  events' \in Nat
  BY DEF Event, TypeOK

\* Going on to the next session takes that from what is left and changes little else.
LEMMA SegmentFields ==
  ASSUME TypeOK, NEW found \in SUBSET Ideas, NextSegment(found)
  PROVE  /\ ~Idle /\ work'.job = work.job /\ work'.task = work.task /\ work'.last = work.last
         /\ work'.left = work.left \ Segment /\ work'.posting = work.posting
<1>1. work \in WorkRows /\ work.left # {}
  BY DEF TypeOK, NextSegment
<1>2. work' = [work EXCEPT !.left = @ \ Segment, !.found = found, !.sent = @ + work.here, !.here = 0]
  BY DEF NextSegment
<1>. QED
  BY <1>1, <1>2 DEF WorkRows, NoWork, Idle

\* ... and keeps the type of the work at hand.
LEMMA SegmentType ==
  ASSUME TypeOK, NEW found \in SUBSET Ideas, NextSegment(found)
  PROVE  work' \in WorkRows
<1>1. work \in WorkRows
  BY DEF TypeOK
<1>2. work.left \ Segment \in SUBSET Nat /\ work.sent + work.here \in Nat /\ 0 \in Nat
  BY <1>1 DEF WorkRows
<1>3. work' = [work EXCEPT !.left = @ \ Segment, !.found = found, !.sent = @ + work.here, !.here = 0]
  BY DEF NextSegment
<1>. QED
  BY <1>1, <1>2, <1>3, Zenon DEF WorkRows

\* The names the actions use are of the types.
LEMMA StatusNames ==
  /\ {"planned", "running", "completed", "failed", "cancelled"} \subseteq Statuses
  /\ {"auto", "explicit", "nightly"} \subseteq Kinds
  BY DEF Statuses, Kinds, Terminal

\* The ids to be given next are numbers.
LEMMA NextTask ==
  ASSUME TypeOK
  PROVE  Len(tasks) + 1 \in Nat /\ Len(rows) + 1 \in Nat
  BY DEF TypeOK

\* A set of numbers up to n that is not empty has a greatest one.
LEMMA GreatestExists ==
  ASSUME NEW n \in Nat, NEW S \in SUBSET (1..n), S # {}
  PROVE  \E m \in S : \A k \in S : k <= m
<1>. DEFINE F == {T \in FiniteSubsetsOf(Nat) : S \subseteq T /\ \E m \in 0..n : T = 1..m}
<1>1. \A m \in 0..n : 1..m \in FiniteSubsetsOf(Nat)
  BY FS_Interval DEF FiniteSubsetsOf
<1>2. 1..n \in F
  BY <1>1
<1>3. PICK T \in F : \A U \in F : ~(<<U, T>> \in StrictSubsetOrdering(Nat))
  <2>. HIDE DEF F
  <2>1. F \subseteq FiniteSubsetsOf(Nat) /\ F # {}
    BY <1>2 DEF F
  <2>. QED
    BY <2>1, WFMin, FS_StrictSubsetOrderingWellFounded
<1>4. PICK m \in 0..n : T = 1..m
  OBVIOUS
<1>5. m # 0 /\ S \subseteq 1..m
  <2>1. S \subseteq 1..m
    BY <1>3, <1>4
  <2>. QED
    BY <2>1, 1..0 = {}
<1>6. m \in S
  <2>. SUFFICES ASSUME m \notin S PROVE FALSE
    OBVIOUS
  <2>1. 1..(m-1) \in F
    BY <1>1, <1>4, <1>5
  <2>2. <<1..(m-1), T>> \in StrictSubsetOrdering(Nat)
    BY <2>1, <1>4, <1>5 DEF StrictSubsetOrdering, FiniteSubsetsOf
  <2>. QED
    BY <1>3, <2>1, <2>2
<1>. QED
  BY <1>5, <1>6

\* Max is the greatest.
LEMMA MaxOf ==
  ASSUME NEW n \in Nat, NEW S \in SUBSET (1..n), S # {}
  PROVE  Max(S) \in S /\ \A k \in S : k <= Max(S)
<1>1. PICK m \in S : \A k \in S : k <= m
  BY GreatestExists
<1>2. \A k \in S : m >= k
  BY <1>1
<1>. QED
  BY <1>2 DEF Max

\* The batch is the first part of what is behind the cursor.
LEMMA BatchFirst ==
  ASSUME TypeOK
  PROVE  /\ Batch \subseteq Behind /\ Behind \subseteq 1..Len(rows)
         /\ \A i \in Batch, k \in Behind : k < i => k \in Batch
<1>1. Behind \subseteq 1..Len(rows)
  BY DEF Behind, TypeOK
<1>2. ASSUME NEW i \in Batch, NEW k \in Behind, k < i PROVE k \in Batch
  <2>. DEFINE Before(x) == {y \in Behind : y < x}
  <2>1. IsFiniteSet(Before(i)) /\ Before(k) \subseteq Before(i)
    <3>1. IsFiniteSet(1..Len(rows)) 
      BY FS_Interval DEF TypeOK
    <3>2. IsFiniteSet(Before(i))
      BY <1>1, <3>1, FS_Subset
    <3>3. i \in Nat /\ k \in Nat /\ Behind \subseteq Nat
      BY <1>1 DEF Batch
    <3>. QED
      <4>1. ASSUME NEW y \in Before(k) PROVE y < i
        BY <1>2, <3>3
      <4>. QED
        BY <3>2, <4>1
  <2>2. Cardinality(Before(k)) <= Cardinality(Before(i))
    BY <2>1, FS_Subset
  <2>3. Cardinality(Before(k)) \in Nat /\ Cardinality(Before(i)) \in Nat
    BY <2>1, FS_Subset, FS_CardinalityType
  <2>4. Cardinality(Before(i)) < Limit
    BY DEF Batch
  <2>5. Cardinality(Before(k)) < Limit
    BY <2>2, <2>3, <2>4, BackgroundAssumption
  <2>. QED
    BY <2>5 DEF Batch
<1>. QED
  BY <1>1, <1>2 DEF Batch

\* Starting a job keeps the type of the table.
LEMMA RunningType ==
  ASSUME TypeOK, NEW j
  PROVE  Running(j) \in Seq(TaskRows)
  BY UpdatedTasks, StatusNames, TaskRow, AppendSeq DEF Running, TypeOK

\* Every step keeps the types.
LEMMA TypeStep ==
  ASSUME TypeOK, [Next]_vars
  PROVE  TypeOK'
<1>1. ASSUME NEW s \in Sessions \cup {Sub}, TurnEnds(s) PROVE TypeOK'
  <2>1. rows' \in Seq(Sessions \cup {Sub})
    BY <1>1, AppendSeq DEF TurnEnds, TypeOK
  <2>2. due' \subseteq Nat
    BY <1>1, NextTask DEF TurnEnds, TypeOK
  <2>. QED
    BY <1>1, <2>1, <2>2, Zenon DEF TypeOK, TurnEnds, tables, history
<1>2. ASSUME NEW s \in Sessions, TurnLost(s) PROVE TypeOK'
  <2>1. rows' \in Seq(Sessions \cup {Sub})
    BY <1>2, AppendSeq DEF TurnLost, TypeOK
  <2>2. missed' \subseteq Nat
    BY <1>2, NextTask DEF TurnLost, TypeOK
  <2>3. events' \in Nat
    BY <1>2, EventType DEF TurnLost
  <2>. QED
    BY <1>2, <2>1, <2>2, <2>3, Zenon DEF TypeOK, TurnLost, tables, history
<1>3. ASSUME NEW i \in due, enqueueAuto(i) PROVE TypeOK'
  <2>1. due' \subseteq Nat
    BY <1>3 DEF enqueueAuto, TypeOK
  <2>2. i \in Nat /\ planned \subseteq Nat /\ Len(tasks) + 1 \in Nat
    BY <1>3, NextTask DEF planned, TypeOK
  <2>3. \A t \in Nat, b \in BOOLEAN : Add(t, b, i) \in AddRows
    BY <1>3, <2>2 DEF Add, AddRows
  <2>4. \A e \in AddRows : Append(adds, e) \in Seq(AddRows)
    BY AppendSeq DEF TypeOK
  <2>5. adds' \in Seq(AddRows)
    BY <1>3, <2>2, <2>3, <2>4 DEF enqueueAuto
  <2>6. Append(tasks, Task("auto", "planned")) \in Seq(TaskRows)
    BY TaskRow, StatusNames, AppendSeq DEF TypeOK
  <2>7. tasks' \in Seq(TaskRows)
    BY <1>3, <2>6 DEF enqueueAuto, TypeOK
  <2>. QED
    BY <1>3, <2>1, <2>5, <2>7, Zenon DEF TypeOK, enqueueAuto, tables, history
<1>4. ASSUME Added PROVE TypeOK'
  <2>1. adds' \in Seq(AddRows) /\ Head(adds) \in AddRows
    BY <1>4, TailSeq DEF Added, TypeOK
  <2>2. Job(Head(adds).task, "auto") \in JobRows
    BY <1>4, <2>1, JobRow, StatusNames DEF AddRows
  <2>3. jobs' \subseteq JobRows
    BY <1>4, <2>2 DEF Added, TypeOK, Replaced
  <2>4. stranded' \subseteq Nat
    BY <1>4 DEF Added, TypeOK
  <2>. QED
    BY <1>4, <2>1, <2>2, <2>3, <2>4, Zenon DEF TypeOK, Added, tables, history
<1>5. ASSUME Duplicate PROVE TypeOK'
  <2>1. adds' \in Seq(AddRows) /\ Head(adds) \in AddRows
    BY <1>5, TailSeq DEF Duplicate, NotAdded, TypeOK
  <2>2. tasks' \in Seq(TaskRows)
    BY <1>5, UpdateType, StatusNames DEF Duplicate, NotAdded, TypeOK
  <2>3. missed' \subseteq Nat
    BY <1>5, <2>1 DEF Duplicate, NotAdded, TypeOK, AddRows
  <2>. QED
    BY <1>5, <2>1, <2>2, <2>3, Zenon DEF TypeOK, Duplicate, NotAdded, tables, history
<1>6. ASSUME AddFails PROVE TypeOK'
  <2>1. adds' \in Seq(AddRows) /\ Head(adds) \in AddRows
    BY <1>6, TailSeq DEF AddFails, NotAdded, TypeOK
  <2>2. tasks' \in Seq(TaskRows)
    BY <1>6, UpdateType, StatusNames DEF AddFails, NotAdded, TypeOK
  <2>3. missed' \subseteq Nat
    BY <1>6, <2>1 DEF AddFails, NotAdded, TypeOK, AddRows
  <2>4. events' \in Nat
    BY <1>6, EventType DEF AddFails
  <2>. QED
    BY <1>6, <2>1, <2>2, <2>3, <2>4, Zenon DEF TypeOK, AddFails, NotAdded, tables, history
<1>7. ASSUME enqueueExplicit PROVE TypeOK'
  <2>1. tasks' \in Seq(TaskRows)
    BY <1>7, TaskRow, StatusNames, AppendSeq DEF enqueueExplicit, TypeOK
  <2>2. jobs' \subseteq JobRows
    <3>1. Job(Len(tasks) + 1, "explicit") \in JobRows
      BY NextTask, JobRow, StatusNames
    <3>. QED
      BY <1>7, <3>1 DEF enqueueExplicit, TypeOK
  <2>3. stranded' \subseteq Nat
    <3>1. stranded' \subseteq stranded \cup {Len(tasks) + 1}
      BY <1>7 DEF enqueueExplicit
    <3>. QED
      BY <3>1, NextTask DEF TypeOK
  <2>4. events' \in Nat
    BY <1>7, EventType DEF enqueueExplicit
  <2>. QED
    BY <1>7, <2>1, <2>2, <2>3, <2>4, Zenon DEF TypeOK, enqueueExplicit, tables, history
<1>8. ASSUME Night PROVE TypeOK'
  <2>1. jobs' \subseteq JobRows
    BY <1>8, JobRow, StatusNames DEF Night, TypeOK, NoTask
  <2>2. events' \in Nat
    BY <1>8, EventType DEF Night
  <2>. QED
    BY <1>8, <2>1, <2>2, Zenon DEF TypeOK, Night, tables, history
<1>9. ASSUME NEW j \in jobs, startJob(j) PROVE TypeOK'
  <2>1. Taken(j) \in JobRows /\ j \in JobRows
    BY <1>9, JobRow DEF TypeOK
  <2>2. TaskOf(j) \in Nat
    BY <1>9, <2>1, NextTask DEF TaskOf, JobRows
  <2>3. tasks' \in Seq(TaskRows)
    BY <1>9, RunningType DEF startJob
  <2>4. jobs' \subseteq JobRows
    BY <1>9, <2>1 DEF startJob, TypeOK
  <2>5. missed' \subseteq Nat
    BY <1>9, BehindRows DEF startJob, TypeOK
  <2>6. \A S \in SUBSET Batch : S = {} \/ Max(S) \in Nat
    <3>1. Len(rows) \in Nat /\ Batch \in SUBSET (1..Len(rows))
      BY BehindRows DEF Batch, TypeOK
    <3>2. SUFFICES ASSUME NEW S \in SUBSET Batch, S # {} PROVE Max(S) \in Nat
      OBVIOUS
    <3>3. Max(S) \in S
      BY <3>1, <3>2, MaxOf
    <3>4. S \subseteq Nat
      BY <3>1
    <3>. QED
      BY <3>3, <3>4
  <2>7. work' \in WorkRows
    BY <1>9, <2>1, <2>2, <2>6, JobRow, BehindRows DEF startJob, WorkRows, Batch
  <2>. QED
    BY <1>9, <2>1, <2>2, <2>3, <2>4, <2>5, <2>6, <2>7, Zenon DEF TypeOK, startJob, tables, history
<1>10. ASSUME NEW j \in jobs, NotRun(j) PROVE TypeOK'
  <2>1. tasks' \in Seq(TaskRows)
    BY <1>10, UpdateType, StatusNames DEF NotRun
  <2>2. jobs' \subseteq JobRows
    BY <1>10 DEF NotRun, TypeOK
  <2>3. missed' \subseteq Nat
    BY <1>10, BehindRows DEF NotRun, TypeOK
  <2>4. events' \in Nat
    BY <1>10, EventType DEF NotRun
  <2>. QED
    BY <1>10, <2>1, <2>2, <2>3, <2>4, Zenon DEF TypeOK, NotRun, tables, history
<1>11. ASSUME NEW j \in jobs, LoadFails(j) PROVE TypeOK'
  <2>1. Taken(j) \in JobRows /\ Running(j) \in Seq(TaskRows)
    BY <1>11, JobRow, RunningType DEF TypeOK
  <2>2. tasks' \in Seq(TaskRows)
    BY <1>11, <2>1, UpdatedTasks, StatusNames DEF LoadFails, FailJob
  <2>3. jobs' \subseteq JobRows
    BY <1>11, <2>1, JobRow DEF LoadFails, FailJob, TypeOK
  <2>4. missed' \subseteq Nat
    BY <1>11, BehindRows DEF LoadFails, FailJob, TypeOK
  <2>5. work' \in WorkRows
    BY <1>11, JobRow DEF LoadFails, FailJob
  <2>6. events' \in Nat
    BY <1>11, EventType DEF LoadFails, FailJob
  <2>. QED
    BY <1>11, <2>1, <2>2, <2>3, <2>4, <2>5, <2>6, Zenon DEF TypeOK, LoadFails, FailJob, tables, history
<1>12. ASSUME NEW found \in SUBSET Ideas, inspect(found) PROVE TypeOK'
  <2>1. Segment \subseteq Nat
    BY <1>12 DEF Segment, TypeOK, WorkRows
  <2>2. seen' \subseteq Nat
    BY <1>12, <2>1 DEF inspect, TypeOK
  <2>3. work' \in WorkRows
    BY <1>12, SegmentType DEF inspect
  <2>. QED
    BY <1>12, <2>1, <2>2, <2>3, Zenon DEF TypeOK, inspect, tables, history
<1>13. ASSUME NEW i \in Ideas, Noted(i) PROVE TypeOK'
  <2>1. ideas' \in [Ideas -> {"none", "developing", "suggested", "accepted", "dismissed"}]
    BY <1>13 DEF Noted, upsertCandidate, TypeOK
  <2>2. work' \in WorkRows
    BY <1>13 DEF Noted, TypeOK, WorkRows
  <2>. QED
    BY <1>13, <2>1, <2>2, Zenon DEF TypeOK, Noted, tables, history
<1>14. ASSUME NEW i \in Ideas, suggest(i) PROVE TypeOK'
  <2>1. ideas' \in [Ideas -> {"none", "developing", "suggested", "accepted", "dismissed"}]
    BY <1>14 DEF suggest, upsertCandidate, TypeOK
  <2>2. work' \in WorkRows
    BY <1>14 DEF suggest, TypeOK, WorkRows
  <2>3. rows' \in Seq(Sessions \cup {Sub})
    BY <1>14, AppendSeq DEF suggest, TypeOK
  <2>4. posts' \in [Ideas -> Nat]
    BY <1>14 DEF suggest, TypeOK
  <2>. QED
    BY <1>14, <2>1, <2>2, <2>3, <2>4, Zenon DEF TypeOK, suggest, tables, history
<1>15. ASSUME markSuggested PROVE TypeOK'
  <2>1. ideas' \in [Ideas -> {"none", "developing", "suggested", "accepted", "dismissed"}]
    BY <1>15 DEF markSuggested, TypeOK
  <2>2. work' \in WorkRows
    <3>1. work \in WorkRows /\ work' = [work EXCEPT !.posting = None, !.here = @ + 1]
      BY <1>15 DEF markSuggested, TypeOK
    <3>2. work.here + 1 \in Nat
      BY <3>1 DEF WorkRows
    <3>. QED
      BY <3>1, <3>2, Zenon DEF WorkRows
  <2>. QED
    BY <1>15, <2>1, <2>2, Zenon DEF TypeOK, markSuggested, tables, history
<1>16. ASSUME PostFails PROVE TypeOK'
  <2>1. unmarked' \in [Ideas -> Nat]
    BY <1>16 DEF PostFails, TypeOK, WorkRows
  <2>2. work' \in WorkRows
    BY <1>16 DEF PostFails, TypeOK, WorkRows
  <2>3. events' \in Nat
    BY <1>16, EventType DEF PostFails
  <2>. QED
    BY <1>16, <2>1, <2>2, <2>3, Zenon DEF TypeOK, PostFails, tables, history
<1>17. ASSUME Complete PROVE TypeOK'
  <2>1. cursor' \in Nat
    BY <1>17 DEF Complete, setCursor, TypeOK, WorkRows
  <2>2. tasks' \in Seq(TaskRows)
    BY <1>17, UpdateType, StatusNames DEF Complete
  <2>3. jobs' \subseteq JobRows
    BY <1>17 DEF Complete, TypeOK
  <2>4. work' \in WorkRows
    BY <1>17, JobRow DEF Complete
  <2>. QED
    BY <1>17, <2>1, <2>2, <2>3, <2>4, Zenon DEF TypeOK, Complete, tables, history
<1>18. ASSUME Fail PROVE TypeOK'
  <2>1. tasks' \in Seq(TaskRows)
    BY <1>18, UpdatedTasks, StatusNames DEF Fail, FailJob, TypeOK
  <2>2. jobs' \subseteq JobRows
    BY <1>18, JobRow DEF Fail, FailJob, TypeOK, WorkRows
  <2>3. missed' \subseteq Nat
    BY <1>18, BehindRows DEF Fail, FailJob, TypeOK
  <2>4. work' \in WorkRows
    BY <1>18, JobRow DEF Fail, FailJob
  <2>5. events' \in Nat
    BY <1>18, EventType DEF Fail, FailJob
  <2>. QED
    BY <1>18, <2>1, <2>2, <2>3, <2>4, <2>5, Zenon DEF TypeOK, Fail, FailJob, tables, history
<1>19. ASSUME NEW i \in Ideas, Save(i) PROVE TypeOK'
  <2>1. drafts' \in [Ideas -> Nat]
    BY <1>19 DEF Save, TypeOK
  <2>. QED
    BY <1>19, <2>1, Zenon DEF TypeOK, Save, tables, history
<1>20. ASSUME NEW i \in Ideas, markAccepted(i) PROVE TypeOK'
  <2>1. drafts' \in [Ideas -> Nat]
    BY <1>20 DEF markAccepted, Drafted, TypeOK
  <2>2. ideas' \in [Ideas -> {"none", "developing", "suggested", "accepted", "dismissed"}]
    BY <1>20 DEF markAccepted, Drafted, TypeOK
  <2>. QED
    BY <1>20, <2>1, <2>2, Zenon DEF TypeOK, markAccepted, Drafted, tables, history
<1>21. ASSUME NEW i \in Ideas, DraftFails(i) PROVE TypeOK'
  <2>1. drafts' \in [Ideas -> Nat]
    BY <1>21 DEF DraftFails, Drafted, TypeOK
  <2>2. ideas' \in [Ideas -> {"none", "developing", "suggested", "accepted", "dismissed"}]
    BY <1>21 DEF DraftFails, Drafted, TypeOK
  <2>. QED
    BY <1>21, <2>1, <2>2, Zenon DEF TypeOK, DraftFails, Drafted, tables, history
<1>22. ASSUME NEW i \in Ideas, markDismissed(i) PROVE TypeOK'
  <2>1. ideas' \in [Ideas -> {"none", "developing", "suggested", "accepted", "dismissed"}]
    BY <1>22 DEF markDismissed, TypeOK
  <2>. QED
    BY <1>22, <2>1, Zenon DEF TypeOK, markDismissed, tables, history
<1>23. ASSUME NEW t \in DOMAIN tasks, cancelTask(t) PROVE TypeOK'
  <2>1. tasks' \in Seq(TaskRows)
    BY <1>23, UpdateType, StatusNames DEF cancelTask
  <2>2. events' \in Nat
    BY <1>23, EventType DEF cancelTask
  <2>. QED
    BY <1>23, <2>1, <2>2, Zenon DEF TypeOK, cancelTask, tables, history
<1>24. ASSUME NEW s \in Sessions, DeleteSession(s) PROVE TypeOK'
  <2>1. gone' \subseteq Sessions
    BY <1>24 DEF DeleteSession, TypeOK
  <2>2. events' \in Nat
    BY <1>24, EventType DEF DeleteSession
  <2>. QED
    BY <1>24, <2>1, <2>2, Zenon DEF TypeOK, DeleteSession, tables, history
<1>25. ASSUME Exit PROVE TypeOK'
  <2>1. jobs' \subseteq JobRows
    BY <1>25, JobRow DEF Exit, TypeOK
  <2>2. work' \in WorkRows
    BY <1>25, JobRow DEF Exit
  <2>3. due' \subseteq Nat /\ adds' \in Seq(AddRows)
    BY <1>25 DEF Exit
  <2>4. \A a \in Range(adds) : a \in AddRows
    BY <1>25 DEF Range, TypeOK
  <2>5. missed' \subseteq Nat
    BY <1>25, <2>4 DEF Exit, TypeOK, AddRows
  <2>6. stranded' \subseteq Nat
    BY <1>25, <2>4 DEF Exit, TypeOK, AddRows, WorkRows
  <2>7. unmarked' \in [Ideas -> Nat]
    BY <1>25 DEF Exit, TypeOK
  <2>8. events' \in Nat
    BY <1>25, EventType DEF Exit
  <2>. QED
    BY <1>25, <2>1, <2>2, <2>3, <2>4, <2>5, <2>6, <2>7, <2>8, Zenon DEF TypeOK, Exit, tables, history
<1>27. ASSUME InspectFails PROVE TypeOK'
  <2>1. Segment \subseteq Nat
    BY <1>27 DEF InspectFails, NextSegment, Segment, TypeOK, WorkRows
  <2>2. unread' \subseteq Nat
    BY <1>27, <2>1 DEF InspectFails, TypeOK
  <2>3. work' \in WorkRows
    BY <1>27, SegmentType DEF InspectFails
  <2>4. events' \in Nat
    BY <1>27, EventType DEF InspectFails
  <2>. QED
    BY <1>27, <2>1, <2>2, <2>3, <2>4, Zenon DEF TypeOK, InspectFails, tables, history
<1>26. ASSUME UNCHANGED vars PROVE TypeOK'
  BY <1>26, Zenon DEF vars, tables, history, TypeOK
<1>. QED
  BY <1>1, <1>2, <1>3, <1>4, <1>5, <1>6, <1>7, <1>8, <1>9, <1>10, <1>11, <1>12, <1>13, <1>14, <1>15, <1>16, <1>17, <1>18, <1>19, <1>20, <1>21, <1>22, <1>23, <1>24, <1>25, <1>26, <1>27 DEF Next

-----------------------------------------------------------------------------
\* The fields of a job.
LEMMA JobFields ==
  /\ \A j \in JobRows : /\ Taken(j).task = j.task /\ Taken(j).kind = j.kind /\ Taken(j).state = "taken"
                        /\ Again(j).task = j.task /\ Again(j).kind = j.kind /\ Again(j).state = "again"
  /\ \A t, k : Job(t, k).task = t /\ Job(t, k).kind = k /\ Job(t, k).state = "delayed"
  /\ NoWork.job = Job(NoTask, "none") /\ NoWork.task = NoTask /\ NoWork.left = {}
  /\ NoWork.posting = None /\ NoWork.last = 0
  BY DEF JobRows, Taken, Again, Job, NoWork

\* A table in which nothing but the status of task t was set, or which has t besides, a
\* task of the night.
Marked(table, t) ==
  /\ DOMAIN tasks \subseteq DOMAIN table
  /\ \A x \in DOMAIN table \ DOMAIN tasks : x = t /\ table[x].kind = "nightly"
  /\ \A x \in DOMAIN tasks :
       /\ table[x].kind = tasks[x].kind
       /\ x # t \/ tasks[x].status \in Terminal => table[x] = tasks[x]
       /\ table[x] = Task("auto", "planned") => tasks[x] = table[x]

\* A running automatic task is not at its end.
LEMMA RunningStatus ==
  Task("auto", "running").status \notin Terminal /\ Task("auto", "running").kind = "auto"
  BY DEF Task, Terminal

\* Setting the status of a task gives a marked table; a final status is its end.
LEMMA MarkedTasks ==
  ASSUME TypeOK, NEW t, NEW u \in Statuses, u # "planned"
  PROVE  /\ Marked(updated(tasks, t, u), t)
         /\ t \in DOMAIN tasks /\ u \in Terminal => updated(tasks, t, u)[t].status \in Terminal
<1>. DEFINE new == updated(tasks, t, u)
<1>1. /\ DOMAIN new = DOMAIN tasks
      /\ \A x \in DOMAIN tasks : new[x] = IF x = t /\ tasks[x].status \notin Terminal THEN Task(tasks[x].kind, u) ELSE tasks[x]
  BY UpdatedTasks DEF TypeOK
<1>2. \A k, v : Task(k, v).kind = k /\ Task(k, v).status = v
  BY DEF Task
<1>3. Task("auto", "planned").status \notin Terminal
  BY <1>2 DEF Terminal
<1>. HIDE DEF new
<1>4. Marked(new, t)
  BY <1>1, <1>2, <1>3 DEF Marked
<1>5. t \in DOMAIN tasks /\ u \in Terminal => new[t].status \in Terminal
  BY <1>1, <1>2
<1>. QED
  BY <1>4, <1>5 DEF new

\* Steps that leave tasks, jobs and adds alone.
LEMMA OthersKeep ==
  ASSUME TypeOK, TaskInv, UNCHANGED <<tasks, jobs, adds, stranded>>,
         DOMAIN rows \subseteq DOMAIN rows', due' \subseteq due \cup DOMAIN rows',
         work'.job = work.job, work'.task = work.task, work.left = {} => work'.left = {},
         work' = work \/ ~Idle
  PROVE  TaskInv'
<1>1. Refs'
  BY DEF TaskInv, Refs
<1>2. Idle' <=> Idle
  BY JobFields DEF TaskInv, WorkIsJob, Idle
<1>3. WorkIsJob'
  BY <1>2 DEF TaskInv, WorkIsJob
<1>4. OnePlanned' /\ PlannedNext'
  BY DEF TaskInv, OnePlanned, PlannedNext, planned
<1>5. AutoTasks'
  BY DEF TaskInv, AutoTasks
<1>6. Owned'
  BY DEF TaskInv, Owned
<1>. QED
  BY <1>1, <1>3, <1>4, <1>5, <1>6 DEF TaskInv

\* A marked table has no task planned that was not.
LEMMA MarkedPlanned ==
  ASSUME TypeOK, NEW t, Marked(tasks', t)
  PROVE  planned' \subseteq planned
  BY DEF Marked, planned, Task

\* Taking the first add away.
LEMMA TailPlanned ==
  ASSUME TypeOK, PlannedNext, adds # <<>>, adds' = Tail(adds), planned' \subseteq planned
  PROVE  PlannedNext'
<1>. SUFFICES ASSUME NEW k \in DOMAIN adds', NEW u \in planned', adds'[k].task # u
              PROVE  \E m \in DOMAIN adds' : m > k /\ adds'[m].task = u /\ adds'[m].fresh
  BY DEF PlannedNext
<1>1. k + 1 \in DOMAIN adds /\ adds'[k] = adds[k + 1] /\ k \in Nat /\ DOMAIN adds \subseteq Nat
  BY TailSeq DEF TypeOK
<1>2. PICK m \in DOMAIN adds : m > k + 1 /\ adds[m].task = u /\ adds[m].fresh
  BY <1>1 DEF PlannedNext
<1>3. m - 1 \in DOMAIN adds' /\ adds'[m - 1] = adds[m]
  BY <1>1, <1>2, TailSeq DEF TypeOK
<1>. QED
  BY <1>1, <1>2, <1>3

\* A turn reuses the planned task, or makes the only one.
LEMMA EnqueueAutoKeeps ==
  ASSUME TypeOK, TaskInv, NEW i \in due, enqueueAuto(i)
  PROVE  TaskInv'
<1>. DEFINE n == Len(adds) + 1
<1>. USE DEF Add
<1>1. CASE tasks' = tasks
  <2>1. PICK t \in planned : adds' = Append(adds, Add(t, FALSE, i))
    <3>1. tasks # Append(tasks, Task("auto", "planned"))
      BY DEF TypeOK
    <3>. QED
      BY <1>1, <3>1 DEF enqueueAuto
  <2>2. /\ DOMAIN adds' = DOMAIN adds \cup {n} /\ n \notin DOMAIN adds
        /\ \A k \in DOMAIN adds : adds'[k] = adds[k]
        /\ adds'[n] = Add(t, FALSE, i)
    BY <2>1 DEF TypeOK
  <2>3. Refs'
    BY <1>1, <2>1, <2>2 DEF enqueueAuto, tables, TaskInv, Refs, planned
  <2>4. WorkIsJob'
    BY <1>1 DEF enqueueAuto, TaskInv, WorkIsJob, Idle
  <2>5. OnePlanned' /\ planned' = planned
    BY <1>1 DEF TaskInv, OnePlanned, planned
  <2>6. PlannedNext'
    BY <2>1, <2>2, <2>5 DEF TaskInv, OnePlanned, PlannedNext
  <2>7. AutoTasks'
    BY <1>1, <2>1, <2>2 DEF enqueueAuto, TaskInv, AutoTasks, planned, Task
  <2>8. Owned'
    BY <1>1, <2>2 DEF enqueueAuto, history, TaskInv, Owned
  <2>. QED
    BY <2>3, <2>4, <2>5, <2>6, <2>7, <2>8 DEF TaskInv
<1>2. CASE tasks' # tasks
  <2>. DEFINE t == Len(tasks) + 1
  <2>1. planned = {} /\ tasks' = Append(tasks, Task("auto", "planned")) /\ adds' = Append(adds, Add(t, TRUE, i))
    BY <1>2 DEF enqueueAuto
  <2>2. /\ DOMAIN adds' = DOMAIN adds \cup {n} /\ n \notin DOMAIN adds /\ \A k \in DOMAIN adds : k < n
        /\ \A k \in DOMAIN adds : adds'[k] = adds[k]
        /\ adds'[n] = Add(t, TRUE, i)
    BY <2>1 DEF TypeOK
  <2>3. /\ DOMAIN tasks' = DOMAIN tasks \cup {t} /\ t \notin DOMAIN tasks
        /\ \A k \in DOMAIN tasks : tasks'[k] = tasks[k]
        /\ tasks'[t] = Task("auto", "planned")
    BY <2>1 DEF TypeOK
  <2>. HIDE DEF t, n
  <2>4. Refs'
    BY <2>2, <2>3 DEF enqueueAuto, tables, TaskInv, Refs
  <2>5. WorkIsJob'
    BY <2>3 DEF enqueueAuto, TaskInv, WorkIsJob, Idle
  <2>6. planned' = {t}
    BY <2>1, <2>3 DEF planned
  <2>7. OnePlanned' /\ PlannedNext'
    BY <2>2, <2>6 DEF OnePlanned, PlannedNext
  <2>8. AutoTasks'
    BY <2>2, <2>3 DEF enqueueAuto, TaskInv, AutoTasks, Task, Refs
  <2>9. Owned'
    BY <2>2, <2>3 DEF enqueueAuto, history, TaskInv, Owned
  <2>. QED
    BY <2>4, <2>5, <2>7, <2>8, <2>9 DEF TaskInv
<1>. QED
  BY <1>1, <1>2

\* The job that replaces the others belongs to the task whose job it replaces, or to one
\* that is made before it; a running task has a job that is not replaced.
LEMMA AddedKeeps ==
  ASSUME TypeOK, TaskInv, Added
  PROVE  TaskInv'
<1>. DEFINE h == Head(adds)
            new == Job(h.task, "auto")
<1>1. /\ adds # <<>> /\ h = adds[1] /\ 1 \in DOMAIN adds
      /\ \A k \in DOMAIN adds' : k + 1 \in DOMAIN adds /\ adds'[k] = adds[k + 1]
      /\ \A k \in DOMAIN adds : k # 1 => k - 1 \in DOMAIN adds' /\ adds'[k - 1] = adds[k]
  BY TailSeq DEF Added, TypeOK
<1>2. new.task = h.task /\ new.kind = "auto" /\ new.state = "delayed"
  BY JobFields
<1>3. jobs' = (jobs \ Replaced) \cup {new} /\ UNCHANGED <<rows, tasks, due, work>> /\ stranded' = stranded \ {h.task}
  BY DEF Added, tables
<1>. HIDE DEF h, new
<1>4. Refs'
  BY <1>1, <1>2, <1>3 DEF TaskInv, Refs
<1>5. WorkIsJob'
  BY <1>2, <1>3 DEF TaskInv, WorkIsJob, Idle, Replaced
<1>6. OnePlanned' /\ planned' = planned
  BY <1>3 DEF TaskInv, OnePlanned, planned
<1>7. PlannedNext'
  BY <1>6, TailPlanned DEF TaskInv, Added
<1>8. AutoTasks'
  BY <1>1, <1>2, <1>3 DEF TaskInv, AutoTasks, Replaced
<1>9. ASSUME NEW t \in DOMAIN tasks, tasks[t].status \notin Terminal, t \notin stranded
      PROVE  \/ \E j \in jobs' : j.task = t
             \/ \E k \in DOMAIN adds' : adds'[k].task = t /\ adds'[k].fresh
             \/ work'.task = t
  <2>1. CASE \E j \in jobs : j.task = t
    <3>1. PICK j \in jobs : j.task = t
      BY <2>1
    <3>2. CASE j \notin Replaced
      BY <1>3, <3>1, <3>2
    <3>3. CASE j \in Replaced
      <4>1. tasks[t].kind = "auto"
        BY <3>1, <3>3 DEF TaskInv, AutoTasks, Replaced
      <4>2. tasks[t] = Task("auto", "planned") \/ tasks[t] = Task("auto", "running")
        <5>1. tasks[t] \in TaskRows
          BY DEF TypeOK
        <5>. QED
          BY <1>9, <4>1, <5>1, Zenon DEF TaskRows, Task, Statuses
      <4>3. CASE tasks[t] = Task("auto", "running")
        BY <1>3, <4>3 DEF TaskInv, AutoTasks, Replaced
      <4>4. CASE t \in planned
        <5>1. CASE h.task = t
          BY <1>2, <1>3, <5>1
        <5>2. CASE h.task # t
          <6>1. PICK m \in DOMAIN adds : m > 1 /\ adds[m].task = t /\ adds[m].fresh
            BY <1>1, <4>4, <5>2 DEF TaskInv, PlannedNext
          <6>. QED
            BY <1>1, <6>1
        <5>. QED
          BY <5>1, <5>2
      <4>. QED
        BY <4>2, <4>3, <4>4 DEF planned
    <3>. QED
      BY <3>2, <3>3
  <2>2. CASE \E k \in DOMAIN adds : adds[k].task = t /\ adds[k].fresh
    BY <1>1, <1>2, <1>3, <2>2
  <2>3. CASE work.task = t
    BY <1>3, <2>3
  <2>. QED
    BY <1>9, <2>1, <2>2, <2>3 DEF TaskInv, Owned
<1>10. Owned'
  BY <1>2, <1>3, <1>9 DEF Owned
<1>. QED
  BY <1>4, <1>5, <1>6, <1>7, <1>8, <1>10 DEF TaskInv

\* An add that fails or is taken for a duplicate ends the task that was made for it.
LEMMA NotAddedKeeps ==
  ASSUME TypeOK, TaskInv, NEW status \in Terminal, NotAdded(status)
  PROVE  TaskInv'
<1>. DEFINE h == Head(adds)
<1>1. /\ adds # <<>> /\ h = adds[1] /\ 1 \in DOMAIN adds
      /\ \A k \in DOMAIN adds' : k + 1 \in DOMAIN adds /\ adds'[k] = adds[k + 1]
      /\ \A k \in DOMAIN adds : k # 1 => k - 1 \in DOMAIN adds' /\ adds'[k - 1] = adds[k]
  BY TailSeq DEF NotAdded, TypeOK
<1>2. /\ Marked(tasks', h.task) /\ DOMAIN tasks' = DOMAIN tasks
      /\ IF h.fresh THEN tasks'[h.task].status \in Terminal ELSE tasks' = tasks
  <2>1. status \in Statuses /\ status # "planned"
    BY DEF Statuses, Terminal
  <2>2. h.task \in DOMAIN tasks
    BY <1>1 DEF TaskInv, Refs
  <2>4. CASE h.fresh
    BY <2>1, <2>2, <2>4, MarkedTasks, UpdatedTasks DEF NotAdded, updateTask, TypeOK
  <2>5. CASE ~h.fresh
    BY <2>5, Zenon DEF NotAdded, Marked
  <2>. QED
    BY <2>4, <2>5
<1>3. UNCHANGED <<rows, jobs, due, work, stranded>>
  BY DEF NotAdded, tables
<1>. HIDE DEF h
<1>4. Refs'
  BY <1>1, <1>2, <1>3 DEF TaskInv, Refs, Marked
<1>5. WorkIsJob'
  BY <1>2, <1>3 DEF TaskInv, WorkIsJob, Idle, Marked
<1>6. planned' \subseteq planned /\ OnePlanned'
  BY <1>2, MarkedPlanned DEF TaskInv, OnePlanned
<1>7. PlannedNext'
  BY <1>6, TailPlanned DEF TaskInv, NotAdded
<1>8. AutoTasks'
  <2>1. \A x \in DOMAIN tasks : tasks'[x] = Task("auto", "running") => tasks[x] = tasks'[x] \/ x = h.task
    BY <1>2 DEF Marked
  <2>2. \A x \in DOMAIN tasks : tasks'[x] = Task("auto", "running") => tasks[x] = tasks'[x]
    BY <1>2, <2>1, RunningStatus
  <2>3. \A x \in DOMAIN tasks' : tasks'[x] = Task("auto", "running") => \E j \in jobs : j.task = x /\ j.state # "delayed"
    BY <1>2, <2>2 DEF TaskInv, AutoTasks
  <2>4. \A j \in jobs : j.kind = "auto" => tasks'[j.task].kind = "auto"
    BY <1>2 DEF TaskInv, AutoTasks, Refs, Marked
  <2>5. \A k \in DOMAIN adds' : tasks'[adds'[k].task].kind = "auto"
    BY <1>1, <1>2 DEF TaskInv, AutoTasks, Refs, Marked
  <2>. QED
    BY <1>3, <2>3, <2>4, <2>5 DEF AutoTasks
<1>9. Owned'
  BY <1>1, <1>2, <1>3 DEF TaskInv, Owned, Marked
<1>. QED
  BY <1>4, <1>5, <1>6, <1>7, <1>8, <1>9 DEF TaskInv

\* An explicit request makes a task of its own, with a job or without.
LEMMA ExplicitKeeps ==
  ASSUME TypeOK, TaskInv, enqueueExplicit
  PROVE  TaskInv'
<1>. DEFINE t == Len(tasks) + 1
<1>1. /\ DOMAIN tasks' = DOMAIN tasks \cup {t} /\ t \notin DOMAIN tasks
      /\ \A k \in DOMAIN tasks : tasks'[k] = tasks[k]
      /\ tasks'[t] = Task("explicit", "planned")
  BY DEF TypeOK, enqueueExplicit
<1>2. UNCHANGED <<rows, due, adds, work>>
  BY DEF enqueueExplicit, tables
<1>3. \/ jobs' = jobs \cup {Job(t, "explicit")} /\ UNCHANGED stranded
      \/ stranded' = stranded \cup {t} /\ UNCHANGED jobs
  BY DEF enqueueExplicit
<1>. HIDE DEF t
<1>4. Refs'
  BY <1>1, <1>2, <1>3, JobFields DEF TaskInv, Refs
<1>5. WorkIsJob'
  BY <1>1, <1>2, <1>3, JobFields DEF TaskInv, WorkIsJob, Idle
<1>6. planned' \subseteq planned
  BY <1>1 DEF planned, Task
<1>7. OnePlanned' /\ PlannedNext'
  BY <1>2, <1>6 DEF TaskInv, OnePlanned, PlannedNext
<1>8. AutoTasks'
  <2>1. tasks'[t] # Task("auto", "running")
    BY <1>1 DEF Task
  <2>2. \A j \in jobs : j.kind = "auto" => j.task \in DOMAIN tasks
    BY DEF TaskInv, Refs
  <2>. QED
    BY <1>1, <1>2, <1>3, <2>1, <2>2, JobFields DEF TaskInv, AutoTasks, Refs
<1>9. Owned'
  BY <1>1, <1>2, <1>3, JobFields DEF TaskInv, Owned
<1>. QED
  BY <1>4, <1>5, <1>7, <1>8, <1>9 DEF TaskInv

\* A job of the night has no task.
LEMMA NightKeeps ==
  ASSUME TypeOK, TaskInv, Night
  PROVE  TaskInv'
<1>1. UNCHANGED <<rows, due, adds, work, tasks, stranded>>
  BY DEF Night, tables, history
<1>2. jobs' = jobs \cup {Job(NoTask, "nightly")}
  BY DEF Night
<1>3. Refs'
  BY <1>1, <1>2, JobFields DEF TaskInv, Refs
<1>4. WorkIsJob'
  BY <1>1, <1>2, JobFields DEF TaskInv, WorkIsJob, Idle
<1>5. OnePlanned' /\ PlannedNext'
  BY <1>1 DEF TaskInv, OnePlanned, PlannedNext, planned
<1>6. AutoTasks'
  BY <1>1, <1>2, JobFields DEF TaskInv, AutoTasks
<1>7. Owned'
  BY <1>1, <1>2 DEF TaskInv, Owned
<1>. QED
  BY <1>3, <1>4, <1>5, <1>6, <1>7 DEF TaskInv

\* A step after which task t is final, and no job but one of t is gone.
LEMMA EndsKeeps ==
  ASSUME TypeOK, TaskInv, NEW t, Marked(tasks', t),
         t \in DOMAIN tasks' => tasks'[t].status \in Terminal,
         NEW j \in jobs, j.kind = "nightly" \/ j.task = t,
         UNCHANGED <<rows, due, adds, stranded>>,
         \/ jobs' = jobs \ {j}
         \/ \E a : /\ a.task = j.task /\ a.kind = j.kind /\ a.state = "again"
                  /\ jobs' = (jobs \ {j}) \cup {a},
         \/ j = work.job /\ ~Idle /\ work.task = t
         \/ Idle,
         work' = NoWork
  PROVE  TaskInv'
<1>1. /\ DOMAIN tasks \subseteq DOMAIN tasks' /\ NoTask \notin DOMAIN tasks
      /\ \A k \in jobs : k.kind = "nightly" => k.task = NoTask
      /\ \A x \in DOMAIN tasks' \ DOMAIN tasks : x = t
      /\ \A x \in DOMAIN tasks : x # t => tasks'[x] = tasks[x]
  BY DEF TaskInv, Refs, Marked, TypeOK, NoTask
<1>2. Refs'
  BY <1>1 DEF TaskInv, Refs
<1>3. WorkIsJob'
  <2>1. ASSUME NEW k \in jobs', k.state = "taken" PROVE FALSE
    BY <2>1 DEF TaskInv, WorkIsJob
  <2>2. Idle'
    BY DEF Idle
  <2>. QED
    BY <2>1, <2>2 DEF WorkIsJob
<1>4. planned' \subseteq planned
  BY MarkedPlanned
<1>5. OnePlanned' /\ PlannedNext'
  BY <1>4 DEF TaskInv, OnePlanned, PlannedNext
<1>6. AutoTasks'
  <2>1. ASSUME NEW x \in DOMAIN tasks', tasks'[x] = Task("auto", "running")
        PROVE  \E k \in jobs' : k.task = x /\ k.state # "delayed"
    <3>1. x # t /\ x \in DOMAIN tasks /\ tasks[x] = Task("auto", "running")
      BY <1>1, <2>1, RunningStatus
    <3>2. PICK k \in jobs : k.task = x /\ k.state # "delayed"
      BY <3>1 DEF TaskInv, AutoTasks
    <3>3. k # j
      BY <1>1, <3>1, <3>2
    <3>. QED
      BY <3>2, <3>3
  <2>2. \A k \in jobs' : k.kind = "auto" => tasks'[k.task].kind = "auto"
    BY DEF TaskInv, AutoTasks, Refs, Marked
  <2>3. \A k \in DOMAIN adds' : tasks'[adds'[k].task].kind = "auto"
    BY DEF TaskInv, AutoTasks, Refs, Marked
  <2>. QED
    BY <2>1, <2>2, <2>3 DEF AutoTasks
<1>7. Owned'
  <2>. SUFFICES ASSUME NEW x \in DOMAIN tasks', x # t, tasks'[x].status \notin Terminal, x \notin stranded
                PROVE  \/ \E k \in jobs' : k.task = x
                       \/ \E k \in DOMAIN adds' : adds'[k].task = x /\ adds'[k].fresh
    BY DEF Owned
  <2>1. x \in DOMAIN tasks /\ tasks[x].status \notin Terminal
    BY <1>1
  <2>2. CASE \E k \in jobs : k.task = x
    BY <1>1, <2>1, <2>2
  <2>3. CASE \E k \in DOMAIN adds : adds[k].task = x /\ adds[k].fresh
    BY <2>3
  <2>4. work.task # x
    BY <1>1, <2>1, JobFields DEF Idle
  <2>. QED
    BY <2>1, <2>2, <2>3, <2>4 DEF TaskInv, Owned
<1>. QED
  BY <1>2, <1>3, <1>5, <1>6, <1>7 DEF TaskInv

\* Marking the same task again.
LEMMA MarkedTwice ==
  ASSUME NEW table \in Seq(TaskRows), NEW t, Marked(table, t), NEW u \in Statuses, u # "planned"
  PROVE  /\ Marked(updated(table, t, u), t)
         /\ t \in DOMAIN updated(table, t, u) /\ u \in Terminal => updated(table, t, u)[t].status \in Terminal
<1>. DEFINE new == updated(table, t, u)
<1>1. /\ DOMAIN new = DOMAIN table
      /\ \A x \in DOMAIN table : new[x] = IF x = t /\ table[x].status \notin Terminal THEN Task(table[x].kind, u) ELSE table[x]
  BY UpdatedTasks
<1>2. \A k, v : Task(k, v).kind = k /\ Task(k, v).status = v
  BY DEF Task
<1>. HIDE DEF new
<1>3. \A x \in DOMAIN table : new[x].kind = table[x].kind
  BY <1>1, <1>2
<1>4. \A x \in DOMAIN table : new[x] = Task("auto", "planned") => new[x] = table[x]
  BY <1>1, <1>2
<1>5. Marked(new, t)
  BY <1>1, <1>3, <1>4 DEF Marked
<1>6. t \in DOMAIN new /\ u \in Terminal => new[t].status \in Terminal
  BY <1>1, <1>2
<1>. QED
  BY <1>5, <1>6 DEF new

\* Starting a job marks the task of the job.
LEMMA RunningMarked ==
  ASSUME TypeOK, NEW j
  PROVE  Marked(Running(j), TaskOf(j))
<1>1. CASE j.kind = "nightly"
  <2>1. /\ DOMAIN Running(j) = DOMAIN tasks \cup {Len(tasks) + 1}
        /\ \A x \in DOMAIN tasks : Running(j)[x] = tasks[x]
        /\ Running(j)[Len(tasks) + 1] = Task("nightly", "running") /\ TaskOf(j) = Len(tasks) + 1
    BY <1>1, AppendSeq, TaskRow, StatusNames DEF Running, TaskOf, TypeOK
  <2>2. Running(j)[Len(tasks) + 1].kind = "nightly"
    BY <2>1 DEF Task
  <2>. QED
    BY <2>1, <2>2 DEF Marked
<1>2. CASE j.kind # "nightly"
  BY <1>2, MarkedTasks, StatusNames DEF Running, TaskOf
<1>. QED
  BY <1>1, <1>2

\* A job that is dropped ends its task.
LEMMA NotRunKeeps ==
  ASSUME TypeOK, TaskInv, NEW j \in jobs, NotRun(j)
  PROVE  TaskInv'
<1>1. PICK status \in {"cancelled", "completed"} : tasks' = updated(tasks, j.task, status)
  BY DEF NotRun, updateTask
<1>2. status \in Statuses /\ status # "planned" /\ status \in Terminal
  BY DEF Statuses, Terminal
<1>3. Marked(tasks', j.task) /\ DOMAIN tasks' = DOMAIN tasks
  BY <1>1, <1>2, MarkedTasks, UpdatedTasks DEF TypeOK
<1>4. j.task \in DOMAIN tasks' => tasks'[j.task].status \in Terminal
  BY <1>1, <1>2, <1>3, MarkedTasks
<1>5. UNCHANGED <<rows, due, adds, stranded, work>> /\ jobs' = jobs \ {j} /\ Idle
  BY DEF NotRun, tables, Startable
<1>6. work' = NoWork
  BY <1>5 DEF Idle
<1>. QED
  BY <1>3, <1>4, <1>5, <1>6, EndsKeeps

\* A job that fails ends its task, and is handed back or dropped.
LEMMA FailJobKeeps ==
  ASSUME TypeOK, TaskInv, NEW j \in jobs, NEW taken \in JobRows, taken.task = j.task, taken.kind = j.kind,
         NEW t, NEW table \in Seq(TaskRows), Marked(table, t), j.kind = "nightly" \/ j.task = t,
         FailJob(j, taken, table, t),
         (j = work.job /\ ~Idle /\ work.task = t) \/ Idle
  PROVE  TaskInv'
<1>1. "failed" \in Statuses /\ "failed" # "planned" /\ "failed" \in Terminal
  BY DEF Statuses, Terminal
<1>2. tasks' = updated(table, t, "failed") /\ UNCHANGED <<rows, due, adds, stranded>> /\ work' = NoWork
  BY DEF FailJob, tables
<1>3. Marked(tasks', t) /\ (t \in DOMAIN tasks' => tasks'[t].status \in Terminal)
  BY <1>1, <1>2, MarkedTwice
<1>4. \/ jobs' = jobs \ {j}
      \/ \E a : /\ a.task = j.task /\ a.kind = j.kind /\ a.state = "again"
               /\ jobs' = (jobs \ {j}) \cup {a}
  BY JobFields DEF FailJob
<1>. QED
  BY <1>2, <1>3, <1>4, EndsKeeps

\* A job that could not read its batch ends its task.
LEMMA LoadFailsKeeps ==
  ASSUME TypeOK, TaskInv, NEW j \in jobs, LoadFails(j)
  PROVE  TaskInv'
<1>1. /\ Taken(j) \in JobRows /\ Taken(j).task = j.task /\ Taken(j).kind = j.kind
      /\ Running(j) \in Seq(TaskRows) /\ Marked(Running(j), TaskOf(j))
  BY JobFields, JobRow, RunningType, RunningMarked DEF TypeOK
<1>2. j.kind = "nightly" \/ j.task = TaskOf(j)
  BY DEF TaskOf
<1>3. FailJob(j, Taken(j), Running(j), TaskOf(j)) /\ Idle
  BY DEF LoadFails, Startable
<1>. QED
  BY <1>1, <1>2, <1>3, FailJobKeeps

\* A table is marked where nothing was set.
LEMMA UnmarkedTable ==
  ASSUME NEW t
  PROVE  Marked(tasks, t)
  BY Zenon DEF Marked

\* A job that fails at its end ends its task.
LEMMA FailKeeps ==
  ASSUME TypeOK, TaskInv, Fail
  PROVE  TaskInv'
<1>1. FailJob(work.job, work.job, tasks, work.task) /\ ~Idle
  BY DEF Fail, Done
<1>2. /\ work.job \in jobs /\ work.job \in JobRows
      /\ work.job.kind = "nightly" \/ work.job.task = work.task
  BY <1>1 DEF TaskInv, WorkIsJob, TypeOK
<1>3. tasks \in Seq(TaskRows) /\ Marked(tasks, work.task)
  BY UnmarkedTable DEF TypeOK
<1>. QED
  BY <1>1, <1>2, <1>3, FailJobKeeps

\* A job that is done ends its task.
LEMMA CompleteKeeps ==
  ASSUME TypeOK, TaskInv, Complete
  PROVE  TaskInv'
<1>1. /\ ~Idle /\ tasks' = updated(tasks, work.task, "completed") /\ jobs' = jobs \ {work.job} /\ work' = NoWork
      /\ UNCHANGED <<rows, due, adds, stranded>>
  BY DEF Complete, Done, updateTask, history
<1>2. work.job \in jobs /\ (work.job.kind = "nightly" \/ work.job.task = work.task)
  BY <1>1 DEF TaskInv, WorkIsJob
<1>3. "completed" \in Statuses /\ "completed" # "planned" /\ "completed" \in Terminal
  BY DEF Statuses, Terminal
<1>4. Marked(tasks', work.task) /\ DOMAIN tasks' = DOMAIN tasks
  BY <1>1, <1>3, MarkedTasks, UpdatedTasks DEF TypeOK
<1>5. work.task \in DOMAIN tasks' => tasks'[work.task].status \in Terminal
  BY <1>1, <1>3, <1>4, MarkedTasks
<1>. QED
  BY <1>1, <1>2, <1>4, <1>5, EndsKeeps

\* A job that is started runs its task, or makes one and runs it.
LEMMA StartJobKeeps ==
  ASSUME TypeOK, TaskInv, NEW j \in jobs, startJob(j)
  PROVE  TaskInv'
<1>. DEFINE t == TaskOf(j)
            a == Taken(j)
<1>1. /\ j \in JobRows /\ a.task = j.task /\ a.kind = j.kind /\ a.state = "taken"
  BY JobFields DEF TypeOK
<1>2. /\ Marked(tasks', t) /\ t \in DOMAIN tasks'
      /\ j.kind = "nightly" \/ j.task = t
  <2>1. tasks' = Running(j)
    BY DEF startJob
  <2>2. CASE j.kind = "nightly"
    BY <2>1, <2>2, RunningMarked DEF Running, TaskOf, TypeOK
  <2>3. CASE j.kind # "nightly"
    <3>1. j.task \in DOMAIN tasks /\ t = j.task
      BY <2>3 DEF TaskInv, Refs, TaskOf
    <3>. QED
      BY <2>1, <3>1, RunningMarked DEF Marked
  <2>. QED
    BY <2>2, <2>3
<1>3. /\ Idle /\ jobs' = (jobs \ {j}) \cup {a} /\ work'.job = a /\ work'.task = t
      /\ j.kind = "explicit" => work'.left = {}
      /\ UNCHANGED <<rows, due, adds, stranded>>
  <2>1. j.kind = "explicit" => work'.left = {}
    BY DEF startJob, NoWork
  <2>. QED
    BY <2>1, Zenon DEF startJob, NoWork, Startable, tables
<1>. HIDE DEF t, a
<1>4. /\ DOMAIN tasks \subseteq DOMAIN tasks' /\ NoTask \notin DOMAIN tasks
      /\ \A k \in jobs : k.kind = "nightly" => k.task = NoTask
      /\ \A x \in DOMAIN tasks' \ DOMAIN tasks : x = t /\ tasks'[x].kind = "nightly"
      /\ \A x \in DOMAIN tasks : x # t => tasks'[x] = tasks[x]
  BY <1>2 DEF TaskInv, Refs, Marked, TypeOK, NoTask
<1>5. Refs'
  BY <1>1, <1>3, <1>4 DEF TaskInv, Refs
<1>6. WorkIsJob'
  <2>1. ~Idle'
    BY <1>1, <1>3, JobFields DEF Idle
  <2>. QED
    BY <1>1, <1>2, <1>3, <2>1 DEF TaskInv, WorkIsJob
<1>7. planned' \subseteq planned
  BY <1>2, MarkedPlanned
<1>8. OnePlanned' /\ PlannedNext'
  BY <1>3, <1>7 DEF TaskInv, OnePlanned, PlannedNext
<1>9. AutoTasks'
  <2>1. ASSUME NEW x \in DOMAIN tasks', tasks'[x] = Task("auto", "running")
        PROVE  \E k \in jobs' : k.task = x /\ k.state # "delayed"
    <3>1. x \in DOMAIN tasks
      BY <1>4, <2>1, RunningStatus
    <3>2. CASE x = j.task
      BY <1>1, <1>3, <3>2
    <3>3. CASE x # j.task
      <4>1. x # t
        BY <1>2, <1>4, <3>1, <3>3 DEF t, TaskOf
      <4>2. PICK k \in jobs : k.task = x /\ k.state # "delayed"
        BY <1>4, <2>1, <3>1, <4>1 DEF TaskInv, AutoTasks
      <4>. QED
        BY <1>3, <3>3, <4>2
    <3>. QED
      BY <3>2, <3>3
  <2>2. \A k \in jobs' : k.kind = "auto" => tasks'[k.task].kind = "auto"
    BY <1>1, <1>2, <1>3 DEF TaskInv, AutoTasks, Refs, Marked
  <2>3. \A k \in DOMAIN adds' : tasks'[adds'[k].task].kind = "auto"
    BY <1>2, <1>3 DEF TaskInv, AutoTasks, Refs, Marked
  <2>. QED
    BY <2>1, <2>2, <2>3 DEF AutoTasks
<1>10. Owned'
  <2>. SUFFICES ASSUME NEW x \in DOMAIN tasks', x # t, tasks'[x].status \notin Terminal, x \notin stranded
                PROVE  \/ \E k \in jobs' : k.task = x
                       \/ \E k \in DOMAIN adds' : adds'[k].task = x /\ adds'[k].fresh
    BY <1>3 DEF Owned
  <2>1. x \in DOMAIN tasks /\ tasks[x].status \notin Terminal
    BY <1>4
  <2>2. work.task # x
    BY <1>3, <1>4, <2>1, JobFields DEF Idle
  <2>3. CASE \E k \in jobs : k.task = x
    BY <1>1, <1>3, <2>3
  <2>4. CASE \E k \in DOMAIN adds : adds[k].task = x /\ adds[k].fresh
    BY <1>3, <2>4
  <2>. QED
    BY <1>3, <2>1, <2>2, <2>3, <2>4 DEF TaskInv, Owned
<1>. QED
  BY <1>5, <1>6, <1>8, <1>9, <1>10 DEF TaskInv

\* A task that is cancelled is at its end; its job stays.
LEMMA CancelKeeps ==
  ASSUME TypeOK, TaskInv, NEW t \in DOMAIN tasks, cancelTask(t)
  PROVE  TaskInv'
<1>1. "cancelled" \in Statuses /\ "cancelled" # "planned" /\ "cancelled" \in Terminal
  BY DEF Statuses, Terminal
<1>2. tasks' = updated(tasks, t, "cancelled") /\ UNCHANGED <<rows, due, adds, stranded, jobs, work>>
  BY DEF cancelTask, updateTask, tables, history
<1>3. Marked(tasks', t) /\ tasks'[t].status \in Terminal /\ DOMAIN tasks' = DOMAIN tasks
  BY <1>1, <1>2, MarkedTasks, UpdatedTasks DEF TypeOK
<1>4. Refs'
  BY <1>2, <1>3 DEF TaskInv, Refs
<1>5. WorkIsJob'
  BY <1>2, <1>3 DEF TaskInv, WorkIsJob, Idle
<1>6. planned' \subseteq planned
  BY <1>3, MarkedPlanned
<1>7. OnePlanned' /\ PlannedNext'
  BY <1>2, <1>6 DEF TaskInv, OnePlanned, PlannedNext
<1>8. AutoTasks'
  <2>1. \A x \in DOMAIN tasks' : tasks'[x] = Task("auto", "running") => tasks[x] = tasks'[x]
    BY <1>3, RunningStatus DEF Marked
  <2>2. \A x \in DOMAIN tasks' : tasks'[x] = Task("auto", "running") => \E j \in jobs : j.task = x /\ j.state # "delayed"
    BY <1>3, <2>1 DEF TaskInv, AutoTasks
  <2>3. \A j \in jobs : j.kind = "auto" => tasks'[j.task].kind = "auto"
    BY <1>3 DEF TaskInv, AutoTasks, Refs, Marked
  <2>4. \A k \in DOMAIN adds : tasks'[adds[k].task].kind = "auto"
    BY <1>3 DEF TaskInv, AutoTasks, Refs, Marked
  <2>. QED
    BY <1>2, <2>2, <2>3, <2>4 DEF AutoTasks
<1>9. Owned'
  BY <1>2, <1>3 DEF TaskInv, Owned, Marked
<1>. QED
  BY <1>4, <1>5, <1>7, <1>8, <1>9 DEF TaskInv

\* When the process dies, its adds and the task of the night are left behind, and the job
\* that was taken is handed back.
LEMMA ExitKeeps ==
  ASSUME TypeOK, TaskInv, Exit
  PROVE  TaskInv'
<1>1. /\ UNCHANGED <<rows, tasks>> /\ due' = {} /\ adds' = <<>> /\ work' = NoWork
      /\ {a.task : a \in Range(adds)} \subseteq stranded' \cup {j.task : j \in jobs}
      /\ stranded \subseteq stranded'
      /\ work.job.kind = "nightly" => work.task \in stranded'
  BY DEF Exit, tables
<1>2. /\ \A j \in jobs' : \E k \in jobs : j.task = k.task /\ j.kind = k.kind /\ j.state # "taken"
      /\ \A k \in jobs : \E j \in jobs' : j.task = k.task /\ (k.state # "delayed" => j.state # "delayed")
  <2>1. jobs' = {IF j.state = "taken" THEN Again(j) ELSE j : j \in jobs} /\ jobs \subseteq JobRows
    BY DEF Exit, TypeOK
  <2>. QED
    BY <2>1, JobFields
<1>3. DOMAIN adds' = {}
  BY <1>1
<1>4. Refs'
  BY <1>1, <1>2, <1>3 DEF TaskInv, Refs
<1>5. WorkIsJob'
  BY <1>1, <1>2 DEF WorkIsJob, Idle
<1>6. OnePlanned' /\ PlannedNext'
  BY <1>1, <1>3 DEF TaskInv, OnePlanned, PlannedNext, planned
<1>7. AutoTasks'
  BY <1>1, <1>2, <1>3 DEF TaskInv, AutoTasks
<1>8. Owned'
  <2>. SUFFICES ASSUME NEW x \in DOMAIN tasks, tasks[x].status \notin Terminal, x \notin stranded'
                PROVE  \E k \in jobs' : k.task = x
    BY <1>1 DEF Owned
  <2>1. CASE \E j \in jobs : j.task = x
    BY <1>2, <2>1
  <2>2. CASE \E k \in DOMAIN adds : adds[k].task = x /\ adds[k].fresh
    <3>1. x \in {a.task : a \in Range(adds)}
      BY <2>2 DEF Range
    <3>. QED
      BY <1>1, <1>2, <3>1
  <2>3. CASE work.task = x
    <3>1. ~Idle
      BY <2>3, JobFields DEF Idle, NoTask, TypeOK
    <3>2. work.job.kind # "nightly"
      BY <1>1, <2>3
    <3>. QED
      BY <1>2, <2>3, <3>1, <3>2 DEF TaskInv, WorkIsJob
  <2>. QED
    BY <1>1, <2>1, <2>2, <2>3 DEF TaskInv, Owned
<1>. QED
  BY <1>4, <1>5, <1>6, <1>7, <1>8 DEF TaskInv

\* Every step keeps what ties tasks, adds and jobs together.
LEMMA TaskStep ==
  ASSUME TypeOK, TaskInv, [Next]_vars
  PROVE  TaskInv'
<1>1. ASSUME NEW s \in Sessions \cup {Sub}, TurnEnds(s) PROVE TaskInv'
  <2>1. UNCHANGED <<tasks, jobs, adds, stranded>> /\ work' = work
    BY <1>1 DEF TurnEnds, tables, history
  <2>2. DOMAIN rows \subseteq DOMAIN rows' /\ due' \subseteq due \cup DOMAIN rows'
    BY <1>1, AppendSeq DEF TurnEnds, TypeOK
  <2>. QED
    BY <2>1, <2>2, OthersKeep
<1>2. ASSUME NEW s \in Sessions, TurnLost(s) PROVE TaskInv'
  <2>1. UNCHANGED <<tasks, jobs, adds, stranded>> /\ work' = work
    BY <1>2 DEF TurnLost, tables, history
  <2>2. DOMAIN rows \subseteq DOMAIN rows' /\ due' \subseteq due \cup DOMAIN rows'
    BY <1>2, AppendSeq DEF TurnLost, TypeOK
  <2>. QED
    BY <2>1, <2>2, OthersKeep
<1>3. ASSUME NEW i \in due, enqueueAuto(i) PROVE TaskInv'
  BY <1>3, EnqueueAutoKeeps
<1>4. ASSUME Added PROVE TaskInv'
  BY <1>4, AddedKeeps
<1>5. ASSUME Duplicate PROVE TaskInv'
  BY <1>5, NotAddedKeeps DEF Duplicate, Terminal
<1>6. ASSUME AddFails PROVE TaskInv'
  BY <1>6, NotAddedKeeps DEF AddFails, Terminal
<1>7. ASSUME enqueueExplicit PROVE TaskInv'
  BY <1>7, ExplicitKeeps
<1>8. ASSUME Night PROVE TaskInv'
  BY <1>8, NightKeeps
<1>9. ASSUME NEW j \in jobs, startJob(j) PROVE TaskInv'
  BY <1>9, StartJobKeeps
<1>10. ASSUME NEW j \in jobs, NotRun(j) PROVE TaskInv'
  BY <1>10, NotRunKeeps
<1>11. ASSUME NEW j \in jobs, LoadFails(j) PROVE TaskInv'
  BY <1>11, LoadFailsKeeps
<1>12. ASSUME NEW found \in SUBSET Ideas, inspect(found) PROVE TaskInv'
  <2>1. UNCHANGED <<rows, tasks, jobs, due, adds, stranded>>
    BY <1>12 DEF inspect, tables, history
  <2>2. ~Idle /\ work'.job = work.job /\ work'.task = work.task /\ work'.left \subseteq work.left
    BY <1>12, SegmentFields DEF inspect
  <2>. QED
    BY <2>1, <2>2, OthersKeep
<1>13. ASSUME NEW i \in Ideas, Noted(i) PROVE TaskInv'
  <2>1. UNCHANGED <<rows, tasks, jobs, due, adds, stranded>>
    BY <1>13 DEF Noted, tables, history
  <2>2. ~Idle /\ work'.job = work.job /\ work'.task = work.task /\ work'.left \subseteq work.left
    BY <1>13 DEF Noted, NoWork, Idle, TypeOK, WorkRows
  <2>. QED
    BY <2>1, <2>2, OthersKeep
<1>14. ASSUME NEW i \in Ideas, suggest(i) PROVE TaskInv'
  <2>1. UNCHANGED <<tasks, jobs, adds, stranded>> /\ ~Idle /\ work'.job = work.job /\ work'.task = work.task /\ work'.left = work.left
    BY <1>14 DEF suggest, NoWork, Idle, TypeOK, WorkRows, tables, history
  <2>2. DOMAIN rows \subseteq DOMAIN rows' /\ due' \subseteq due \cup DOMAIN rows'
    BY <1>14, AppendSeq DEF suggest, TypeOK
  <2>. QED
    BY <2>1, <2>2, OthersKeep
<1>15. ASSUME markSuggested PROVE TaskInv'
  <2>1. UNCHANGED <<rows, tasks, jobs, due, adds, stranded>>
    BY <1>15 DEF markSuggested, tables, history
  <2>2. ~Idle /\ work'.job = work.job /\ work'.task = work.task /\ work'.left \subseteq work.left
    BY <1>15 DEF markSuggested, NoWork, Idle, TypeOK, WorkRows
  <2>. QED
    BY <2>1, <2>2, OthersKeep
<1>16. ASSUME PostFails PROVE TaskInv'
  <2>1. UNCHANGED <<rows, tasks, jobs, due, adds, stranded>>
    BY <1>16 DEF PostFails, tables, history
  <2>2. ~Idle /\ work'.job = work.job /\ work'.task = work.task /\ work'.left \subseteq work.left
    BY <1>16 DEF PostFails, NoWork, Idle, TypeOK, WorkRows
  <2>. QED
    BY <2>1, <2>2, OthersKeep
<1>17. ASSUME Complete PROVE TaskInv'
  BY <1>17, CompleteKeeps
<1>18. ASSUME Fail PROVE TaskInv'
  BY <1>18, FailKeeps
<1>19. ASSUME NEW i \in Ideas, Save(i) PROVE TaskInv'
  <2>1. UNCHANGED <<rows, tasks, jobs, due, adds, work, stranded>>
    BY <1>19 DEF Save, tables, history
  <2>. QED
    BY <2>1, OthersKeep
<1>20. ASSUME NEW i \in Ideas, markAccepted(i) PROVE TaskInv'
  <2>1. UNCHANGED <<rows, tasks, jobs, due, adds, work, stranded>>
    BY <1>20 DEF markAccepted, Drafted, tables, history
  <2>. QED
    BY <2>1, OthersKeep
<1>21. ASSUME NEW i \in Ideas, DraftFails(i) PROVE TaskInv'
  <2>1. UNCHANGED <<rows, tasks, jobs, due, adds, work, stranded>>
    BY <1>21 DEF DraftFails, Drafted, tables, history
  <2>. QED
    BY <2>1, OthersKeep
<1>22. ASSUME NEW i \in Ideas, markDismissed(i) PROVE TaskInv'
  <2>1. UNCHANGED <<rows, tasks, jobs, due, adds, work, stranded>>
    BY <1>22 DEF markDismissed, tables, history
  <2>. QED
    BY <2>1, OthersKeep
<1>23. ASSUME NEW t \in DOMAIN tasks, cancelTask(t) PROVE TaskInv'
  BY <1>23, CancelKeeps
<1>24. ASSUME NEW s \in Sessions, DeleteSession(s) PROVE TaskInv'
  <2>1. UNCHANGED <<rows, tasks, jobs, due, adds, work, stranded>>
    BY <1>24 DEF DeleteSession, tables, history
  <2>. QED
    BY <2>1, OthersKeep
<1>25. ASSUME Exit PROVE TaskInv'
  BY <1>25, ExitKeeps
<1>27. ASSUME InspectFails PROVE TaskInv'
  <2>1. UNCHANGED <<rows, tasks, jobs, due, adds, stranded>>
    BY <1>27 DEF InspectFails, tables
  <2>2. ~Idle /\ work'.job = work.job /\ work'.task = work.task /\ work'.left \subseteq work.left
    BY <1>27, SegmentFields DEF InspectFails
  <2>. QED
    BY <2>1, <2>2, OthersKeep
<1>26. ASSUME UNCHANGED vars PROVE TaskInv'
  <2>1. UNCHANGED <<rows, tasks, jobs, due, adds, work, stranded>>
    BY <1>26 DEF vars, tables, history
  <2>. QED
    BY <2>1, OthersKeep
<1>. QED
  BY <1>1, <1>2, <1>3, <1>4, <1>5, <1>6, <1>7, <1>8, <1>9, <1>10, <1>11, <1>12, <1>13, <1>14, <1>15, <1>16, <1>17, <1>18, <1>19, <1>20, <1>21, <1>22, <1>23, <1>24, <1>25, <1>26, <1>27 DEF Next

\* At the start there is nothing.
LEMMA TaskInit ==
  ASSUME Init
  PROVE  TypeOK /\ TaskInv
<1>1. /\ rows = <<>> /\ tasks = <<>> /\ adds = <<>> /\ jobs = {} /\ due = {} /\ work = NoWork
      /\ DOMAIN tasks = {} /\ DOMAIN adds = {}
  BY DEF Init
<1>2. TypeOK
  BY <1>1, JobRow DEF Init, TypeOK
<1>3. Refs /\ WorkIsJob /\ OnePlanned /\ PlannedNext /\ AutoTasks /\ Owned
  BY <1>1 DEF Refs, WorkIsJob, Idle, OnePlanned, PlannedNext, AutoTasks, Owned, planned
<1>. QED
  BY <1>2, <1>3 DEF TaskInv

\* Every variable keeps its type: rows of tasks, jobs, adds and of the work at hand.
THEOREM TasksTyped == Spec => []TypeOK
<1>1. Init => TypeOK
  BY TaskInit
<1>2. TypeOK /\ [Next]_vars => TypeOK'
  BY TypeStep
<1>. QED
  BY <1>1, <1>2, PTL DEF Spec

\* However turns, adds, replaced and repeated jobs, cancellations and exits interleave, a
\* task that is shown as planned or running has a job or an add on its way, unless the
\* process died over it or the add of an explicit request failed (createOrReusePlanned,
\* enqueueAuto, process).
THEOREM NoTaskIsOrphaned == Spec => []NoOrphanTask
<1>1. Init => TypeOK /\ TaskInv
  BY TaskInit
<1>2. TypeOK /\ TaskInv /\ [Next]_vars => (TypeOK /\ TaskInv)'
  BY TypeStep, TaskStep
<1>3. TaskInv => NoOrphanTask
  BY DEF TaskInv, Owned, NoOrphanTask, Range
<1>. QED
  BY <1>1, <1>2, <1>3, PTL DEF Spec

-----------------------------------------------------------------------------
\* Steps that leave the count of the posts alone.
LEMMA OthersKeepPosts ==
  ASSUME TypeOK, PostsCounted, UNCHANGED <<posts, unmarked>>, work'.posting = work.posting,
         \A i \in Ideas : ideas[i] \in {"none", "developing"} <=> ideas'[i] \in {"none", "developing"},
         \A i \in Ideas : ideas[i] = "developing" => ideas'[i] = "developing"
  PROVE  PostsCounted'
  BY DEF PostsCounted, TypeOK, WorkRows

\* Every step keeps the count of the posts.
LEMMA PostStep ==
  ASSUME TypeOK, PostsCounted, [Next]_vars
  PROVE  PostsCounted'
<1>1. ASSUME NEW s \in Sessions \cup {Sub}, TurnEnds(s) PROVE PostsCounted'
  <2>1. UNCHANGED <<posts, unmarked, ideas>> /\ work'.posting = work.posting
    BY <1>1, JobFields DEF TurnEnds, tables, history
  <2>. QED
    BY <2>1, OthersKeepPosts
<1>2. ASSUME NEW s \in Sessions, TurnLost(s) PROVE PostsCounted'
  <2>1. UNCHANGED <<posts, unmarked, ideas>> /\ work'.posting = work.posting
    BY <1>2, JobFields DEF TurnLost, tables, history
  <2>. QED
    BY <2>1, OthersKeepPosts
<1>3. ASSUME NEW i \in due, enqueueAuto(i) PROVE PostsCounted'
  <2>1. UNCHANGED <<posts, unmarked, ideas>> /\ work'.posting = work.posting
    BY <1>3, JobFields DEF enqueueAuto, tables, history
  <2>. QED
    BY <2>1, OthersKeepPosts
<1>4. ASSUME Added PROVE PostsCounted'
  <2>1. UNCHANGED <<posts, unmarked, ideas>> /\ work'.posting = work.posting
    BY <1>4, JobFields DEF Added, tables, history
  <2>. QED
    BY <2>1, OthersKeepPosts
<1>5. ASSUME Duplicate PROVE PostsCounted'
  <2>1. UNCHANGED <<posts, unmarked, ideas>> /\ work'.posting = work.posting
    BY <1>5, JobFields DEF Duplicate, NotAdded, tables, history
  <2>. QED
    BY <2>1, OthersKeepPosts
<1>6. ASSUME AddFails PROVE PostsCounted'
  <2>1. UNCHANGED <<posts, unmarked, ideas>> /\ work'.posting = work.posting
    BY <1>6, JobFields DEF AddFails, NotAdded, tables, history
  <2>. QED
    BY <2>1, OthersKeepPosts
<1>7. ASSUME enqueueExplicit PROVE PostsCounted'
  <2>1. UNCHANGED <<posts, unmarked, ideas>> /\ work'.posting = work.posting
    BY <1>7, JobFields DEF enqueueExplicit, tables, history
  <2>. QED
    BY <2>1, OthersKeepPosts
<1>8. ASSUME Night PROVE PostsCounted'
  <2>1. UNCHANGED <<posts, unmarked, ideas>> /\ work'.posting = work.posting
    BY <1>8, JobFields DEF Night, tables, history
  <2>. QED
    BY <2>1, OthersKeepPosts
<1>9. ASSUME NEW j \in jobs, startJob(j) PROVE PostsCounted'
  <2>1. UNCHANGED <<posts, unmarked, ideas>> /\ work'.posting = work.posting
    BY <1>9, JobFields DEF startJob, Startable, Idle, NoWork, tables, history
  <2>. QED
    BY <2>1, OthersKeepPosts
<1>10. ASSUME NEW j \in jobs, NotRun(j) PROVE PostsCounted'
  <2>1. UNCHANGED <<posts, unmarked, ideas>> /\ work'.posting = work.posting
    BY <1>10, JobFields DEF NotRun, tables, history
  <2>. QED
    BY <2>1, OthersKeepPosts
<1>11. ASSUME NEW j \in jobs, LoadFails(j) PROVE PostsCounted'
  <2>1. UNCHANGED <<posts, unmarked, ideas>> /\ work'.posting = work.posting
    BY <1>11, JobFields DEF LoadFails, Startable, Idle, FailJob, tables, history
  <2>. QED
    BY <2>1, OthersKeepPosts
<1>12. ASSUME NEW found \in SUBSET Ideas, inspect(found) PROVE PostsCounted'
  <2>1. UNCHANGED <<posts, unmarked, ideas>> /\ work'.posting = work.posting
    BY <1>12, SegmentFields DEF inspect, tables
  <2>. QED
    BY <2>1, OthersKeepPosts
<1>13. ASSUME NEW i \in Ideas, Noted(i) PROVE PostsCounted'
  <2>1. UNCHANGED <<posts, unmarked>> /\ work'.posting = work.posting
    BY <1>13 DEF Noted, upsertCandidate, TypeOK, WorkRows, tables, history
  <2>2. \A x \in Ideas : ideas[x] \in {"none", "developing"} <=> ideas'[x] \in {"none", "developing"}
    BY <1>13 DEF Noted, upsertCandidate, TypeOK, WorkRows
  <2>3. \A x \in Ideas : ideas[x] = "developing" => ideas'[x] = "developing"
    BY <1>13 DEF Noted, upsertCandidate, TypeOK, WorkRows
  <2>. QED
    BY <2>1, <2>2, <2>3, OthersKeepPosts
<1>14. ASSUME NEW i \in Ideas, suggest(i) PROVE PostsCounted'
  <2>1. ideas[i] \in {"none", "developing"} /\ ideas' = [ideas EXCEPT ![i] = "developing"]
    BY <1>14 DEF suggest, Suggestible, upsertCandidate, TypeOK
  <2>2. work.posting = None /\ work'.posting = i /\ posts' = [posts EXCEPT ![i] = @ + 1] /\ unmarked' = unmarked
    BY <1>14 DEF suggest, TypeOK, WorkRows
  <2>3. \A x \in Ideas : posts[x] \in Nat /\ unmarked[x] \in Nat /\ x # None
    BY BackgroundAssumption DEF TypeOK
  <2>. QED
    BY <2>1, <2>2, <2>3 DEF PostsCounted, TypeOK
<1>15. ASSUME markSuggested PROVE PostsCounted'
  <2>. DEFINE i == work.posting
  <2>1. i \in Ideas /\ ideas[i] = "developing"
    BY <1>15 DEF markSuggested, PostsCounted, TypeOK, WorkRows
  <2>2. ideas' = [ideas EXCEPT ![i] = "suggested"] /\ UNCHANGED <<posts, unmarked>>
    BY <1>15, <2>1 DEF markSuggested, history, TypeOK
  <2>3. work'.posting = None
    BY <1>15 DEF markSuggested, TypeOK, WorkRows
  <2>4. \A x \in Ideas : posts[x] \in Nat /\ unmarked[x] \in Nat /\ x # None
    BY BackgroundAssumption DEF TypeOK
  <2>. QED
    BY <2>1, <2>2, <2>3, <2>4 DEF PostsCounted, TypeOK
<1>16. ASSUME PostFails PROVE PostsCounted'
  <2>. DEFINE i == work.posting
  <2>1. i \in Ideas /\ ideas[i] = "developing"
    BY <1>16 DEF PostFails, PostsCounted, TypeOK, WorkRows
  <2>2. unmarked' = [unmarked EXCEPT ![i] = @ + 1] /\ UNCHANGED <<posts, ideas>>
    BY <1>16 DEF PostFails, tables
  <2>3. work'.posting = None
    BY <1>16 DEF PostFails, TypeOK, WorkRows
  <2>4. \A x \in Ideas : posts[x] \in Nat /\ unmarked[x] \in Nat /\ x # None
    BY BackgroundAssumption DEF TypeOK
  <2>. QED
    BY <2>1, <2>2, <2>3, <2>4 DEF PostsCounted, TypeOK
<1>17. ASSUME Complete PROVE PostsCounted'
  <2>1. UNCHANGED <<posts, unmarked, ideas>> /\ work'.posting = work.posting
    BY <1>17, JobFields DEF Complete, Done, tables, history
  <2>. QED
    BY <2>1, OthersKeepPosts
<1>18. ASSUME Fail PROVE PostsCounted'
  <2>1. UNCHANGED <<posts, unmarked, ideas>> /\ work'.posting = work.posting
    BY <1>18, JobFields DEF Fail, Done, FailJob, tables, history
  <2>. QED
    BY <2>1, OthersKeepPosts
<1>19. ASSUME NEW i \in Ideas, Save(i) PROVE PostsCounted'
  <2>1. UNCHANGED <<posts, unmarked, ideas>> /\ work'.posting = work.posting
    BY <1>19, JobFields DEF Save, tables, history
  <2>. QED
    BY <2>1, OthersKeepPosts
<1>20. ASSUME NEW i \in Ideas, markAccepted(i) PROVE PostsCounted'
  <2>1. UNCHANGED <<posts, unmarked>> /\ work'.posting = work.posting
    BY <1>20 DEF markAccepted, Drafted, TypeOK, tables, history
  <2>2. \A x \in Ideas : ideas[x] \in {"none", "developing"} <=> ideas'[x] \in {"none", "developing"}
    BY <1>20 DEF markAccepted, Drafted, TypeOK
  <2>3. \A x \in Ideas : ideas[x] = "developing" => ideas'[x] = "developing"
    BY <1>20 DEF markAccepted, Drafted, TypeOK
  <2>. QED
    BY <2>1, <2>2, <2>3, OthersKeepPosts
<1>21. ASSUME NEW i \in Ideas, DraftFails(i) PROVE PostsCounted'
  <2>1. UNCHANGED <<posts, unmarked>> /\ work'.posting = work.posting
    BY <1>21 DEF DraftFails, Drafted, TypeOK, tables, history
  <2>2. \A x \in Ideas : ideas[x] \in {"none", "developing"} <=> ideas'[x] \in {"none", "developing"}
    BY <1>21 DEF DraftFails, Drafted, TypeOK
  <2>3. \A x \in Ideas : ideas[x] = "developing" => ideas'[x] = "developing"
    BY <1>21 DEF DraftFails, Drafted, TypeOK
  <2>. QED
    BY <2>1, <2>2, <2>3, OthersKeepPosts
<1>22. ASSUME NEW i \in Ideas, markDismissed(i) PROVE PostsCounted'
  <2>1. UNCHANGED <<posts, unmarked>> /\ work'.posting = work.posting
    BY <1>22 DEF markDismissed, TypeOK, tables, history
  <2>2. \A x \in Ideas : ideas[x] \in {"none", "developing"} <=> ideas'[x] \in {"none", "developing"}
    BY <1>22 DEF markDismissed, TypeOK
  <2>3. \A x \in Ideas : ideas[x] = "developing" => ideas'[x] = "developing"
    BY <1>22 DEF markDismissed, TypeOK
  <2>. QED
    BY <2>1, <2>2, <2>3, OthersKeepPosts
<1>23. ASSUME NEW t \in DOMAIN tasks, cancelTask(t) PROVE PostsCounted'
  <2>1. UNCHANGED <<posts, unmarked, ideas>> /\ work'.posting = work.posting
    BY <1>23, JobFields DEF cancelTask, tables, history
  <2>. QED
    BY <2>1, OthersKeepPosts
<1>24. ASSUME NEW s \in Sessions, DeleteSession(s) PROVE PostsCounted'
  <2>1. UNCHANGED <<posts, unmarked, ideas>> /\ work'.posting = work.posting
    BY <1>24, JobFields DEF DeleteSession, tables, history
  <2>. QED
    BY <2>1, OthersKeepPosts
<1>25. ASSUME Exit PROVE PostsCounted'
  <2>1. unmarked' = [i \in Ideas |-> unmarked[i] + (IF work.posting = i THEN 1 ELSE 0)]
    BY <1>25 DEF Exit
  <2>2. UNCHANGED <<posts, ideas>> /\ work'.posting = None
    BY <1>25, JobFields DEF Exit, tables
  <2>3. \A x \in Ideas : posts[x] \in Nat /\ unmarked[x] \in Nat /\ x # None
    BY BackgroundAssumption DEF TypeOK
  <2>. QED
    BY <2>1, <2>2, <2>3 DEF PostsCounted
<1>27. ASSUME InspectFails PROVE PostsCounted'
  <2>1. UNCHANGED <<posts, unmarked, ideas>>
    BY <1>27 DEF InspectFails, tables
  <2>2. work'.posting = work.posting
    BY <1>27, SegmentFields DEF InspectFails
  <2>. QED
    BY <2>1, <2>2, OthersKeepPosts
<1>26. ASSUME UNCHANGED vars PROVE PostsCounted'
  BY <1>26, OthersKeepPosts DEF vars, tables, history
<1>. QED
  BY <1>1, <1>2, <1>3, <1>4, <1>5, <1>6, <1>7, <1>8, <1>9, <1>10, <1>11, <1>12, <1>13, <1>14, <1>15, <1>16, <1>17, <1>18, <1>19, <1>20, <1>21, <1>22, <1>23, <1>24, <1>25, <1>26, <1>27 DEF Next

\* However often an idea is found again, an idea is put to the user once, and once more for
\* every posting that was not recorded (upsertCandidate, suggest, markSuggested).
THEOREM PostedOnce == Spec => []SuggestedOnce
<1>1. Init => TypeOK /\ PostsCounted
  BY TaskInit, BackgroundAssumption, JobFields DEF Init, PostsCounted
<1>2. TypeOK /\ PostsCounted /\ [Next]_vars => (TypeOK /\ PostsCounted)'
  BY TypeStep, PostStep
<1>3. TypeOK /\ PostsCounted => SuggestedOnce
  <2>1. SUFFICES ASSUME TypeOK, PostsCounted, NEW i \in Ideas PROVE posts[i] <= 1 + unmarked[i]
    BY DEF SuggestedOnce
  <2>2. posts[i] \in Nat /\ unmarked[i] \in Nat
    BY <2>1 DEF TypeOK
  <2>3. work.posting = i => ideas[i] \in {"none", "developing"}
    BY <2>1, BackgroundAssumption DEF PostsCounted
  <2>. QED
    BY <2>1, <2>2, <2>3 DEF PostsCounted
<1>. QED
  BY <1>1, <1>2, <1>3, PTL DEF Spec

-----------------------------------------------------------------------------
\* What a queue owes a look grows by the message of a turn only.
LEMMA OwedRows ==
  ASSUME TypeOK, NEW s \in Sessions \cup {Sub}, rows' = Append(rows, s), gone' = gone
  PROVE  /\ Owed' \subseteq Owed \cup {Len(rows) + 1} /\ (s = Sub => Owed' \subseteq Owed)
         /\ Len(rows') = Len(rows) + 1 /\ DOMAIN rows \subseteq DOMAIN rows'
  BY DEF TypeOK, Owed

\* Steps that take nothing from what was or will be looked at.
LEMMA OthersKeepShown ==
  ASSUME TypeOK, ShownInv,
         Owed' \subseteq Owed \cup {i \in due' \cup missed' : i = Len(rows) + 1},
         Len(rows) <= Len(rows'), DOMAIN rows \subseteq DOMAIN rows', Len(rows') \in Nat,
         cursor' = cursor, work'.last = work.last,
         work'.left \subseteq work.left, work.left \subseteq work'.left \cup Looked',
         Looked \subseteq Looked', missed \subseteq missed',
         due \subseteq due' \cup missed' \cup {adds'[k].message : k \in DOMAIN adds'},
         \A k \in DOMAIN adds : adds[k].message \in missed' \cup {adds'[m].message : m \in DOMAIN adds'},
         \A j \in jobs : j.kind # "explicit" /\ j.state # "taken" => \E k \in jobs' : k.kind # "explicit" /\ k.state # "taken"
  PROVE  ShownInv'
<1>1. /\ cursor \in Nat /\ work.last \in Nat /\ Len(rows) \in Nat
      /\ Owed \subseteq Nat /\ Owed' \subseteq Nat
  BY DEF TypeOK, WorkRows, Owed
<1>2. NothingPassed'
  BY <1>1 DEF ShownInv, NothingPassed
<1>3. LookAhead'
  <2>. SUFFICES ASSUME NEW i \in Owed', i \in Owed
                PROVE  \/ i \in Looked' \cup missed' \cup due' \cup work'.left
                       \/ \E k \in DOMAIN adds' : adds'[k].message = i
                       \/ \E j \in jobs' : j.kind # "explicit" /\ j.state # "taken"
    BY DEF LookAhead
  <2>1. CASE i \in Looked \cup missed \cup due \cup work.left
    BY <2>1
  <2>2. CASE \E k \in DOMAIN adds : adds[k].message = i
    BY <2>2
  <2>3. CASE \E j \in jobs : j.kind # "explicit" /\ j.state # "taken"
    BY <2>3
  <2>. QED
    BY <2>1, <2>2, <2>3 DEF ShownInv, LookAhead
<1>. QED
  BY <1>2, <1>3 DEF ShownInv

\* What is owed a look and was not seen is behind the cursor.
LEMMA OwedBehind ==
  ASSUME TypeOK, NothingPassed
  PROVE  Owed \subseteq Looked \cup Behind
  BY DEF TypeOK, NothingPassed, Owed, Behind

\* A job that is started takes the first of what is behind the cursor; the rest of a full
\* batch is missed.
LEMMA StartShown ==
  ASSUME TypeOK, TaskInv, ShownInv, NEW j \in jobs, startJob(j)
  PROVE  ShownInv'
<1>. DEFINE batch == IF j.kind = "explicit" THEN {} ELSE Batch
            last == IF batch = {} THEN 0 ELSE Max(batch)
<1>1. /\ Len(rows) \in Nat /\ DOMAIN rows = 1..Len(rows) /\ Batch \in SUBSET (1..Len(rows))
      /\ Owed \subseteq Nat /\ cursor \in Nat
  BY BehindRows DEF Batch, TypeOK, Owed
<1>2. batch # {} => last \in batch /\ \A k \in batch : k <= last
  <2>1. SUFFICES ASSUME Batch # {} PROVE Max(Batch) \in Batch /\ \A k \in Batch : k <= Max(Batch)
    OBVIOUS
  <2>. QED
    BY <1>1, <2>1, MaxOf
<1>3. /\ Idle /\ work.left = {}
      /\ UNCHANGED <<rows, gone, cursor, Looked, due, adds>>
      /\ work'.left = {i \in batch : rows[i] # Sub}
      /\ work'.last = last
      /\ jobs' = (jobs \ {j}) \cup {Taken(j)}
      /\ missed' = IF j.kind = "explicit" THEN missed ELSE missed \cup (Behind \ Batch)
  BY DEF startJob, NoWork, Startable, Idle, tables, Looked, history
<1>. HIDE DEF batch, last
<1>4. Owed' = Owed
  BY <1>3 DEF Owed
<1>5. NothingPassed'
  <2>1. last <= Len(rows) /\ work'.left \subseteq DOMAIN rows
    <3>1. batch \subseteq DOMAIN rows /\ (batch = {} => last = 0)
      BY <1>1 DEF batch, last
    <3>2. last <= Len(rows)
      BY <1>1, <1>2, <3>1
    <3>3. work'.left \subseteq batch
      BY <1>3
    <3>. QED
      BY <3>1, <3>2, <3>3
  <2>2. ASSUME NEW i \in Owed, i <= last PROVE i \in Looked \cup work'.left
    <3>1. CASE i \in Behind
      <4>1. batch = Batch /\ last \in Batch
        BY <1>1, <1>2, <2>2, <3>1 DEF batch, last, Owed
      <4>2. i = last \/ i < last
        BY <1>1, <2>2, <4>1
      <4>3. i \in Batch
        BY <3>1, <4>1, <4>2, BatchFirst
      <4>. QED
        BY <1>3, <4>1, <4>3 DEF Owed
    <3>. QED
      BY <3>1, OwedBehind DEF ShownInv
  <2>. QED
    BY <1>3, <1>4, <2>1, <2>2 DEF ShownInv, NothingPassed
<1>6. LookAhead'
  <2>1. CASE j.kind = "explicit"
    <3>1. missed' = missed
      BY <1>3, <2>1
    <3>2. ASSUME NEW k \in jobs, k.kind # "explicit" PROVE k \in jobs'
      BY <1>3, <2>1, <3>2
    <3>3. ASSUME NEW i \in Owed
          PROVE  \/ i \in Looked \cup missed \cup due
                 \/ \E k \in DOMAIN adds : adds[k].message = i
                 \/ \E k \in jobs' : k.kind # "explicit" /\ k.state # "taken"
      BY <1>3, <3>2 DEF ShownInv, LookAhead
    <3>. QED
      BY <1>3, <1>4, <3>1, <3>3 DEF LookAhead
  <2>2. CASE j.kind # "explicit"
    <3>1. Owed \subseteq Looked \cup missed' \cup work'.left
      BY <1>3, <2>2, OwedBehind DEF ShownInv, batch, Owed
    <3>. QED
      BY <1>3, <1>4, <3>1 DEF LookAhead
  <2>. QED
    BY <2>1, <2>2
<1>. QED
  BY <1>5, <1>6 DEF ShownInv

\* The process dies.
LEMMA ExitShown ==
  ASSUME TypeOK, TaskInv, ShownInv, Exit
  PROVE  ShownInv'
<1>1. /\ UNCHANGED <<rows, gone, cursor, Looked>> /\ work'.left = {} /\ work'.last = 0
      /\ missed' = missed \cup due \cup {a.message : a \in Range(adds)}
      /\ jobs' = {IF j.state = "taken" THEN Again(j) ELSE j : j \in jobs}
  BY JobFields DEF Exit, tables, Looked, history
<1>2. Owed' = Owed /\ Owed \subseteq Nat /\ Len(rows) \in Nat
  BY <1>1 DEF Owed, TypeOK
<1>3. NothingPassed'
  BY <1>1, <1>2 DEF ShownInv, NothingPassed, Owed
<1>4. ASSUME NEW i \in Owed
      PROVE  i \in Looked \cup missed' \/ \E j \in jobs' : j.kind # "explicit" /\ j.state # "taken"
  <2>1. CASE i \in work.left
    <3>1. ~Idle
      BY <2>1 DEF Idle, NoWork
    <3>2. work.job \in jobs /\ work.job \in JobRows /\ work.job.state = "taken" /\ work.job.kind # "explicit"
      BY <2>1, <3>1 DEF TaskInv, WorkIsJob, TypeOK
    <3>. QED
      BY <1>1, <3>2, JobFields
  <2>2. CASE \E k \in DOMAIN adds : adds[k].message = i
    BY <1>1, <2>2 DEF Range
  <2>3. CASE \E j \in jobs : j.kind # "explicit" /\ j.state # "taken"
    BY <1>1, <2>3
  <2>. QED
    BY <1>1, <2>1, <2>2, <2>3 DEF ShownInv, LookAhead
<1>5. LookAhead'
  BY <1>2, <1>4, <1>1 DEF LookAhead
<1>. QED
  BY <1>3, <1>5 DEF ShownInv

\* A job that will not come back leaves what is behind the cursor as missed.
LEMMA DropShown ==
  ASSUME TypeOK, TaskInv, ShownInv, NEW j \in jobs, work.left = {}, NEW J,
         UNCHANGED <<rows, gone, cursor, Looked, due, adds>>,
         work'.left = {}, work'.last = 0,
         jobs' = (jobs \ {j}) \cup J,
         \/ j.kind = "explicit" /\ missed' = missed
         \/ missed' = missed \cup Behind
         \/ missed' = missed /\ \E a \in J : a.kind # "explicit" /\ a.state # "taken"
  PROVE  ShownInv'
<1>1. Owed' = Owed /\ Owed \subseteq Nat /\ Len(rows) \in Nat
  BY DEF Owed, TypeOK
<1>2. NothingPassed'
  BY <1>1 DEF ShownInv, NothingPassed, Owed
<1>3. ASSUME NEW i \in Owed
      PROVE  \/ i \in Looked \cup missed' \cup due
             \/ \E k \in DOMAIN adds : adds[k].message = i
             \/ \E k \in jobs' : k.kind # "explicit" /\ k.state # "taken"
  <2>1. CASE missed' = missed \cup Behind
    BY <2>1, OwedBehind DEF ShownInv
  <2>2. CASE j.kind = "explicit" /\ missed' = missed
    <3>1. \A k \in jobs : k.kind # "explicit" => k \in jobs'
      BY <2>2
    <3>. QED
      BY <2>2, <3>1 DEF ShownInv, LookAhead
  <2>3. CASE \E a \in J : a.kind # "explicit" /\ a.state # "taken"
    BY <2>3
  <2>. QED
    BY <2>1, <2>2, <2>3
<1>4. LookAhead'
  BY <1>1, <1>3 DEF LookAhead
<1>. QED
  BY <1>2, <1>4 DEF ShownInv

\* A job that is done has looked at all it took.
LEMMA CompleteShown ==
  ASSUME TypeOK, TaskInv, ShownInv, Complete
  PROVE  ShownInv'
<1>1. /\ UNCHANGED <<rows, gone, Looked, missed, due, adds>> /\ work.left = {} /\ ~Idle
      /\ work'.left = {} /\ work'.last = 0
      /\ cursor' = IF work.last > cursor THEN work.last ELSE cursor
      /\ jobs' = jobs \ {work.job}
  BY JobFields DEF Complete, Done, setCursor, history, Looked
<1>2. Owed' = Owed /\ Owed \subseteq Nat /\ Len(rows) \in Nat /\ cursor \in Nat /\ work.last \in Nat
  BY <1>1 DEF Owed, TypeOK, WorkRows
<1>3. NothingPassed'
  BY <1>1, <1>2 DEF ShownInv, NothingPassed
<1>4. work.job.state = "taken"
  BY <1>1 DEF TaskInv, WorkIsJob
<1>5. LookAhead'
  BY <1>1, <1>2, <1>4 DEF ShownInv, LookAhead
<1>. QED
  BY <1>3, <1>5 DEF ShownInv

\* The message of an add that does not come to pass is missed.
LEMMA NotAddedShown ==
  ASSUME TypeOK, ShownInv, NEW status, NotAdded(status)
  PROVE  ShownInv'
<1>1. /\ UNCHANGED <<rows, gone, cursor, jobs, work, Looked, due>>
      /\ adds # <<>> /\ adds' = Tail(adds) /\ missed' = missed \cup {Head(adds).message}
  BY DEF NotAdded, tables, Looked, history
<1>2. \A k \in DOMAIN adds : adds[k] = Head(adds) \/ \E m \in DOMAIN adds' : adds'[m] = adds[k]
  BY <1>1, TailSeq DEF TypeOK
<1>3. Owed' = Owed /\ Len(rows) \in Nat
  BY <1>1 DEF Owed, TypeOK
<1>4. \A k \in DOMAIN adds : adds[k].message \in missed' \cup {adds'[m].message : m \in DOMAIN adds'}
  BY <1>1, <1>2
<1>. QED
  BY <1>1, <1>3, <1>4, OthersKeepShown

\* Every step keeps what was and what will be looked at.
LEMMA ShownStep ==
  ASSUME TypeOK, TaskInv, ShownInv, [Next]_vars
  PROVE  ShownInv'
<1>1. ASSUME NEW s \in Sessions \cup {Sub}, TurnEnds(s) PROVE ShownInv'
  <2>1. rows' = Append(rows, s) /\ UNCHANGED <<gone, cursor, jobs, adds, Looked>> /\ work' = work
    BY <1>1 DEF TurnEnds, tables, history, Looked
  <2>2. (s = Sub \/ Len(rows) + 1 \in due') /\ due \subseteq due' /\ missed' = missed
    BY <1>1 DEF TurnEnds, history
  <2>3. /\ Owed' \subseteq Owed \cup {Len(rows) + 1} /\ (s = Sub => Owed' \subseteq Owed)
        /\ Len(rows') = Len(rows) + 1 /\ DOMAIN rows \subseteq DOMAIN rows'
    BY <1>1, <2>1, OwedRows
  <2>4. Owed' \subseteq Owed \cup {x \in due' \cup missed' : x = Len(rows) + 1}
    BY <2>2, <2>3
  <2>5. Len(rows) \in Nat
    BY DEF TypeOK
  <2>. QED
    BY <2>1, <2>2, <2>3, <2>4, <2>5, OthersKeepShown
<1>2. ASSUME NEW s \in Sessions, TurnLost(s) PROVE ShownInv'
  <2>1. rows' = Append(rows, s) /\ UNCHANGED <<gone, cursor, jobs, adds, Looked>> /\ work' = work
    BY <1>2 DEF TurnLost, tables, history, Looked
  <2>2. Len(rows) + 1 \in missed' /\ due' = due /\ missed \subseteq missed'
    BY <1>2 DEF TurnLost, history
  <2>3. /\ Owed' \subseteq Owed \cup {Len(rows) + 1} /\ (s = Sub => Owed' \subseteq Owed)
        /\ Len(rows') = Len(rows) + 1 /\ DOMAIN rows \subseteq DOMAIN rows'
    BY <1>2, <2>1, OwedRows
  <2>4. Owed' \subseteq Owed \cup {x \in due' \cup missed' : x = Len(rows) + 1}
    BY <2>2, <2>3
  <2>5. Len(rows) \in Nat
    BY DEF TypeOK
  <2>. QED
    BY <2>1, <2>2, <2>3, <2>4, <2>5, OthersKeepShown
<1>3. ASSUME NEW i \in due, enqueueAuto(i) PROVE ShownInv'
  <2>1. UNCHANGED <<rows, gone, cursor, jobs, work, Looked, missed>> /\ due' = due \ {i}
    BY <1>3 DEF enqueueAuto, tables, history, Looked
  <2>2. PICK e \in AddRows : adds' = Append(adds, e) /\ e.message = i
    <3>1. PICK t \in planned \cup {Len(tasks) + 1}, b \in BOOLEAN : adds' = Append(adds, Add(t, b, i))
      BY <1>3, Zenon DEF enqueueAuto
    <3>2. t \in Nat /\ i \in Nat
      BY <3>1 DEF planned, TypeOK
    <3>3. Add(t, b, i) \in AddRows /\ Add(t, b, i).message = i
      BY <3>2 DEF Add, AddRows
    <3>. QED
      BY <3>1, <3>3
  <2>3. /\ \A m \in DOMAIN adds : m \in DOMAIN adds' /\ adds'[m] = adds[m]
        /\ \E m \in DOMAIN adds' : adds'[m] = e
    BY <2>2, AppendSeq DEF TypeOK
  <2>4. Owed' = Owed /\ Len(rows) \in Nat
    BY <2>1 DEF Owed, TypeOK
  <2>5. due \subseteq due' \cup {adds'[m].message : m \in DOMAIN adds'}
    BY <2>1, <2>2, <2>3
  <2>. QED
    BY <2>1, <2>3, <2>4, <2>5, OthersKeepShown
<1>4. ASSUME Added PROVE ShownInv'
  <2>1. /\ UNCHANGED <<rows, gone, cursor, work, Looked, missed, due>>
        /\ Job(Head(adds).task, "auto") \in jobs'
    BY <1>4 DEF Added, tables, Looked, history
  <2>2. NothingPassed'
    BY <2>1 DEF ShownInv, NothingPassed, Owed
  <2>3. LookAhead'
    BY <2>1, JobFields DEF LookAhead
  <2>. QED
    BY <2>2, <2>3 DEF ShownInv
<1>5. ASSUME Duplicate PROVE ShownInv'
  <2>1. NotAdded("cancelled")
    BY <1>5 DEF Duplicate
  <2>. QED
    BY <2>1, NotAddedShown
<1>6. ASSUME AddFails PROVE ShownInv'
  <2>1. NotAdded("failed")
    BY <1>6 DEF AddFails
  <2>. QED
    BY <2>1, NotAddedShown
<1>7. ASSUME enqueueExplicit PROVE ShownInv'
  <2>1. UNCHANGED <<rows, gone, cursor, adds, missed, due, Looked>> /\ jobs \subseteq jobs' /\ work'.left = work.left /\ work'.last = work.last
    BY <1>7 DEF enqueueExplicit, tables, Looked, history
  <2>2. Owed' = Owed /\ Len(rows) \in Nat
    BY <2>1 DEF Owed, TypeOK
  <2>. QED
    BY <2>1, <2>2, OthersKeepShown
<1>8. ASSUME Night PROVE ShownInv'
  <2>1. UNCHANGED <<rows, gone, cursor, adds, missed, due, Looked>> /\ jobs \subseteq jobs' /\ work'.left = work.left /\ work'.last = work.last
    BY <1>8 DEF Night, tables, history, Looked
  <2>2. Owed' = Owed /\ Len(rows) \in Nat
    BY <2>1 DEF Owed, TypeOK
  <2>. QED
    BY <2>1, <2>2, OthersKeepShown
<1>9. ASSUME NEW j \in jobs, startJob(j) PROVE ShownInv'
  BY <1>9, StartShown
<1>10. ASSUME NEW j \in jobs, NotRun(j) PROVE ShownInv'
  <2>1. /\ UNCHANGED <<rows, gone, cursor, Looked, due, adds, work>> /\ jobs' = (jobs \ {j}) \cup {}
        /\ missed' = IF j.kind = "explicit" THEN missed ELSE missed \cup Behind
    BY <1>10 DEF NotRun, tables, Looked, history
  <2>2. work.left = {} /\ work.last = 0
    BY <1>10, JobFields DEF NotRun, Startable, Idle
  <2>. QED
    BY <2>1, <2>2, DropShown
<1>11. ASSUME NEW j \in jobs, LoadFails(j) PROVE ShownInv'
  <2>1. work.left = {} /\ j \in JobRows /\ Taken(j) \in JobRows /\ Taken(j).kind = j.kind /\ j.kind # "explicit"
    BY <1>11, JobFields, JobRow DEF LoadFails, Startable, Idle, TypeOK
  <2>2. FailJob(j, Taken(j), Running(j), TaskOf(j))
    BY <1>11 DEF LoadFails
  <2>3. UNCHANGED <<rows, gone, cursor, Looked, due, adds>> /\ work'.left = {} /\ work'.last = 0
    BY <2>2, JobFields DEF FailJob, tables, Looked, history
  <2>4. \/ jobs' = (jobs \ {j}) \cup {Again(Taken(j))} /\ missed' = missed
        \/ /\ jobs' = (jobs \ {j}) \cup {}
           /\ missed' = IF j.kind = "explicit" THEN missed ELSE missed \cup Behind
    BY <2>2 DEF FailJob
  <2>5. Again(Taken(j)).kind = j.kind /\ Again(Taken(j)).state = "again"
    BY <2>1, JobFields
  <2>6. CASE jobs' = (jobs \ {j}) \cup {Again(Taken(j))} /\ missed' = missed
    BY <2>1, <2>3, <2>5, <2>6, DropShown
  <2>7. CASE jobs' = (jobs \ {j}) \cup {} /\ missed' = IF j.kind = "explicit" THEN missed ELSE missed \cup Behind
    BY <2>1, <2>3, <2>7, DropShown
  <2>. QED
    BY <2>4, <2>6, <2>7
<1>12. ASSUME NEW found \in SUBSET Ideas, inspect(found) PROVE ShownInv'
  <2>1. UNCHANGED <<rows, gone, cursor, jobs, adds, missed, due>> /\ Looked' = Looked \cup Segment
    BY <1>12 DEF inspect, tables, Looked
  <2>2. work'.left = work.left \ Segment /\ work'.last = work.last
    BY <1>12, SegmentFields DEF inspect
  <2>3. Owed' = Owed /\ Len(rows) \in Nat
    BY <2>1 DEF Owed, TypeOK
  <2>. QED
    BY <2>1, <2>2, <2>3, OthersKeepShown
<1>13. ASSUME NEW i \in Ideas, Noted(i) PROVE ShownInv'
  <2>1. UNCHANGED <<rows, gone, cursor, adds, missed, due, Looked>> /\ jobs' = jobs /\ work'.left = work.left /\ work'.last = work.last
    BY <1>13 DEF Noted, TypeOK, WorkRows, history, Looked
  <2>2. Owed' = Owed /\ Len(rows) \in Nat
    BY <2>1 DEF Owed, TypeOK
  <2>. QED
    BY <2>1, <2>2, OthersKeepShown
<1>14. ASSUME NEW i \in Ideas, suggest(i) PROVE ShownInv'
  <2>1. rows' = Append(rows, Sub) /\ UNCHANGED <<gone, cursor, jobs, adds, Looked>> /\ work'.left = work.left /\ work'.last = work.last
    BY <1>14 DEF suggest, TypeOK, WorkRows, history, Looked
  <2>2. due' = due /\ missed' = missed
    BY <1>14 DEF suggest, history
  <2>3. /\ Owed' \subseteq Owed \cup {Len(rows) + 1} /\ (Sub = Sub => Owed' \subseteq Owed)
        /\ Len(rows') = Len(rows) + 1 /\ DOMAIN rows \subseteq DOMAIN rows'
    BY <1>14, <2>1, OwedRows
  <2>4. Owed' \subseteq Owed \cup {x \in due' \cup missed' : x = Len(rows) + 1}
    BY <2>2, <2>3
  <2>5. Len(rows) \in Nat
    BY DEF TypeOK
  <2>. QED
    BY <2>1, <2>2, <2>3, <2>4, <2>5, OthersKeepShown
<1>15. ASSUME markSuggested PROVE ShownInv'
  <2>1. UNCHANGED <<rows, gone, cursor, adds, missed, due, Looked>> /\ jobs' = jobs /\ work'.left = work.left /\ work'.last = work.last
    BY <1>15 DEF markSuggested, TypeOK, WorkRows, history, Looked
  <2>2. Owed' = Owed /\ Len(rows) \in Nat
    BY <2>1 DEF Owed, TypeOK
  <2>. QED
    BY <2>1, <2>2, OthersKeepShown
<1>16. ASSUME PostFails PROVE ShownInv'
  <2>1. UNCHANGED <<rows, gone, cursor, adds, missed, due, Looked>> /\ jobs' = jobs /\ work'.left = work.left /\ work'.last = work.last
    BY <1>16 DEF PostFails, TypeOK, WorkRows, tables, Looked, history
  <2>2. Owed' = Owed /\ Len(rows) \in Nat
    BY <2>1 DEF Owed, TypeOK
  <2>. QED
    BY <2>1, <2>2, OthersKeepShown
<1>17. ASSUME Complete PROVE ShownInv'
  BY <1>17, CompleteShown
<1>18. ASSUME Fail PROVE ShownInv'
  <2>1. work.left = {} /\ work.job \in jobs /\ work.job \in JobRows
    BY <1>18 DEF Fail, Done, TaskInv, WorkIsJob, TypeOK
  <2>2. FailJob(work.job, work.job, tasks, work.task)
    BY <1>18 DEF Fail
  <2>3. UNCHANGED <<rows, gone, cursor, Looked, due, adds>> /\ work'.left = {} /\ work'.last = 0
    BY <2>2, JobFields DEF FailJob, tables, Looked, history
  <2>4. \/ jobs' = (jobs \ {work.job}) \cup {Again(work.job)} /\ missed' = missed
        \/ /\ jobs' = (jobs \ {work.job}) \cup {}
           /\ missed' = IF work.job.kind = "explicit" THEN missed ELSE missed \cup Behind
    BY <2>2 DEF FailJob
  <2>5. Again(work.job).kind = work.job.kind /\ Again(work.job).state = "again"
    BY <2>1, JobFields
  <2>6. CASE jobs' = (jobs \ {work.job}) \cup {Again(work.job)} /\ missed' = missed
    BY <2>1, <2>3, <2>5, <2>6, DropShown
  <2>7. CASE jobs' = (jobs \ {work.job}) \cup {} /\ missed' = IF work.job.kind = "explicit" THEN missed ELSE missed \cup Behind
    BY <2>1, <2>3, <2>7, DropShown
  <2>. QED
    BY <2>4, <2>6, <2>7
<1>19. ASSUME NEW i \in Ideas, Save(i) PROVE ShownInv'
  <2>1. UNCHANGED <<rows, gone, cursor, adds, missed, due, Looked>> /\ jobs' = jobs /\ work'.left = work.left /\ work'.last = work.last
    BY <1>19 DEF Save, tables, history, Looked
  <2>2. Owed' = Owed /\ Len(rows) \in Nat
    BY <2>1 DEF Owed, TypeOK
  <2>. QED
    BY <2>1, <2>2, OthersKeepShown
<1>20. ASSUME NEW i \in Ideas, markAccepted(i) PROVE ShownInv'
  <2>1. UNCHANGED <<rows, gone, cursor, adds, missed, due, Looked>> /\ jobs' = jobs /\ work'.left = work.left /\ work'.last = work.last
    BY <1>20 DEF markAccepted, Drafted, history, Looked
  <2>2. Owed' = Owed /\ Len(rows) \in Nat
    BY <2>1 DEF Owed, TypeOK
  <2>. QED
    BY <2>1, <2>2, OthersKeepShown
<1>21. ASSUME NEW i \in Ideas, DraftFails(i) PROVE ShownInv'
  <2>1. UNCHANGED <<rows, gone, cursor, adds, missed, due, Looked>> /\ jobs' = jobs /\ work'.left = work.left /\ work'.last = work.last
    BY <1>21 DEF DraftFails, Drafted, history, Looked
  <2>2. Owed' = Owed /\ Len(rows) \in Nat
    BY <2>1 DEF Owed, TypeOK
  <2>. QED
    BY <2>1, <2>2, OthersKeepShown
<1>22. ASSUME NEW i \in Ideas, markDismissed(i) PROVE ShownInv'
  <2>1. UNCHANGED <<rows, gone, cursor, adds, missed, due, Looked>> /\ jobs' = jobs /\ work'.left = work.left /\ work'.last = work.last
    BY <1>22 DEF markDismissed, history, Looked
  <2>2. Owed' = Owed /\ Len(rows) \in Nat
    BY <2>1 DEF Owed, TypeOK
  <2>. QED
    BY <2>1, <2>2, OthersKeepShown
<1>23. ASSUME NEW t \in DOMAIN tasks, cancelTask(t) PROVE ShownInv'
  <2>1. UNCHANGED <<rows, gone, cursor, adds, missed, due, Looked>> /\ jobs' = jobs /\ work'.left = work.left /\ work'.last = work.last
    BY <1>23 DEF cancelTask, tables, history, Looked
  <2>2. Owed' = Owed /\ Len(rows) \in Nat
    BY <2>1 DEF Owed, TypeOK
  <2>. QED
    BY <2>1, <2>2, OthersKeepShown
<1>24. ASSUME NEW s \in Sessions, DeleteSession(s) PROVE ShownInv'
  <2>1. UNCHANGED <<rows, cursor, jobs, adds, missed, due, work, Looked>> /\ gone \subseteq gone'
    BY <1>24 DEF DeleteSession, history, Looked
  <2>2. Owed' \subseteq Owed /\ Len(rows) \in Nat
    BY <2>1 DEF Owed, TypeOK
  <2>. QED
    BY <2>1, <2>2, OthersKeepShown
<1>25. ASSUME Exit PROVE ShownInv'
  BY <1>25, ExitShown
<1>27. ASSUME InspectFails PROVE ShownInv'
  <2>1. UNCHANGED <<rows, gone, cursor, jobs, adds, missed, due>> /\ Looked' = Looked \cup Segment
    BY <1>27 DEF InspectFails, tables, Looked
  <2>2. work'.left = work.left \ Segment /\ work'.last = work.last
    BY <1>27, SegmentFields DEF InspectFails
  <2>3. Owed' = Owed /\ Len(rows) \in Nat
    BY <2>1 DEF Owed, TypeOK
  <2>. QED
    BY <2>1, <2>2, <2>3, OthersKeepShown
<1>26. ASSUME UNCHANGED vars PROVE ShownInv'
  <2>1. UNCHANGED <<rows, gone, cursor, adds, missed, due, Looked>> /\ jobs' = jobs /\ work'.left = work.left /\ work'.last = work.last
    BY <1>26 DEF vars, tables, history, Looked
  <2>2. Owed' = Owed /\ Len(rows) \in Nat
    BY <2>1 DEF Owed, TypeOK
  <2>. QED
    BY <2>1, <2>2, OthersKeepShown
<1>. QED
  BY <1>1, <1>2, <1>3, <1>4, <1>5, <1>6, <1>7, <1>8, <1>9, <1>10, <1>11, <1>12, <1>13, <1>14, <1>15, <1>16, <1>17, <1>18, <1>19, <1>20, <1>21, <1>22, <1>23, <1>24, <1>25, <1>26, <1>27 DEF Next

\* The cursor passes a message of a conversation only after a model looked at it, the gate
\* passed over it or the model call for it threw, and when nothing is left to do no other is
\* left over than those known as missed (setCursor, processAuto, process).
THEOREM MessagesShown == Spec => []EveryMessageShown
<1>1. Init => TypeOK /\ TaskInv /\ ShownInv
  <2>1. SUFFICES ASSUME Init PROVE ShownInv
    BY TaskInit
  <2>2. rows = <<>> /\ cursor = 0 /\ work.last = 0 /\ work.left = {} /\ Owed = {}
    BY <2>1, JobFields DEF Init, Owed
  <2>. QED
    BY <2>2 DEF ShownInv, NothingPassed, LookAhead
<1>2. TypeOK /\ TaskInv /\ ShownInv /\ [Next]_vars => (TypeOK /\ TaskInv /\ ShownInv)'
  BY TypeStep, TaskStep, ShownStep
<1>3. TypeOK /\ TaskInv /\ ShownInv => EveryMessageShown
  <2>1. SUFFICES ASSUME TypeOK, TaskInv, ShownInv, NEW i \in Owed
                 PROVE  /\ i <= cursor => i \in Looked
                        /\ due = {} /\ adds = <<>> /\ jobs = {} => i \in Looked \cup missed
    BY DEF EveryMessageShown, Owed, Looked
  <2>2. i <= cursor => i \in Looked
    BY <2>1 DEF ShownInv, NothingPassed
  <2>3. ASSUME due = {}, adds = <<>>, jobs = {} PROVE i \in Looked \cup missed
    <3>1. DOMAIN adds = {}
      BY <2>3
    <3>2. work.left = {}
      BY <2>1, <2>3, JobFields DEF TaskInv, WorkIsJob, Idle
    <3>. QED
      BY <2>1, <2>3, <3>1, <3>2 DEF ShownInv, LookAhead
  <2>. QED
    BY <2>2, <2>3
<1>. QED
  BY <1>1, <1>2, <1>3, PTL DEF Spec
===============================================================================
