---------------------------- MODULE ChatTurnProofs ----------------------------
\* Proofs about ChatTurn, for any chats and conversations, any sizes of the pool and any
\* number of stops, exits, pauses, mounts and timeouts; and about the gate that the tool calls of a
\* turn pass (PermissionGate), for any calls and keys.
EXTENDS ChatTurn, PermissionGate, SequenceTheorems, FiniteSetTheorems, WellFoundedInduction, TLAPS

\* A refresh that is on its way counts the idle callbacks it still waits for.
IdleCounted ==
    /\ IsFiniteSet({d \in Convs : runs[d] # Nobody})
    /\ IsFiniteSet(idle)
    /\ idle # {} => Cardinality(idle) = refresh.left /\ ~refresh.done

TypeInv == TypeOK /\ IdleCounted

-----------------------------------------------------------------------------
(* Sequences, tables and numbers.                                            *)

\* A set of numbers that is not empty has a least element.
LEMMA LeastExists ==
  ASSUME NEW S \in SUBSET Nat, S # {}
  PROVE  \E m \in S : \A k \in S : m <= k
<1>. DEFINE F == {T \in FiniteSubsetsOf(Nat) : \E m \in S : T = 1..m}
<1>1. \A m \in S : 1..m \in F
  BY FS_Interval DEF FiniteSubsetsOf
<1>2. PICK T \in F : \A U \in F : ~(<<U, T>> \in StrictSubsetOrdering(Nat))
  <2>. HIDE DEF F
  <2>1. F \subseteq FiniteSubsetsOf(Nat) /\ F # {}
    BY <1>1 DEF F
  <2>. QED
    BY <2>1, WFMin, FS_StrictSubsetOrderingWellFounded
<1>3. PICK m \in S : T = 1..m
  OBVIOUS
<1>4. ASSUME NEW k \in S, k < m PROVE FALSE
  <2>1. 1..k \in F
    BY <1>1
  <2>2. 1..k \subseteq T /\ m \in T /\ m \notin 1..k
    BY <1>3, <1>4
  <2>3. <<1..k, T>> \in StrictSubsetOrdering(Nat)
    BY <2>1, <2>2 DEF StrictSubsetOrdering, FiniteSubsetsOf
  <2>. QED
    BY <1>2, <2>1, <2>3
<1>. QED
  BY <1>4

\* What appending a command does to the wire.
LEMMA Appended ==
  ASSUME NEW s \in Seq(Commands), NEW e \in Commands
  PROVE  /\ Append(s, e) \in Seq(Commands)
         /\ Len(Append(s, e)) = Len(s) + 1
         /\ \A k \in 1..(Len(s) + 1) : Append(s, e)[k] = IF k = Len(s) + 1 THEN e ELSE s[k]
<1>. HIDE DEF Commands
<1>. QED
  OBVIOUS

\* What taking out the command at an index does to the wire.
LEMMA Removed ==
  ASSUME NEW s \in Seq(Commands), NEW i \in 1..Len(s)
  PROVE  /\ RemoveAt(s, i) \in Seq(Commands)
         /\ Len(RemoveAt(s, i)) = Len(s) - 1
         /\ \A k \in 1..(Len(s) - 1) : RemoveAt(s, i)[k] = IF k < i THEN s[k] ELSE s[k + 1]
<1>. DEFINE a == SubSeq(s, 1, i - 1)
            b == SubSeq(s, i + 1, Len(s))
<1>1. Len(s) \in Nat /\ \A k \in 1..Len(s) : s[k] \in Commands
  BY LenProperties
<1>2. a \in Seq(Commands) /\ Len(a) = i - 1 /\ \A k \in 1..(i - 1) : a[k] = s[k]
  <2>1. \A k \in 1..(i - 1) : s[k] \in Commands
    BY <1>1
  <2>2. /\ a \in Seq(Commands) 
        /\ Len(a) = IF 1 <= i - 1 THEN i - 1 - 1 + 1 ELSE 0
        /\ \A k \in 1..(i - 1 - 1 + 1) : a[k] = s[1 + k - 1]
    BY <1>1, <2>1, SubSeqProperties
  <2>. HIDE DEF a
  <2>. QED
    BY <2>2
<1>3. /\ b \in Seq(Commands) 
      /\ Len(b) = Len(s) - i
      /\ \A k \in 1..(Len(s) - i) : b[k] = s[i + k]
  <2>1. \A k \in (i + 1)..Len(s) : s[k] \in Commands
    BY <1>1
  <2>2. /\ b \in Seq(Commands) 
        /\ Len(b) = IF i + 1 <= Len(s) THEN Len(s) - (i + 1) + 1 ELSE 0
        /\ \A k \in 1..(Len(s) - (i + 1) + 1) : b[k] = s[i + 1 + k - 1]
    BY <1>1, <2>1, SubSeqProperties
  <2>. HIDE DEF b
  <2>. QED
    BY <1>1, <2>2
<1>4. RemoveAt(s, i) = a \o b
  BY DEF RemoveAt
<1>5. /\ a \o b \in Seq(Commands) 
      /\ Len(a \o b) = Len(a) + Len(b)
      /\ \A k \in 1..(Len(a) + Len(b)) : (a \o b)[k] = IF k <= Len(a) THEN a[k] ELSE b[k - Len(a)]
  <2>. HIDE DEF a, b
  <2>. QED
    BY <1>2, <1>3, ConcatProperties
<1>. HIDE DEF a, b
<1>. QED
  BY <1>1, <1>2, <1>3, <1>4, <1>5

\* The three kinds of commands.
LEMMA CommandKinds ==
  /\ \A j \in Jobs : /\ ChatCommand(j) \in Commands
                     /\ ChatCommand(j).kind = "chat"
                     /\ ChatCommand(j).job = j
  /\ \A c \in Convs, only \in Jobs \cup {Nobody} :
        StopCommand(c, only) \in Commands /\ StopCommand(c, only).kind = "stop"
  /\ StopAllCommand \in Commands /\ StopAllCommand.kind = "stop_all"
  /\ \A w \in Commands : /\ w.kind = "chat" => w.job \in Jobs
                         /\ w.kind = "stop" => w.conv \in Convs
<1>1. \A j \in Jobs : ChatCommand(j).kind = "chat" /\ ChatCommand(j).job = j
  BY DEF ChatCommand
<1>2. \A c \in Convs, only \in Jobs \cup {Nobody} :
        StopCommand(c, only).kind = "stop" /\ StopCommand(c, only).conv = c
  BY DEF StopCommand
<1>3. StopAllCommand.kind = "stop_all"
  BY DEF StopAllCommand
<1>. HIDE DEF ChatCommand, StopCommand, StopAllCommand
<1>4. \A w \in Commands :
        \/ \E j \in Jobs : w = ChatCommand(j)
        \/ \E c \in Convs, only \in Jobs \cup {Nobody} : w = StopCommand(c, only)
        \/ w = StopAllCommand
  BY DEF Commands
<1>5. ASSUME NEW w \in Commands
      PROVE  (w.kind = "chat" => w.job \in Jobs) /\ (w.kind = "stop" => w.conv \in Convs)
  BY <1>1, <1>2, <1>3, <1>4
<1>6. \A j \in Jobs : ChatCommand(j) \in Commands
  BY DEF Commands
<1>7. \A c \in Convs, only \in Jobs \cup {Nobody} : StopCommand(c, only) \in Commands
  BY DEF Commands
<1>8. StopAllCommand \in Commands
  BY DEF Commands
<1>. QED
  BY <1>1, <1>2, <1>3, <1>5, <1>6, <1>7, <1>8

\* A bounded step counts.
LEMMA UseCounts ==
  ASSUME counts \in [Bounds -> Nat], NEW b \in Bounds, NEW m, Use(b, m)
  PROVE  counts' \in [Bounds -> Nat]
<1>1. counts' = [counts EXCEPT ![b] = counts[b] + 1]
  BY DEF Use
<1>. QED
  BY <1>1

\* Updating tasks keeps the table a table, and takes nobody's terminal status.
LEMMA SettledTasks ==
  ASSUME NEW tasks \in [Jobs -> Statuses], NEW js, NEW status \in Statuses
  PROVE  /\ Settled(tasks, js, status) \in [Jobs -> Statuses]
         /\ \A j \in Jobs : Settled(tasks, js, status)[j] \in {tasks[j], status}
         /\ \A j \in Jobs : tasks[j] \in Terminal => Settled(tasks, js, status)[j] = tasks[j]
BY DEF Settled

\* The statuses that actions write.
LEMMA StatusNames ==
  {"none", "planned", "running", "completed", "failed", "cancelled"} = Statuses
BY DEF Statuses, Active, Terminal

-----------------------------------------------------------------------------
(* Types.                                                                    *)

LEMMA InitTypes == Init => TypeInv
<1>. SUFFICES ASSUME Init PROVE TypeInv
  OBVIOUS
<1>1. task \in [Jobs -> Statuses] /\ phase \in [Jobs -> Phases] /\ outcome \in [Jobs -> Outcomes]
  BY DEF Init, Statuses, Phases, Outcomes
<1>2. wire \in Seq(Commands) /\ marking \subseteq Marks
  <2>. HIDE DEF Commands
  <2>. QED
    BY DEF Init
<1>3. pending \subseteq Jobs /\ paused \in BOOLEAN /\ blocked \in BOOLEAN /\ resumeDue \in BOOLEAN
  BY DEF Init
<1>4. limit \in Limits /\ runs \in [Convs -> Jobs \cup {Nobody}]
  BY ChatAssumption DEF Init
<1>5. /\ stopped \subseteq Jobs /\ ran \subseteq Jobs /\ idle \subseteq Convs /\ refresh \in Refreshes
      /\ swept \subseteq Jobs /\ shared \subseteq Convs
  BY DEF Init, Refreshes
<1>6. counts \in [Bounds -> Nat]
  BY DEF Init
<1>7. {d \in Convs : runs[d] # Nobody} = {} /\ idle = {}
  BY DEF Init
<1>. QED
  BY <1>1, <1>2, <1>3, <1>4, <1>5, <1>6, <1>7, FS_EmptySet DEF TypeInv, TypeOK, IdleCounted

\* What is not touched keeps its type.
LEMMA RegistryKeeps ==
  ASSUME IdleCounted, UNCHANGED <<runs, idle, refresh>>
  PROVE  IdleCounted'
BY DEF IdleCounted

\* Registering and clearing keep the count of the idle callbacks.
LEMMA RegisterCounts ==
  ASSUME TypeOK, IdleCounted, NEW j \in Jobs, Register(j)
  PROVE  IdleCounted' /\ runs' \in [Convs -> Jobs \cup {Nobody}]
<1>1. runs' = [runs EXCEPT ![ConvOf[j]] = j] /\ UNCHANGED <<idle, refresh>>
  BY DEF Register
<1>2. runs' \in [Convs -> Jobs \cup {Nobody}]
  BY <1>1 DEF TypeOK
<1>3. {d \in Convs : runs'[d] # Nobody} \subseteq {d \in Convs : runs[d] # Nobody} \cup {ConvOf[j]}
  BY <1>1 DEF TypeOK
<1>4. IsFiniteSet({d \in Convs : runs'[d] # Nobody})
  BY <1>3, FS_AddElement, FS_Subset DEF IdleCounted
<1>. QED
  BY <1>1, <1>2, <1>4 DEF IdleCounted

LEMMA ClearCounts ==
  ASSUME TypeOK, IdleCounted, NEW c \in Convs, Clear(c)
  PROVE  /\ IdleCounted' /\ runs' \in [Convs -> Jobs \cup {Nobody}]
         /\ idle' \subseteq Convs /\ refresh' \in Refreshes
         /\ idle' = idle \ {c} /\ refresh'.behind = refresh.behind
         /\ refresh'.done => refresh.done \/ (c \in idle /\ idle' = {})
<1>1. /\ runs' = [runs EXCEPT ![c] = Nobody]
      /\ idle' = idle \ {c}
      /\ c \notin idle => refresh' = refresh
      /\ c \in idle => refresh' = [refresh EXCEPT !.left = refresh.left - 1,
                                                  !.done = (refresh.left = 1)]
  BY DEF Clear
<1>2. runs' \in [Convs -> Jobs \cup {Nobody}] /\ idle' \subseteq Convs
  BY <1>1 DEF TypeOK
<1>3. {d \in Convs : runs'[d] # Nobody} \subseteq {d \in Convs : runs[d] # Nobody}
  BY <1>1 DEF TypeOK
<1>4. IsFiniteSet({d \in Convs : runs'[d] # Nobody})
  BY <1>3, FS_Subset DEF IdleCounted
<1>5. /\ IsFiniteSet(idle')
      /\ Cardinality(idle) \in Nat /\ Cardinality(idle') \in Nat
      /\ Cardinality(idle') = 0 <=> idle' = {}
      /\ Cardinality(idle') = IF c \in idle THEN Cardinality(idle) - 1 ELSE Cardinality(idle)
  BY <1>1, FS_RemoveElement, FS_CardinalityType, FS_EmptySet DEF IdleCounted
<1>6. CASE c \notin idle
  <2>1. idle' = idle /\ refresh' = refresh
    BY <1>1, <1>6
  <2>. QED
    BY <1>1, <1>2, <1>4, <2>1 DEF IdleCounted, TypeOK
<1>7. CASE c \in idle
  <2>1. Cardinality(idle) = refresh.left /\ refresh.left \in Nat /\ refresh.left - 1 \in Nat
    BY <1>5, <1>7 DEF IdleCounted
  <2>2. refresh' = [left |-> refresh.left - 1, done |-> (refresh.left = 1), behind |-> refresh.behind]
    BY <1>1, <1>7 DEF TypeOK, Refreshes
  <2>3. refresh' \in Refreshes /\ refresh'.behind = refresh.behind
    BY <2>1, <2>2 DEF Refreshes, TypeOK
  <2>4. refresh'.left = refresh.left - 1 /\ (refresh'.done <=> refresh.left = 1)
    BY <2>2
  <2>5. Cardinality(idle') = refresh'.left /\ (refresh'.done <=> idle' = {})
    BY <1>5, <1>7, <2>1, <2>4
  <2>. QED
    BY <1>1, <1>2, <1>4, <1>5, <1>7, <2>3, <2>5 DEF IdleCounted
<1>. QED
  BY <1>6, <1>7

\* Announcing a refresh counts the other runs.
LEMMA AddMountCounts ==
  ASSUME TypeOK, IdleCounted, NEW c \in Convs \cup {Nobody}, AddMount(c)
  PROVE  IdleCounted' /\ idle' \subseteq Convs /\ refresh' \in Refreshes
<1>. DEFINE busy == {d \in Convs \ {c} : runs[d] # Nobody}
<1>1. /\ idle' = busy /\ UNCHANGED runs
      /\ refresh' = [left |-> Cardinality(busy), done |-> busy = {},
                     behind |-> {j \in Jobs : phase[j] = "running" /\ ConvOf[j] \in busy}]
  BY DEF AddMount
<1>2. busy \subseteq {d \in Convs : runs[d] # Nobody}
  OBVIOUS
<1>3. IsFiniteSet(busy)
  BY <1>2, FS_Subset DEF IdleCounted
<1>4. Cardinality(busy) \in Nat
  BY <1>3, FS_CardinalityType
<1>5. busy \subseteq Convs
  OBVIOUS
<1>. HIDE DEF busy
<1>6. refresh' \in Refreshes
  BY <1>1, <1>4 DEF Refreshes
<1>. QED
  BY <1>1, <1>3, <1>5, <1>6 DEF IdleCounted

\* Cancelling only takes jobs out of the pending ones.
LEMMA CancelShrinks ==
  ASSUME NEW js, Cancel(js)
  PROVE  pending' \subseteq pending
BY DEF Cancel

\* What a handler does to the wire, and that it is one of three.
LEMMA Handled ==
  ASSUME TypeOK, HandleCommand
  PROVE  \E i \in 1..Len(wire) :
            /\ Deliverable(i) /\ wire[i] \in Commands
            /\ wire' = RemoveAt(wire, i)
            /\ wire' \in Seq(Commands)
            /\ Len(wire') = Len(wire) - 1
            /\ \A k \in 1..(Len(wire) - 1) : wire'[k] = IF k < i THEN wire[k] ELSE wire[k + 1]
            /\ StartChat(i) \/ StopConversation(i) \/ StopAll(i)
<1>1. PICK i \in 1..Len(wire) : /\ Deliverable(i)
                                /\ wire' = RemoveAt(wire, i)
                                /\ StartChat(i) \/ StopConversation(i) \/ StopAll(i)
  BY DEF HandleCommand
<1>2. /\ RemoveAt(wire, i) \in Seq(Commands)
      /\ Len(RemoveAt(wire, i)) = Len(wire) - 1
      /\ \A k \in 1..(Len(wire) - 1) : RemoveAt(wire, i)[k] = IF k < i THEN wire[k] ELSE wire[k + 1]
  BY Removed DEF TypeOK
<1>3. wire[i] \in Commands
  BY LenProperties DEF TypeOK
<1>. QED
  BY <1>1, <1>2, <1>3

LEMMA HandlerTypes == TypeInv /\ HandleCommand => TypeInv'
<1>. SUFFICES ASSUME TypeInv, HandleCommand PROVE TypeInv'
  OBVIOUS
<1>. USE DEF TypeInv
<1>1. PICK i \in 1..Len(wire) : /\ wire[i] \in Commands /\ wire' \in Seq(Commands)
                                /\ StartChat(i) \/ StopConversation(i) \/ StopAll(i)
  BY Handled
<1>2. CASE StartChat(i)
  <2>1. phase' \in [Jobs -> Phases]
    BY <1>2 DEF StartChat, TypeOK, Phases
  <2>2. IdleCounted'
    BY <1>2, RegistryKeeps DEF StartChat, registryVars
  <2>. QED
    BY <1>1, <1>2, <2>1, <2>2 DEF StartChat, dispatcherVars, registryVars, TypeOK
<1>3. CASE StopConversation(i)
  <2>1. wire[i].conv \in Convs
    BY <1>1, <1>3, CommandKinds DEF StopConversation
  <2>2. stopped' \subseteq Jobs
    BY <1>3, <2>1 DEF StopConversation, TypeOK
  <2>3. pending' \subseteq Jobs
    BY <1>3, CancelShrinks DEF StopConversation, TypeOK
  <2>4. IdleCounted'
    BY <1>3, RegistryKeeps DEF StopConversation
  <2>5. swept' \subseteq Jobs
    BY <1>3 DEF StopConversation, TypeOK
  <2>. QED
    BY <1>1, <1>3, <2>2, <2>3, <2>4, <2>5 DEF StopConversation, TypeOK
<1>4. CASE StopAll(i)
  <2>1. stopped' \subseteq Jobs
    BY <1>4 DEF StopAll, TypeOK
  <2>2. pending' \subseteq Jobs
    BY <1>4, CancelShrinks DEF StopAll, TypeOK
  <2>3. runs' = [c \in Convs |-> Nobody] /\ idle' = {}
    BY <1>4 DEF StopAll
  <2>4. runs' \in [Convs -> Jobs \cup {Nobody}] /\ idle' \subseteq Convs
    BY <2>3
  <2>5. {d \in Convs : runs'[d] # Nobody} = {}
    BY <2>3
  <2>6. IdleCounted'
    BY <2>3, <2>5, FS_EmptySet DEF IdleCounted
  <2>7. swept' \subseteq Jobs
    BY <1>4 DEF StopAll, TypeOK
  <2>. QED
    BY <1>1, <1>4, <2>1, <2>2, <2>4, <2>6, <2>7 DEF StopAll, TypeOK
<1>. QED
  BY <1>1, <1>2, <1>3, <1>4

LEMMA WebTypes == TypeInv /\ Web => TypeInv'
<1>. SUFFICES ASSUME TypeInv, Web PROVE TypeInv'
  OBVIOUS
<1>. USE DEF TypeInv
<1>1. IdleCounted'
  BY RegistryKeeps DEF Web, SendChat, SendFails, SubmitTimesOut, RequestStop, MarkCancelled, RequestStopAll, registryVars
<1>2. ASSUME NEW j \in Jobs, SendChat(j) PROVE TypeOK'
  <2>1. task' \in [Jobs -> Statuses] /\ phase' \in [Jobs -> Phases]
    BY <1>2, StatusNames DEF SendChat, TypeOK, Phases
  <2>2. wire' \in Seq(Commands)
    BY <1>2, Appended, CommandKinds DEF SendChat, TypeOK
  <2>. QED
    BY <1>2, <2>1, <2>2 DEF SendChat, dispatcherVars, registryVars, TypeOK
<1>3. ASSUME NEW j \in Jobs, SendFails(j) PROVE TypeOK'
  <2>1. task' \in [Jobs -> Statuses] /\ phase' \in [Jobs -> Phases]
    BY <1>3, StatusNames DEF SendFails, TypeOK, Phases
  <2>. QED
    BY <1>3, <2>1 DEF SendFails, dispatcherVars, registryVars, TypeOK
<1>4. ASSUME NEW c \in Convs, NEW only \in Jobs \cup {Nobody}, RequestStop(c, only) PROVE TypeOK'
  <2>1. counts' \in [Bounds -> Nat]
    <3>1. "stops" \in Bounds /\ Use("stops", MaxStops)
      BY <1>4 DEF RequestStop, Bounds
    <3>. QED
      BY <3>1, UseCounts DEF TypeOK
  <2>2. wire' \in Seq(Commands)
    BY <1>4, Appended, CommandKinds DEF RequestStop, TypeOK
  <2>3. marking' \subseteq Marks
    BY <1>4 DEF RequestStop, TypeOK, Marks
  <2>. QED
    BY <1>4, <2>1, <2>2, <2>3 DEF RequestStop, dispatcherVars, registryVars, TypeOK
<1>5. ASSUME NEW m \in marking, MarkCancelled(m) PROVE TypeOK'
  <2>1. task' \in [Jobs -> Statuses]
    BY <1>5, SettledTasks, StatusNames DEF MarkCancelled, TypeOK
  <2>. QED
    BY <1>5, <2>1 DEF MarkCancelled, dispatcherVars, registryVars, TypeOK
<1>6. CASE RequestStopAll
  <2>1. counts' \in [Bounds -> Nat]
    <3>1. "stopAlls" \in Bounds /\ Use("stopAlls", MaxStopAlls)
      BY <1>6 DEF RequestStopAll, Bounds
    <3>. QED
      BY <3>1, UseCounts DEF TypeOK
  <2>2. wire' \in Seq(Commands)
    BY <1>6, Appended, CommandKinds DEF RequestStopAll, TypeOK
  <2>3. UNCHANGED <<task, marking, phase, outcome, dispatcherVars, registryVars>>
    BY <1>6 DEF RequestStopAll
  <2>. QED
    BY <1>1, <2>1, <2>2, <2>3 DEF dispatcherVars, registryVars, TypeOK
<1>7. ASSUME NEW j \in Jobs, SubmitTimesOut(j) PROVE TypeOK'
  <2>1. counts' \in [Bounds -> Nat]
    <3>1. "timeouts" \in Bounds /\ Use("timeouts", MaxTimeouts)
      BY <1>7 DEF SubmitTimesOut, Bounds
    <3>. QED
      BY <3>1, UseCounts DEF TypeOK
  <2>2. task' \in [Jobs -> Statuses]
    BY <1>7, SettledTasks, StatusNames DEF SubmitTimesOut, TypeOK
  <2>. QED
    BY <1>7, <2>1, <2>2 DEF SubmitTimesOut, dispatcherVars, registryVars, TypeOK
<1>. QED
  BY <1>1, <1>2, <1>3, <1>4, <1>5, <1>6, <1>7 DEF Web

\* The steps of one job.
LEMMA JobTypes ==
  ASSUME TypeInv, NEW j \in Jobs,
         AgentTurn(j) \/ PreloadFails(j) \/ AddFails(j) \/ JobTimesOut(j) \/ OnFailed(j)
  PROVE  TypeInv'
<1>. USE DEF TypeInv
<1>1. CASE EnqueueUserChat(j)
  <2>1. phase' \in [Jobs -> Phases]
    BY <1>1 DEF EnqueueUserChat, TypeOK, Phases
  <2>2. IdleCounted'
    BY <1>1, RegistryKeeps DEF EnqueueUserChat, registryVars
  <2>. QED
    BY <1>1, <2>1, <2>2 DEF EnqueueUserChat, registryVars, TypeOK
<1>2. CASE PreloadFails(j)
  <2>1. phase' \in [Jobs -> Phases]
    BY <1>2 DEF PreloadFails, TypeOK, Phases
  <2>2. IdleCounted'
    BY <1>2, RegistryKeeps DEF PreloadFails, registryVars
  <2>. QED
    BY <1>2, <2>1, <2>2 DEF PreloadFails, dispatcherVars, registryVars, TypeOK
<1>3. CASE Added(j)
  <2>1. phase' \in [Jobs -> Phases] /\ resumeDue' \in BOOLEAN
    BY <1>3 DEF Added, ResumeWorkerSoon, TypeOK, Phases
  <2>2. IdleCounted'
    BY <1>3, RegistryKeeps DEF Added, registryVars
  <2>. QED
    BY <1>3, <2>1, <2>2 DEF Added, registryVars, TypeOK
<1>4. CASE AddFails(j)
  <2>1. phase' \in [Jobs -> Phases] /\ resumeDue' \in BOOLEAN
    BY <1>4 DEF AddFails, ResumeWorkerSoon, TypeOK, Phases
  <2>2. IdleCounted'
    BY <1>4, RegistryKeeps DEF AddFails, registryVars
  <2>3. pending' \subseteq Jobs
    BY <1>4 DEF AddFails, TypeOK
  <2>. QED
    BY <1>4, <2>1, <2>2, <2>3 DEF AddFails, registryVars, TypeOK
<1>5. CASE RunJob(j)
  <2>1. phase' \in [Jobs -> Phases]
    BY <1>5 DEF RunJob, TypeOK, Phases
  <2>2. outcome' \in [Jobs -> Outcomes]
    BY <1>5 DEF RunJob, TypeOK, Outcomes
  <2>4. IdleCounted'
    BY <1>5, RegistryKeeps DEF RunJob, registryVars
  <2>. QED
    BY <1>5, <2>1, <2>2, <2>4 DEF RunJob, registryVars, TypeOK
<1>6. CASE JobStarted(j)
  <2>1. phase' \in [Jobs -> Phases]
    BY <1>6 DEF JobStarted, TypeOK, Phases
  <2>2. task' \in [Jobs -> Statuses]
    BY <1>6, SettledTasks, StatusNames DEF JobStarted, TypeOK
  <2>3. IdleCounted'
    BY <1>6, RegistryKeeps DEF JobStarted, registryVars
  <2>. QED
    BY <1>6, <2>1, <2>2, <2>3 DEF JobStarted, dispatcherVars, registryVars, TypeOK
<1>7. CASE Register(j)
  <2>1. phase' \in [Jobs -> Phases] /\ ran' \subseteq Jobs
    BY <1>7 DEF Register, TypeOK, Phases
  <2>2. shared' \subseteq Convs
    BY <1>7, ChatAssumption DEF Register, TypeOK
  <2>. QED
    BY <1>7, <2>1, <2>2, RegisterCounts DEF Register, dispatcherVars, TypeOK
<1>8. ASSUME NEW r \in {"completed", "failed", "cancelled"}, ReturnReply(j, r) PROVE TypeInv'
  <2>1. phase' \in [Jobs -> Phases] /\ outcome' \in [Jobs -> Outcomes]
    BY <1>8 DEF ReturnReply, TypeOK, Phases, Outcomes
  <2>2. Clear(ConvOf[j]) /\ ConvOf[j] \in Convs
    BY <1>8, ChatAssumption DEF ReturnReply
  <2>3. IdleCounted' /\ runs' \in [Convs -> Jobs \cup {Nobody}] /\ idle' \subseteq Convs /\ refresh' \in Refreshes
    BY <2>2, ClearCounts
  <2>4. UNCHANGED <<stopped, ran, swept, shared>>
    BY <2>2 DEF Clear
  <2>. QED
    BY <1>8, <2>1, <2>3, <2>4 DEF ReturnReply, dispatcherVars, TypeOK
<1>9. CASE OnCompleted(j)
  <2>1. phase' \in [Jobs -> Phases] /\ pending' \subseteq Jobs
    BY <1>9 DEF OnCompleted, TypeOK, Phases
  <2>2. TaskResult(j) \in Statuses
    <3>1. outcome[j] \in Outcomes
      BY DEF TypeOK
    <3>. QED
      BY <3>1, StatusNames DEF TaskResult, Outcomes
  <2>3. task' \in [Jobs -> Statuses]
    BY <1>9, <2>2, SettledTasks DEF OnCompleted, TypeOK
  <2>4. IdleCounted'
    BY <1>9, RegistryKeeps DEF OnCompleted, registryVars
  <2>. QED
    BY <1>9, <2>1, <2>3, <2>4 DEF OnCompleted, registryVars, TypeOK
<1>10. CASE OnFailed(j)
  <2>1. phase' \in [Jobs -> Phases] /\ pending' \subseteq Jobs
    BY <1>10 DEF OnFailed, TypeOK, Phases
  <2>2. outcome' \in [Jobs -> Outcomes]
    BY <1>10 DEF OnFailed, TypeOK, Outcomes
  <2>3. task' \in [Jobs -> Statuses]
    BY <1>10, SettledTasks, StatusNames DEF OnFailed, TypeOK
  <2>4. IdleCounted'
    BY <1>10, RegistryKeeps DEF OnFailed, registryVars
  <2>. QED
    BY <1>10, <2>1, <2>2, <2>3, <2>4 DEF OnFailed, registryVars, TypeOK
<1>11. CASE JobTimesOut(j)
  <2>1. counts' \in [Bounds -> Nat]
    <3>1. "timeouts" \in Bounds /\ Use("timeouts", MaxTimeouts)
      BY <1>11 DEF JobTimesOut, Bounds
    <3>. QED
      BY <3>1, UseCounts DEF TypeOK
  <2>2. task' \in [Jobs -> Statuses] /\ pending' \subseteq Jobs
    BY <1>11, SettledTasks, StatusNames DEF JobTimesOut, TypeOK
  <2>3. IdleCounted'
    BY <1>11, RegistryKeeps DEF JobTimesOut, registryVars
  <2>. QED
    BY <1>11, <2>1, <2>2, <2>3 DEF JobTimesOut, registryVars, TypeOK
<1>. QED
  BY <1>1, <1>2, <1>3, <1>4, <1>5, <1>6, <1>7, <1>8, <1>9, <1>10, <1>11 DEF AgentTurn

LEMMA ExitTypes == TypeInv /\ Exit => TypeInv'
<1>. SUFFICES ASSUME TypeInv, Exit PROVE TypeInv'
  OBVIOUS
<1>. USE DEF TypeInv
<1>1. phase' \in [Jobs -> Phases]
  BY DEF Exit, TypeOK, Phases
<1>2. counts' \in [Bounds -> Nat]
  <2>1. "exits" \in Bounds /\ Use("exits", MaxExits)
    BY DEF Exit, Bounds
  <2>. QED
    BY <2>1, UseCounts DEF TypeOK
<1>3. pending' = {} /\ paused' = FALSE /\ blocked' = FALSE /\ resumeDue' = FALSE
  BY DEF Exit
<1>5. /\ runs' = [c \in Convs |-> Nobody] /\ idle' = {}
      /\ refresh' = [left |-> 0, done |-> FALSE, behind |-> {}] /\ shared' = {}
  BY DEF Exit
<1>6. runs' \in [Convs -> Jobs \cup {Nobody}] /\ idle' \subseteq Convs /\ refresh' \in Refreshes
  BY <1>5 DEF Refreshes
<1>7. {d \in Convs : runs'[d] # Nobody} = {}
  BY <1>5
<1>8. IdleCounted'
  BY <1>5, <1>7, FS_EmptySet DEF IdleCounted
<1>9. UNCHANGED <<task, wire, marking, outcome, limit, stopped, ran, swept>>
  BY DEF Exit
<1>. QED
  BY <1>1, <1>2, <1>3, <1>5, <1>6, <1>8, <1>9 DEF TypeOK

LEMMA TypeStep == TypeInv /\ [Next]_vars => TypeInv'
<1>. SUFFICES ASSUME TypeInv, [Next]_vars PROVE TypeInv'
  OBVIOUS
<1>1. CASE Web
  BY <1>1, WebTypes
<1>2. CASE HandleCommand
  BY <1>2, HandlerTypes
<1>3. ASSUME NEW j \in Jobs, AgentTurn(j) \/ PreloadFails(j) \/ AddFails(j) \/ JobTimesOut(j) \/ OnFailed(j)
      PROVE TypeInv'
  BY <1>3, JobTypes
<1>4. CASE ResumeWorker
  <2>1. IdleCounted'
    BY <1>4, RegistryKeeps DEF ResumeWorker, registryVars, TypeInv
  <2>. QED
    BY <1>4, <2>1 DEF ResumeWorker, registryVars, TypeInv, TypeOK
<1>5. CASE Pause
  <2>1. IdleCounted'
    BY <1>5, RegistryKeeps DEF Pause, registryVars, TypeInv
  <2>2. counts' \in [Bounds -> Nat]
    <3>1. "pauses" \in Bounds /\ Use("pauses", MaxPauses)
      BY <1>5 DEF Pause, Bounds
    <3>. QED
      BY <3>1, UseCounts DEF TypeInv, TypeOK
  <2>. QED
    BY <1>5, <2>1, <2>2 DEF Pause, registryVars, TypeInv, TypeOK
<1>6. CASE Resume
  <2>1. IdleCounted'
    BY <1>6, RegistryKeeps DEF Resume, registryVars, TypeInv
  <2>. QED
    BY <1>6, <2>1 DEF Resume, registryVars, TypeInv, TypeOK
<1>7. ASSUME NEW n \in Limits, SetConcurrency(n) PROVE TypeInv'
  <2>1. IdleCounted'
    BY <1>7, RegistryKeeps DEF SetConcurrency, registryVars, TypeInv
  <2>2. counts' \in [Bounds -> Nat]
    <3>1. "resizes" \in Bounds /\ Use("resizes", MaxResizes)
      BY <1>7 DEF SetConcurrency, Bounds
    <3>. QED
      BY <3>1, UseCounts DEF TypeInv, TypeOK
  <2>. QED
    BY <1>7, <2>1, <2>2 DEF SetConcurrency, registryVars, TypeInv, TypeOK
<1>8. ASSUME NEW c \in Convs \cup {Nobody}, AddMount(c) PROVE TypeInv'
  <2>1. counts' \in [Bounds -> Nat]
    <3>1. "mounts" \in Bounds /\ Use("mounts", MaxMounts)
      BY <1>8 DEF AddMount, Bounds
    <3>. QED
      BY <3>1, UseCounts DEF TypeInv, TypeOK
  <2>2. IdleCounted' /\ idle' \subseteq Convs /\ refresh' \in Refreshes
    BY <1>8, AddMountCounts DEF TypeInv
  <2>. QED
    BY <1>8, <2>1, <2>2 DEF AddMount, dispatcherVars, TypeInv, TypeOK
<1>9. CASE Exit
  BY <1>9, ExitTypes
<1>10. CASE UNCHANGED vars
  BY <1>10, RegistryKeeps DEF vars, dispatcherVars, registryVars, TypeInv, TypeOK
<1>. QED
  BY <1>1, <1>2, <1>3, <1>4, <1>5, <1>6, <1>7, <1>8, <1>9, <1>10 DEF Next

LEMMA TypeInvariant == Spec => []TypeInv
BY InitTypes, TypeStep, PTL DEF Spec

\* Tasks, commands, the phases of jobs and the registry always have their types, and the
\* countdown of a mount refresh never falls below zero: it counts the idle callbacks still
\* registered.
THEOREM TurnsTyped == Spec => []TypeOK
BY TypeInvariant, PTL DEF TypeInv

-----------------------------------------------------------------------------
(* One run per chat, and what its task says.                                 *)

\* A chat has one command, and nothing else happens to it while that is on its way.
ChatsOnTheWire ==
    \A i, k \in 1..Len(wire) :
        wire[i].kind = "chat" =>
            /\ phase[wire[i].job] = "wire"
            /\ wire[k].kind = "chat" /\ wire[k].job = wire[i].job => k = i

\* A job that may still come to its program never had it started.
NotYetRun ==
    \A j \in Jobs :
        (\/ phase[j] \in {"none", "wire", "preload", "adding", "starting", "preparing"}
         \/ phase[j] = "waiting" /\ j \in pending)
        => j \notin ran

\* A completed task is that of a job that is over.
CompletedIsOver ==
    \A j \in Jobs : task[j] = "completed" =>
        phase[j] = "gone" /\ outcome[j] \in {"completed", "leftover"}

TurnInv == ChatsOnTheWire /\ NotYetRun /\ CompletedIsOver

LEMMA InitTurns == Init => TurnInv
BY DEF Init, TurnInv, ChatsOnTheWire, NotYetRun, CompletedIsOver

\* Steps that leave the wire, the phases of chats on their way and the tasks' outcomes.
LEMMA WireKept ==
  ASSUME ChatsOnTheWire, wire' = wire,
         \A j \in Jobs : phase[j] = "wire" => phase'[j] = "wire", TypeOK
  PROVE  ChatsOnTheWire'
<1>1. \A i \in 1..Len(wire) : wire[i] \in Commands
  BY LenProperties DEF TypeOK
<1>. QED
  BY <1>1, CommandKinds DEF ChatsOnTheWire

\* A chat is sent.
LEMMA SendTurns ==
  ASSUME TypeOK, TurnInv, NEW j \in Jobs, SendChat(j)
  PROVE  TurnInv'
<1>1. /\ phase[j] = "none" /\ phase' = [phase EXCEPT ![j] = "wire"]
      /\ task' = [task EXCEPT ![j] = "planned"]
      /\ wire' = Append(wire, ChatCommand(j))
      /\ pending' = pending /\ ran' = ran /\ outcome' = outcome
  BY DEF SendChat, dispatcherVars, registryVars
<1>2. NotYetRun' /\ CompletedIsOver'
  BY <1>1 DEF TurnInv, NotYetRun, CompletedIsOver, TypeOK
<1>3. /\ Len(wire') = Len(wire) + 1 /\ Len(wire) \in Nat
      /\ \A k \in 1..(Len(wire) + 1) :
           wire'[k] = IF k = Len(wire) + 1 THEN ChatCommand(j) ELSE wire[k]
  BY <1>1, Appended, CommandKinds, LenProperties DEF TypeOK
<1>4. \A i \in 1..Len(wire) : wire[i].kind = "chat" => wire[i].job \in Jobs \ {j}
  <2>1. \A i \in 1..Len(wire) : wire[i] \in Commands
    BY LenProperties DEF TypeOK
  <2>. QED
    BY <1>1, <2>1, CommandKinds DEF TurnInv, ChatsOnTheWire
<1>5. ChatsOnTheWire'
  <2>. SUFFICES ASSUME NEW i \in 1..(Len(wire) + 1), NEW k \in 1..(Len(wire) + 1), wire'[i].kind = "chat"
                PROVE  /\ phase'[wire'[i].job] = "wire"
                       /\ wire'[k].kind = "chat" /\ wire'[k].job = wire'[i].job => k = i
    BY <1>3 DEF ChatsOnTheWire
  <2>1. CASE i = Len(wire) + 1
    <3>1. wire'[i].job = j
      BY <1>3, <2>1, CommandKinds
    <3>2. k # i => wire'[k] = wire[k] /\ k \in 1..Len(wire)
      BY <1>3, <2>1
    <3>. QED
      BY <1>1, <1>4, <3>1, <3>2 DEF TypeOK
  <2>2. CASE i # Len(wire) + 1
    <3>1. i \in 1..Len(wire) /\ wire'[i] = wire[i]
      BY <1>3, <2>2
    <3>2. phase'[wire'[i].job] = "wire"
      BY <1>1, <1>4, <3>1 DEF TypeOK, TurnInv, ChatsOnTheWire
    <3>3. CASE k = Len(wire) + 1
      BY <1>3, <1>4, <3>1, <3>2, <3>3, CommandKinds
    <3>4. CASE k # Len(wire) + 1
      <4>1. k \in 1..Len(wire) /\ wire'[k] = wire[k]
        BY <1>3, <3>4
      <4>. QED
        BY <3>1, <3>2, <4>1 DEF TurnInv, ChatsOnTheWire
    <3>. QED
      BY <3>3, <3>4
  <2>. QED
    BY <2>1, <2>2
<1>. QED
  BY <1>2, <1>5 DEF TurnInv

\* A command that is no chat joins the wire.
LEMMA StopsOnTheWire ==
  ASSUME TypeOK, ChatsOnTheWire, UNCHANGED phase,
         NEW e \in Commands, e.kind # "chat", wire' = Append(wire, e)
  PROVE  ChatsOnTheWire'
<1>1. /\ Len(wire') = Len(wire) + 1 /\ Len(wire) \in Nat
      /\ \A k \in 1..(Len(wire) + 1) : wire'[k] = IF k = Len(wire) + 1 THEN e ELSE wire[k]
  BY Appended, LenProperties DEF TypeOK
<1>. SUFFICES ASSUME NEW i \in 1..(Len(wire) + 1), NEW k \in 1..(Len(wire) + 1), wire'[i].kind = "chat"
              PROVE  /\ phase'[wire'[i].job] = "wire"
                     /\ wire'[k].kind = "chat" /\ wire'[k].job = wire'[i].job => k = i
  BY <1>1 DEF ChatsOnTheWire
<1>2. i \in 1..Len(wire) /\ wire'[i] = wire[i]
  BY <1>1
<1>3. wire'[k].kind = "chat" => k \in 1..Len(wire) /\ wire'[k] = wire[k]
  BY <1>1
<1>. QED
  BY <1>2, <1>3 DEF ChatsOnTheWire

\* The chat at an index is handed to its handler.
LEMMA StartTurns ==
  ASSUME TypeOK, TurnInv, HandleCommand
  PROVE  TurnInv'
<1>1. PICK i \in 1..Len(wire) :
            /\ wire[i] \in Commands
            /\ Len(wire') = Len(wire) - 1
            /\ \A k \in 1..(Len(wire) - 1) : wire'[k] = IF k < i THEN wire[k] ELSE wire[k + 1]
            /\ StartChat(i) \/ StopConversation(i) \/ StopAll(i)
  BY Handled
<1>2. Len(wire) \in Nat /\ \A k \in 1..Len(wire) : wire[k] \in Commands
  BY LenProperties DEF TypeOK
<1>3. UNCHANGED <<task, outcome, ran>> /\ pending' \subseteq pending
  BY <1>1, CancelShrinks DEF StartChat, StopConversation, StopAll, dispatcherVars, registryVars
<1>4. \/ UNCHANGED phase /\ wire[i].kind # "chat"
      \/ /\ phase[wire[i].job] = "wire" /\ wire[i].kind = "chat" /\ wire[i].job \in Jobs
         /\ phase' = [phase EXCEPT ![wire[i].job] = "preload"]
  BY <1>1, CommandKinds DEF StartChat, StopConversation, StopAll, TurnInv, ChatsOnTheWire
<1>5. \A j \in Jobs : phase'[j] = phase[j] \/ (phase[j] = "wire" /\ phase'[j] = "preload")
  BY <1>4 DEF TypeOK
<1>6. NotYetRun'
  BY <1>3, <1>5 DEF TurnInv, NotYetRun
<1>7. CompletedIsOver'
  BY <1>3, <1>5 DEF TurnInv, CompletedIsOver
<1>8. ChatsOnTheWire'
  <2>. SUFFICES ASSUME NEW a \in 1..(Len(wire) - 1), NEW b \in 1..(Len(wire) - 1), wire'[a].kind = "chat"
                PROVE  /\ phase'[wire'[a].job] = "wire"
                       /\ wire'[b].kind = "chat" /\ wire'[b].job = wire'[a].job => b = a
    BY <1>1 DEF ChatsOnTheWire
  <2>. DEFINE m == IF a < i THEN a ELSE a + 1
              n == IF b < i THEN b ELSE b + 1
  <2>1. /\ m \in 1..Len(wire) /\ m # i /\ wire'[a] = wire[m]
        /\ n \in 1..Len(wire) /\ n # i /\ wire'[b] = wire[n]
        /\ m = n => a = b
    BY <1>1, <1>2
  <2>. HIDE DEF m, n
  <2>2. phase[wire[m].job] = "wire" /\ (wire[n].kind = "chat" /\ wire[n].job = wire[m].job => n = m)
    BY <2>1 DEF TurnInv, ChatsOnTheWire
  <2>3. wire[m].job \in Jobs /\ (wire[i].kind = "chat" => wire[i].job # wire[m].job)
    BY <1>2, <2>1, CommandKinds DEF TurnInv, ChatsOnTheWire
  <2>4. phase'[wire[m].job] = "wire"
    BY <1>4, <2>2, <2>3 DEF TypeOK
  <2>. QED
    BY <2>1, <2>2, <2>4
<1>. QED
  BY <1>6, <1>7, <1>8 DEF TurnInv

\* Steps of one job that is past the wire.
LEMMA JobKeepsWire ==
  ASSUME TypeOK, TurnInv, NEW j \in Jobs, phase[j] # "wire", wire' = wire,
         \A k \in Jobs \ {j} : phase'[k] = phase[k]
  PROVE  ChatsOnTheWire'
BY WireKept DEF TurnInv

LEMMA JobTurns ==
  ASSUME TypeOK, TurnInv, NEW j \in Jobs,
         AgentTurn(j) \/ PreloadFails(j) \/ AddFails(j) \/ JobTimesOut(j) \/ OnFailed(j)
  PROVE  TurnInv'
<1>1. CASE EnqueueUserChat(j)
  <2>1. ChatsOnTheWire'
    BY <1>1, JobKeepsWire DEF EnqueueUserChat, TypeOK
  <2>2. NotYetRun' /\ CompletedIsOver'
    BY <1>1 DEF EnqueueUserChat, registryVars, TurnInv, NotYetRun, CompletedIsOver, TypeOK
  <2>. QED
    BY <2>1, <2>2 DEF TurnInv
<1>2. CASE PreloadFails(j)
  <2>1. ChatsOnTheWire'
    BY <1>2, JobKeepsWire DEF PreloadFails, TypeOK
  <2>2. NotYetRun' /\ CompletedIsOver'
    BY <1>2 DEF PreloadFails, registryVars, dispatcherVars, TurnInv, NotYetRun, CompletedIsOver, TypeOK
  <2>. QED
    BY <2>1, <2>2 DEF TurnInv
<1>3. CASE Added(j)
  <2>1. ChatsOnTheWire'
    BY <1>3, JobKeepsWire DEF Added, TypeOK
  <2>2. NotYetRun' /\ CompletedIsOver'
    BY <1>3 DEF Added, registryVars, TurnInv, NotYetRun, CompletedIsOver, TypeOK
  <2>. QED
    BY <2>1, <2>2 DEF TurnInv
<1>4. CASE AddFails(j)
  <2>1. ChatsOnTheWire'
    BY <1>4, JobKeepsWire DEF AddFails, TypeOK
  <2>2. NotYetRun' /\ CompletedIsOver'
    BY <1>4 DEF AddFails, registryVars, TurnInv, NotYetRun, CompletedIsOver, TypeOK
  <2>. QED
    BY <2>1, <2>2 DEF TurnInv
<1>5. CASE RunJob(j)
  <2>1. ChatsOnTheWire'
    BY <1>5, JobKeepsWire DEF RunJob, TypeOK
  <2>2. task[j] # "completed"
    BY <1>5 DEF RunJob, TurnInv, CompletedIsOver
  <2>3. CompletedIsOver'
    BY <1>5, <2>2 DEF RunJob, TurnInv, CompletedIsOver, TypeOK
  <2>4. NotYetRun'
    BY <1>5 DEF RunJob, registryVars, TurnInv, NotYetRun, TypeOK
  <2>. QED
    BY <2>1, <2>3, <2>4 DEF TurnInv
<1>6. CASE JobStarted(j)
  <2>1. ChatsOnTheWire'
    BY <1>6, JobKeepsWire DEF JobStarted, TypeOK
  <2>2. task[j] # "completed" /\ \A k \in Jobs : task'[k] = "completed" => task[k] = "completed"
    <3>1. \A k \in Jobs : task'[k] \in {task[k], "running"}
      BY <1>6, SettledTasks, StatusNames DEF JobStarted, TypeOK
    <3>. QED
      BY <1>6, <3>1 DEF JobStarted, TurnInv, CompletedIsOver
  <2>3. CompletedIsOver'
    BY <1>6, <2>2 DEF JobStarted, TurnInv, CompletedIsOver, TypeOK
  <2>4. NotYetRun'
    BY <1>6 DEF JobStarted, registryVars, dispatcherVars, TurnInv, NotYetRun, TypeOK
  <2>. QED
    BY <2>1, <2>3, <2>4 DEF TurnInv
<1>7. CASE Register(j)
  <2>1. ChatsOnTheWire'
    BY <1>7, JobKeepsWire DEF Register, TypeOK
  <2>2. NotYetRun' /\ CompletedIsOver'
    BY <1>7 DEF Register, dispatcherVars, TurnInv, NotYetRun, CompletedIsOver, TypeOK
  <2>. QED
    BY <2>1, <2>2 DEF TurnInv
<1>8. ASSUME NEW r \in {"completed", "failed", "cancelled"}, ReturnReply(j, r) PROVE TurnInv'
  <2>1. ChatsOnTheWire'
    BY <1>8, JobKeepsWire DEF ReturnReply, TypeOK
  <2>2. /\ phase[j] = "running" /\ phase' = [phase EXCEPT ![j] = "returning"]
        /\ outcome' = [outcome EXCEPT ![j] = r] /\ UNCHANGED <<ran, pending, task>>
    BY <1>8 DEF ReturnReply, Clear, dispatcherVars
  <2>3. NotYetRun' /\ CompletedIsOver'
    BY <2>2 DEF TurnInv, NotYetRun, CompletedIsOver, TypeOK
  <2>. QED
    BY <2>1, <2>3 DEF TurnInv
<1>9. CASE OnCompleted(j)
  <2>1. ChatsOnTheWire'
    BY <1>9, JobKeepsWire DEF OnCompleted, TypeOK
  <2>2. TaskResult(j) \in Statuses /\ (TaskResult(j) = "completed" => outcome[j] \in {"completed", "leftover"})
    <3>1. outcome[j] \in Outcomes
      BY DEF TypeOK
    <3>. QED
      BY <3>1, StatusNames DEF TaskResult, Outcomes
  <2>3. \A k \in Jobs : task'[k] = task[k] \/ (k = j /\ task'[k] = TaskResult(j))
    BY <1>9 DEF OnCompleted, Settled, TypeOK
  <2>4. phase' = [phase EXCEPT ![j] = "gone"] /\ UNCHANGED <<outcome, ran>> /\ pending' = pending \ {j}
    BY <1>9 DEF OnCompleted, registryVars
  <2>5. task[j] # "completed"
    BY <1>9 DEF OnCompleted, TurnInv, CompletedIsOver
  <2>6. CompletedIsOver'
    BY <2>2, <2>3, <2>4, <2>5 DEF TurnInv, CompletedIsOver, TypeOK
  <2>7. NotYetRun'
    BY <2>4 DEF TurnInv, NotYetRun, TypeOK
  <2>. QED
    BY <2>1, <2>6, <2>7 DEF TurnInv
<1>10. CASE OnFailed(j)
  <2>1. ChatsOnTheWire'
    BY <1>10, JobKeepsWire DEF OnFailed, TypeOK
  <2>2. task[j] # "completed" /\ \A k \in Jobs : task'[k] = "completed" => task[k] = "completed"
    <3>1. \A k \in Jobs : task'[k] \in {task[k], "failed"}
      BY <1>10, SettledTasks, StatusNames DEF OnFailed, TypeOK
    <3>. QED
      BY <1>10, <3>1 DEF OnFailed, TurnInv, CompletedIsOver
  <2>3. CompletedIsOver'
    BY <1>10, <2>2 DEF OnFailed, TurnInv, CompletedIsOver, TypeOK
  <2>4. NotYetRun'
    BY <1>10 DEF OnFailed, registryVars, TurnInv, NotYetRun, TypeOK
  <2>. QED
    BY <2>1, <2>3, <2>4 DEF TurnInv
<1>11. CASE JobTimesOut(j)
  <2>1. UNCHANGED <<wire, phase, outcome, ran>> /\ pending' \subseteq pending
    BY <1>11 DEF JobTimesOut, registryVars
  <2>2. \A k \in Jobs : task'[k] = "completed" => task[k] = "completed"
    <3>1. \A k \in Jobs : task'[k] \in {task[k], "failed"}
      BY <1>11, SettledTasks, StatusNames DEF JobTimesOut, TypeOK
    <3>. QED
      BY <3>1
  <2>. QED
    BY <2>1, <2>2 DEF TurnInv, ChatsOnTheWire, NotYetRun, CompletedIsOver
<1>. QED
  BY <1>1, <1>2, <1>3, <1>4, <1>5, <1>6, <1>7, <1>8, <1>9, <1>10, <1>11 DEF AgentTurn

LEMMA WebTurns == TypeOK /\ TurnInv /\ Web => TurnInv'
<1>. SUFFICES ASSUME TypeOK, TurnInv, Web PROVE TurnInv'
  OBVIOUS
<1>1. ASSUME NEW j \in Jobs, SendChat(j) PROVE TurnInv'
  BY <1>1, SendTurns
<1>2. ASSUME NEW j \in Jobs, SendFails(j) PROVE TurnInv'
  <2>1. ChatsOnTheWire'
    BY <1>2, JobKeepsWire DEF SendFails, TypeOK
  <2>2. NotYetRun' /\ CompletedIsOver'
    BY <1>2 DEF SendFails, dispatcherVars, registryVars, TurnInv, NotYetRun, CompletedIsOver, TypeOK
  <2>. QED
    BY <2>1, <2>2 DEF TurnInv
<1>3. ASSUME NEW c \in Convs, NEW only \in Jobs \cup {Nobody}, RequestStop(c, only) PROVE TurnInv'
  <2>1. UNCHANGED <<task, phase, outcome, pending, ran>> /\ wire' = Append(wire, StopCommand(c, only))
    BY <1>3 DEF RequestStop, dispatcherVars, registryVars
  <2>2. ChatsOnTheWire'
    BY <2>1, StopsOnTheWire, CommandKinds DEF TurnInv
  <2>. QED
    BY <2>1, <2>2 DEF TurnInv, NotYetRun, CompletedIsOver
<1>4. ASSUME NEW m \in marking, MarkCancelled(m) PROVE TurnInv'
  <2>1. UNCHANGED <<wire, phase, outcome, pending, ran>>
    BY <1>4 DEF MarkCancelled, dispatcherVars, registryVars
  <2>2. \A k \in Jobs : task'[k] = "completed" => task[k] = "completed"
    <3>1. \A k \in Jobs : task'[k] \in {task[k], "cancelled"}
      BY <1>4, SettledTasks, StatusNames DEF MarkCancelled, TypeOK
    <3>. QED
      BY <3>1
  <2>. QED
    BY <2>1, <2>2 DEF TurnInv, ChatsOnTheWire, NotYetRun, CompletedIsOver
<1>5. CASE RequestStopAll
  <2>1. UNCHANGED <<task, phase, outcome, pending, ran>> /\ wire' = Append(wire, StopAllCommand)
    BY <1>5 DEF RequestStopAll, dispatcherVars, registryVars
  <2>2. ChatsOnTheWire'
    BY <2>1, StopsOnTheWire, CommandKinds DEF TurnInv
  <2>. QED
    BY <2>1, <2>2 DEF TurnInv, NotYetRun, CompletedIsOver
<1>6. ASSUME NEW j \in Jobs, SubmitTimesOut(j) PROVE TurnInv'
  <2>1. UNCHANGED <<wire, phase, outcome, pending, ran>>
    BY <1>6 DEF SubmitTimesOut, dispatcherVars, registryVars
  <2>2. \A k \in Jobs : task'[k] = "completed" => task[k] = "completed"
    <3>1. \A k \in Jobs : task'[k] \in {task[k], "failed"}
      BY <1>6, SettledTasks, StatusNames DEF SubmitTimesOut, TypeOK
    <3>. QED
      BY <3>1
  <2>. QED
    BY <2>1, <2>2 DEF TurnInv, ChatsOnTheWire, NotYetRun, CompletedIsOver
<1>. QED
  BY <1>1, <1>2, <1>3, <1>4, <1>5, <1>6 DEF Web

LEMMA TurnStep == TypeOK /\ TurnInv /\ [Next]_vars => TurnInv'
<1>. SUFFICES ASSUME TypeOK, TurnInv, [Next]_vars PROVE TurnInv'
  OBVIOUS
<1>1. CASE Web
  BY <1>1, WebTurns
<1>2. CASE HandleCommand
  BY <1>2, StartTurns
<1>3. ASSUME NEW j \in Jobs, AgentTurn(j) \/ PreloadFails(j) \/ AddFails(j) \/ JobTimesOut(j) \/ OnFailed(j)
      PROVE TurnInv'
  BY <1>3, JobTurns
<1>4. ASSUME UNCHANGED <<task, wire, phase, outcome, pending, ran>> PROVE TurnInv'
  BY <1>4 DEF TurnInv, ChatsOnTheWire, NotYetRun, CompletedIsOver
<1>5. CASE ResumeWorker \/ Pause \/ Resume
  BY <1>4, <1>5 DEF ResumeWorker, Pause, Resume, registryVars
<1>6. ASSUME NEW n \in Limits, SetConcurrency(n) PROVE TurnInv'
  BY <1>4, <1>6 DEF SetConcurrency, registryVars
<1>7. ASSUME NEW c \in Convs \cup {Nobody}, AddMount(c) PROVE TurnInv'
  BY <1>4, <1>7 DEF AddMount, dispatcherVars
<1>8. CASE Exit
  <2>1. UNCHANGED <<task, wire, outcome, ran>> /\ pending' = {}
    BY <1>8 DEF Exit
  <2>2. \A j \in Jobs :
          \/ phase'[j] = phase[j]
          \/ phase[j] \in {"preload", "adding"} \cup InWorker /\ phase'[j] \in {"waiting", "lost"}
    BY <1>8 DEF Exit
  <2>3. ChatsOnTheWire'
    BY <2>1, <2>2, WireKept DEF TurnInv, InWorker
  <2>4. NotYetRun' /\ CompletedIsOver'
    BY <2>1, <2>2 DEF TurnInv, NotYetRun, CompletedIsOver, InWorker
  <2>. QED
    BY <2>3, <2>4 DEF TurnInv
<1>9. CASE UNCHANGED vars
  BY <1>4, <1>9 DEF vars, dispatcherVars, registryVars
<1>. QED
  BY <1>1, <1>2, <1>3, <1>5, <1>6, <1>7, <1>8, <1>9 DEF Next

LEMMA TurnInvariant == Spec => []TurnInv
BY InitTurns, TurnStep, TurnsTyped, PTL DEF Spec

\* A task says completed only when the program of its chat completed, or when the job was
\* dropped as a leftover: neither a stop, nor a failure, nor a late event says so.
THEOREM CompletedIsAnswered == Spec => []CompletedMeansAnswered
<1>1. TurnInv => CompletedMeansAnswered
  BY DEF TurnInv, CompletedIsOver, CompletedMeansAnswered
<1>. QED
  BY <1>1, TurnInvariant, PTL

\* A program is started at most once for a chat, over all exits of the agent worker, all
\* entries bunqueue recovers and all its retries.
THEOREM StartsOnce == Spec => RunsOnce
<1>1. TurnInv /\ [Next]_vars =>
        [\A j \in Jobs : phase[j] = "preparing" /\ phase'[j] = "running" => j \notin ran]_vars
  BY DEF TurnInv, NotYetRun
<1>. QED
  BY <1>1, TurnInvariant, PTL DEF Spec, RunsOnce

-----------------------------------------------------------------------------
(* The gate and the pauses.                                                  *)

\* Steps that leave the pause alone and end no enqueue.
LEMMA PauseKept ==
  ASSUME PauseIsOwed, UNCHANGED <<paused, blocked, resumeDue>>,
         \A k \in Jobs : phase[k] = "adding" => phase'[k] = "adding"
  PROVE  PauseIsOwed'
BY DEF PauseIsOwed

LEMMA PauseStep == TypeOK /\ TurnInv /\ PauseIsOwed /\ [Next]_vars => PauseIsOwed'
<1>. SUFFICES ASSUME TypeOK, TurnInv, PauseIsOwed, [Next]_vars PROVE PauseIsOwed'
  OBVIOUS
<1>1. CASE Web
  <2>1. UNCHANGED <<paused, blocked, resumeDue>>
    BY <1>1 DEF Web, SendChat, SendFails, SubmitTimesOut, RequestStop, MarkCancelled, RequestStopAll, dispatcherVars
  <2>2. \A k \in Jobs : phase[k] = "adding" => phase'[k] = "adding"
    BY <1>1 DEF Web, SendChat, SendFails, SubmitTimesOut, RequestStop, MarkCancelled, RequestStopAll, TypeOK
  <2>. QED
    BY <2>1, <2>2, PauseKept
<1>2. CASE HandleCommand
  <2>1. PICK i \in 1..Len(wire) : wire[i] \in Commands /\ (StartChat(i) \/ StopConversation(i) \/ StopAll(i))
    BY <1>2, Handled
  <2>2. CASE StopConversation(i) \/ StopAll(i)
    BY <2>2, PauseKept DEF StopConversation, StopAll
  <2>3. CASE StartChat(i)
    <3>1. phase' = [phase EXCEPT ![wire[i].job] = "preload"]
      BY <2>3 DEF StartChat
    <3>2. UNCHANGED <<paused, blocked, resumeDue>>
      BY <2>3 DEF StartChat, dispatcherVars
    <3>3. phase[wire[i].job] = "wire"
      BY <2>3 DEF StartChat, TurnInv, ChatsOnTheWire
    <3>. QED
      BY <3>1, <3>2, <3>3, PauseKept DEF TypeOK
  <2>. QED
    BY <2>1, <2>2, <2>3
<1>3. ASSUME NEW j \in Jobs, EnqueueUserChat(j) PROVE PauseIsOwed'
  BY <1>3 DEF EnqueueUserChat, PauseIsOwed, TypeOK
<1>4. ASSUME NEW j \in Jobs, Added(j) PROVE PauseIsOwed'
  BY <1>4 DEF Added, ResumeWorkerSoon, PauseIsOwed, TypeOK
<1>5. ASSUME NEW j \in Jobs, AddFails(j) PROVE PauseIsOwed'
  BY <1>5 DEF AddFails, ResumeWorkerSoon, PauseIsOwed, TypeOK
<1>6. ASSUME NEW j \in Jobs,
             \/ RunJob(j) \/ JobStarted(j) \/ Register(j) \/ PreloadFails(j)
             \/ OnCompleted(j) \/ OnFailed(j) \/ JobTimesOut(j)
             \/ \E r \in {"completed", "failed", "cancelled"} : ReturnReply(j, r)
      PROVE PauseIsOwed'
  <2>1. UNCHANGED <<paused, blocked, resumeDue>>
    BY <1>6 DEF RunJob, JobStarted, Register, PreloadFails, OnCompleted, OnFailed, JobTimesOut, ReturnReply,
                dispatcherVars
  <2>2. phase[j] # "adding" /\ \A k \in Jobs \ {j} : phase'[k] = phase[k]
    BY <1>6 DEF RunJob, JobStarted, Register, PreloadFails, OnCompleted, OnFailed, JobTimesOut, ReturnReply, TypeOK
  <2>. QED
    BY <2>1, <2>2, PauseKept
<1>7. CASE ResumeWorker \/ Pause \/ Resume
  <2>1. CASE ResumeWorker
    <3>1. (paused' <=> paused /\ blocked) /\ (blocked' <=> blocked)
      BY <2>1 DEF ResumeWorker, TypeOK
    <3>. QED
      BY <3>1 DEF PauseIsOwed
  <2>. QED
    BY <1>7, <2>1 DEF Pause, Resume, PauseIsOwed
<1>8. ASSUME NEW n \in Limits, SetConcurrency(n) PROVE PauseIsOwed'
  BY <1>8, PauseKept DEF SetConcurrency
<1>9. ASSUME NEW c \in Convs \cup {Nobody}, AddMount(c) PROVE PauseIsOwed'
  BY <1>9, PauseKept DEF AddMount, dispatcherVars
<1>10. CASE Exit
  BY <1>10 DEF Exit, PauseIsOwed
<1>11. CASE UNCHANGED vars
  BY <1>11, PauseKept DEF vars, dispatcherVars
<1>. QED
  BY <1>1, <1>2, <1>3, <1>4, <1>5, <1>6, <1>7, <1>8, <1>9, <1>10, <1>11 DEF Next, AgentTurn

\* A worker that enqueueUserChat paused is always resumed: an enqueue is still to end, its
\* resume is scheduled, or the gate is closed; and a closed gate is not opened by the
\* resume an enqueue had scheduled before.
THEOREM PausesEnd == Spec => []PauseIsOwed
<1>1. Init => PauseIsOwed
  BY DEF Init, PauseIsOwed
<1>. QED
  BY <1>1, TurnsTyped, TurnInvariant, PauseStep, PTL DEF Spec

-----------------------------------------------------------------------------
(* The registry of active runs has one place for each conversation, and nothing in the *)
(* agent refuses a second turn of one: what the registry then forgets is in "shared".   *)

\* Two programs of one conversation run at a time only in a shared one.
OneUnlessShared ==
    \A j, k \in Jobs :
        phase[j] = "running" /\ phase[k] = "running" /\ ConvOf[j] = ConvOf[k] /\ j # k
            => ConvOf[j] \in shared

\* A running program can be reached through the registry, or was stopped already, or its
\* conversation is shared.
Registered ==
    \A j \in Jobs : phase[j] = "running" =>
        j \in ran /\ (runs[ConvOf[j]] = j \/ j \in stopped \/ ConvOf[j] \in shared)

\* The runs that are in the way of a refresh had begun when it was scheduled, and those
\* that still run are the ones whose idle callbacks are awaited, but for those of shared
\* conversations.
Awaits(j) == phase[j] = "running" /\ ConvOf[j] \notin shared
Awaited ==
    /\ refresh.behind \subseteq ran
    /\ \A j \in refresh.behind : Awaits(j) /\ idle # {} => ConvOf[j] \in idle
    /\ refresh.done => \A j \in refresh.behind : ~Awaits(j)

RunInv == OneUnlessShared /\ Registered /\ Awaited

LEMMA InitRuns == Init => RunInv
BY DEF Init, RunInv, OneUnlessShared, Registered, Awaited

\* Steps that start no program and leave the registry and the refresh alone.
LEMMA RunsKept ==
  ASSUME RunInv, UNCHANGED <<runs, stopped, ran, idle, refresh, shared>>,
         \A j \in Jobs : phase'[j] = "running" => phase[j] = "running", TypeOK
  PROVE  RunInv'
<1>1. refresh.behind \subseteq Jobs
  BY DEF TypeOK, Refreshes
<1>. QED
  BY <1>1 DEF RunInv, OneUnlessShared, Registered, Awaited, Awaits

LEMMA RegisterRuns ==
  ASSUME TypeOK, TurnInv, RunInv, NEW j \in Jobs, Register(j)
  PROVE  RunInv'
<1>1. /\ phase[j] = "preparing" /\ phase' = [phase EXCEPT ![j] = "running"]
      /\ runs' = [runs EXCEPT ![ConvOf[j]] = j] /\ ran' = ran \cup {j}
      /\ shared' = IF \E k \in InConv(ConvOf[j]) : phase[k] = "running"
                   THEN shared \cup {ConvOf[j]} ELSE shared \ {ConvOf[j]}
      /\ UNCHANGED <<stopped, idle, refresh>>
  BY DEF Register
<1>2. j \notin ran /\ refresh.behind \subseteq Jobs \ {j}
  BY <1>1 DEF TurnInv, NotYetRun, RunInv, Awaited, TypeOK, Refreshes
<1>3. ConvOf[j] \in Convs /\ \A k \in Jobs : ConvOf[k] \in Convs
  BY ChatAssumption
\* A program that ran before keeps its conversation as it was, or shares it now.
<1>4. ASSUME NEW k \in Jobs, phase'[k] = "running", k # j
      PROVE  /\ phase[k] = "running"
             /\ ConvOf[k] = ConvOf[j] => ConvOf[k] \in shared'
             /\ ConvOf[k] # ConvOf[j] => (ConvOf[k] \in shared' <=> ConvOf[k] \in shared)
  BY <1>1, <1>4 DEF TypeOK, InConv
<1>5. OneUnlessShared'
  <2>. SUFFICES ASSUME NEW k \in Jobs, NEW m \in Jobs, k # m, ConvOf[k] = ConvOf[m],
                       phase'[k] = "running", phase'[m] = "running"
                PROVE  ConvOf[k] \in shared'
    BY DEF OneUnlessShared
  <2>1. CASE k = j \/ m = j
    BY <1>4, <2>1
  <2>2. CASE k # j /\ m # j
    <3>1. ConvOf[k] \in shared
      BY <1>4, <2>2 DEF RunInv, OneUnlessShared
    <3>. QED
      BY <1>4, <2>2, <3>1
  <2>. QED
    BY <2>1, <2>2
<1>6. Registered'
  <2>. SUFFICES ASSUME NEW k \in Jobs, phase'[k] = "running"
                PROVE  k \in ran' /\ (runs'[ConvOf[k]] = k \/ k \in stopped' \/ ConvOf[k] \in shared')
    BY DEF Registered
  <2>1. CASE k = j
    BY <1>1, <1>3, <2>1 DEF TypeOK
  <2>2. CASE k # j /\ ConvOf[k] = ConvOf[j]
    BY <1>1, <1>4, <2>2 DEF RunInv, Registered
  <2>3. CASE k # j /\ ConvOf[k] # ConvOf[j]
    BY <1>1, <1>3, <1>4, <2>3 DEF RunInv, Registered, TypeOK
  <2>. QED
    BY <2>1, <2>2, <2>3
<1>7. \A k \in refresh.behind : Awaits(k)' => Awaits(k)
  BY <1>2, <1>4 DEF Awaits
<1>8. Awaited'
  BY <1>1, <1>2, <1>7 DEF RunInv, Awaited
<1>. QED
  BY <1>5, <1>6, <1>8 DEF RunInv

LEMMA ReturnRuns ==
  ASSUME TypeInv, RunInv, NEW j \in Jobs, NEW r, ReturnReply(j, r)
  PROVE  RunInv'
<1>1. /\ phase[j] = "running" /\ phase' = [phase EXCEPT ![j] = "returning"]
      /\ Clear(ConvOf[j]) /\ ConvOf[j] \in Convs
  BY ChatAssumption DEF ReturnReply
<1>2. /\ idle' = idle \ {ConvOf[j]} /\ refresh'.behind = refresh.behind
      /\ refresh'.done => refresh.done \/ (ConvOf[j] \in idle /\ idle' = {})
  BY <1>1, ClearCounts DEF TypeInv
<1>3. runs' = [runs EXCEPT ![ConvOf[j]] = Nobody] /\ UNCHANGED <<stopped, ran, shared>>
  BY <1>1 DEF Clear
<1>4. ASSUME NEW k \in Jobs, phase'[k] = "running"
      PROVE  /\ k # j /\ phase[k] = "running"
             /\ ConvOf[k] \in shared \/ ConvOf[k] # ConvOf[j]
  BY <1>1, <1>4 DEF RunInv, OneUnlessShared, TypeInv, TypeOK
<1>5. OneUnlessShared'
  BY <1>3, <1>4 DEF RunInv, OneUnlessShared
<1>6. Registered'
  <2>1. \A k \in Jobs : ConvOf[k] \in Convs
    BY ChatAssumption
  <2>. QED
    BY <1>3, <1>4, <2>1 DEF RunInv, Registered, TypeInv, TypeOK
<1>7. refresh.behind \subseteq Jobs
  BY DEF TypeInv, TypeOK, Refreshes
<1>8. \A k \in refresh.behind : Awaits(k)' => Awaits(k) /\ ConvOf[k] # ConvOf[j]
  BY <1>3, <1>4, <1>7 DEF Awaits
<1>9. Awaited'
  <2>1. ASSUME NEW k \in refresh.behind, Awaits(k)', idle' # {}
        PROVE  ConvOf[k] \in idle'
    BY <1>2, <1>8, <2>1 DEF RunInv, Awaited
  <2>2. ASSUME NEW k \in refresh.behind, Awaits(k)', refresh'.done
        PROVE  FALSE
    <3>1. Awaits(k) /\ ConvOf[k] # ConvOf[j]
      BY <1>8, <2>2
    <3>2. ConvOf[j] \in idle /\ idle' = {}
      BY <1>2, <2>2, <3>1 DEF RunInv, Awaited
    <3>3. ConvOf[k] \in idle
      BY <3>1, <3>2 DEF RunInv, Awaited
    <3>. QED
      BY <1>2, <3>1, <3>2, <3>3
  <2>3. refresh'.behind \subseteq ran'
    BY <1>2, <1>3 DEF RunInv, Awaited
  <2>. QED
    BY <1>2, <2>1, <2>2, <2>3 DEF Awaited
<1>. QED
  BY <1>5, <1>6, <1>9 DEF RunInv

LEMMA HandleRuns ==
  ASSUME TypeOK, TurnInv, RunInv, HandleCommand
  PROVE  RunInv'
<1>1. PICK i \in 1..Len(wire) : /\ wire[i] \in Commands
                                /\ StartChat(i) \/ StopConversation(i) \/ StopAll(i)
  BY Handled
<1>2. CASE StartChat(i)
  <2>1. phase' = [phase EXCEPT ![wire[i].job] = "preload"]
    BY <1>2 DEF StartChat
  <2>2. \A j \in Jobs : phase'[j] = "running" => phase[j] = "running"
    BY <2>1 DEF TypeOK
  <2>. QED
    BY <1>2, <2>2, RunsKept DEF StartChat, registryVars
<1>3. CASE StopConversation(i)
  <2>1. UNCHANGED <<phase, runs, ran, idle, refresh, shared>> /\ stopped \subseteq stopped'
    BY <1>3 DEF StopConversation
  <2>. QED
    BY <2>1 DEF RunInv, OneUnlessShared, Registered, Awaited, Awaits
<1>4. CASE StopAll(i)
  <2>1. /\ UNCHANGED <<phase, ran, refresh, shared>> /\ idle' = {}
        /\ stopped' = stopped \cup ({runs[c] : c \in Convs} \ {Nobody})
    BY <1>4 DEF StopAll
  <2>2. Registered'
    BY <2>1, ChatAssumption DEF RunInv, Registered
  <2>3. OneUnlessShared' /\ Awaited'
    BY <2>1 DEF RunInv, OneUnlessShared, Awaited, Awaits
  <2>. QED
    BY <2>2, <2>3 DEF RunInv
<1>. QED
  BY <1>1, <1>2, <1>3, <1>4

LEMMA MountRuns ==
  ASSUME TypeOK, RunInv, NEW c \in Convs \cup {Nobody}, AddMount(c)
  PROVE  RunInv'
<1>. DEFINE busy == {d \in Convs \ {c} : runs[d] # Nobody}
<1>1. /\ UNCHANGED <<phase, runs, stopped, ran, shared>> /\ idle' = busy
      /\ refresh' = [left |-> Cardinality(busy), done |-> busy = {},
                     behind |-> {j \in Jobs : phase[j] = "running" /\ ConvOf[j] \in busy}]
  BY DEF AddMount
<1>. HIDE DEF busy
<1>2. /\ refresh'.behind = {j \in Jobs : phase[j] = "running" /\ ConvOf[j] \in busy}
      /\ refresh'.done => busy = {}
  BY <1>1
<1>. QED
  BY <1>1, <1>2 DEF RunInv, OneUnlessShared, Registered, Awaited, Awaits

LEMMA RunStep == TypeInv /\ TurnInv /\ RunInv /\ [Next]_vars => RunInv'
<1>. SUFFICES ASSUME TypeInv, TurnInv, RunInv, [Next]_vars PROVE RunInv'
  OBVIOUS
<1>. USE DEF TypeInv
<1>1. CASE Web
  <2>1. UNCHANGED <<runs, stopped, ran, idle, refresh, shared>>
    BY <1>1 DEF Web, SendChat, SendFails, SubmitTimesOut, RequestStop, MarkCancelled, RequestStopAll, registryVars
  <2>2. \A k \in Jobs : phase'[k] = "running" => phase[k] = "running"
    BY <1>1 DEF Web, SendChat, SendFails, SubmitTimesOut, RequestStop, MarkCancelled, RequestStopAll, TypeOK
  <2>. QED
    BY <2>1, <2>2, RunsKept
<1>2. CASE HandleCommand
  BY <1>2, HandleRuns
<1>3. ASSUME NEW j \in Jobs, Register(j) PROVE RunInv'
  BY <1>3, RegisterRuns
<1>4. ASSUME NEW j \in Jobs, NEW r \in {"completed", "failed", "cancelled"}, ReturnReply(j, r) PROVE RunInv'
  BY <1>4, ReturnRuns
<1>5. ASSUME NEW j \in Jobs,
             \/ EnqueueUserChat(j) \/ Added(j) \/ RunJob(j) \/ JobStarted(j)
             \/ PreloadFails(j) \/ AddFails(j) \/ OnCompleted(j) \/ OnFailed(j) \/ JobTimesOut(j)
      PROVE RunInv'
  <2>1. UNCHANGED <<runs, stopped, ran, idle, refresh, shared>>
    BY <1>5 DEF EnqueueUserChat, Added, RunJob, JobStarted, PreloadFails, AddFails, OnCompleted,
                OnFailed, JobTimesOut, registryVars
  <2>2. \A k \in Jobs : phase'[k] = "running" => phase[k] = "running"
    BY <1>5 DEF EnqueueUserChat, Added, RunJob, JobStarted, PreloadFails, AddFails, OnCompleted,
                OnFailed, JobTimesOut, TypeOK
  <2>. QED
    BY <2>1, <2>2, RunsKept
<1>6. CASE ResumeWorker \/ Pause \/ Resume
  BY <1>6, RunsKept DEF ResumeWorker, Pause, Resume, registryVars
<1>7. ASSUME NEW n \in Limits, SetConcurrency(n) PROVE RunInv'
  BY <1>7, RunsKept DEF SetConcurrency, registryVars
<1>8. ASSUME NEW c \in Convs \cup {Nobody}, AddMount(c) PROVE RunInv'
  BY <1>8, MountRuns
<1>9. CASE Exit
  <2>1. \A k \in Jobs : phase'[k] # "running"
    BY <1>9 DEF Exit, InWorker, TypeOK
  <2>2. refresh' = [left |-> 0, done |-> FALSE, behind |-> {}]
    BY <1>9 DEF Exit
  <2>. QED
    BY <2>1, <2>2 DEF RunInv, OneUnlessShared, Registered, Awaited
<1>10. CASE UNCHANGED vars
  BY <1>10, RunsKept DEF vars, registryVars
<1>. QED
  BY <1>1, <1>2, <1>3, <1>4, <1>5, <1>6, <1>7, <1>8, <1>9, <1>10 DEF Next, AgentTurn

LEMMA RunInvariant == Spec => []RunInv
BY InitRuns, RunStep, TypeInvariant, TurnInvariant, PTL DEF Spec

\* Whatever turns of whatever conversations overlap, when the mounts are refreshed the runs
\* that were in the way are over, or belong to a conversation whose last program started
\* while another one ran: only there the end of one is taken for that of both.
THEOREM RefreshIsPatient == Spec => []RefreshWaitsForRuns
<1>1. TypeOK /\ RunInv => RefreshWaitsForRuns
  BY DEF RunInv, Awaited, Awaits, RefreshWaitsForRuns
<1>. QED
  BY <1>1, RunInvariant, TurnsTyped, PTL

\* The index of the command that left the wire may be unknown, the command is not.
LEMMA SameRemoved ==
  ASSUME NEW s \in Seq(Commands), NEW i \in 1..Len(s), NEW k \in 1..Len(s),
         i < k, RemoveAt(s, i) = RemoveAt(s, k)
  PROVE  s[i] = s[k]
<1>1. Len(s) \in Nat
  BY LenProperties
<1>2. \A m \in i..(k - 1) : s[m] = s[m + 1]
  <2>1. /\ \A m \in 1..(Len(s) - 1) : RemoveAt(s, i)[m] = IF m < i THEN s[m] ELSE s[m + 1]
        /\ \A m \in 1..(Len(s) - 1) : RemoveAt(s, k)[m] = IF m < k THEN s[m] ELSE s[m + 1]
    BY Removed
  <2>2. ASSUME NEW m \in i..(k - 1) PROVE s[m] = s[m + 1]
    <3>1. m \in 1..(Len(s) - 1) /\ ~(m < i) /\ m < k
      BY <1>1
    <3>2. RemoveAt(s, i)[m] = s[m + 1]
      BY <2>1, <3>1
    <3>3. RemoveAt(s, k)[m] = s[m]
      BY <2>1, <3>1
    <3>. QED
      BY <3>2, <3>3
  <2>. QED
    BY <2>2
<1>. DEFINE D == {m \in i..k : s[m] # s[i]}
<1>3. CASE D = {}
  BY <1>1, <1>3
<1>4. CASE D # {}
  <2>1. PICK m \in D : \A n \in D : m <= n
    <3>1. D \in SUBSET Nat
      BY <1>1
    <3>. HIDE DEF D
    <3>. QED
      BY <1>4, <3>1, LeastExists
  <2>2. m \in i..k /\ m # i /\ s[m] # s[i]
    BY <2>1
  <2>3. m - 1 \in i..(k - 1) /\ m - 1 \notin D
    BY <1>1, <2>1, <2>2
  <2>4. s[m - 1] = s[i] /\ s[m - 1] = s[m]
    BY <1>1, <1>2, <2>2, <2>3
  <2>. QED
    BY <2>2, <2>4
<1>. QED
  BY <1>3, <1>4

\* Nothing but the handler takes a command from the wire.
LEMMA WireSteps ==
  ASSUME TypeOK, [Next]_vars
  PROVE  HandleCommand \/ wire' = wire \/ \E e \in Commands : wire' = Append(wire, e)
<1>1. CASE Web
  BY <1>1, CommandKinds DEF Web, SendChat, SendFails, SubmitTimesOut, RequestStop, MarkCancelled, RequestStopAll
<1>2. ASSUME NEW j \in Jobs, AgentTurn(j) \/ PreloadFails(j) \/ AddFails(j) \/ JobTimesOut(j) \/ OnFailed(j)
      PROVE wire' = wire
  BY <1>2 DEF AgentTurn, EnqueueUserChat, Added, RunJob, JobStarted, Register, ReturnReply, OnCompleted,
              PreloadFails, AddFails, JobTimesOut, OnFailed
<1>3. ASSUME \/ ResumeWorker \/ Pause \/ Resume \/ Exit
             \/ \E n \in Limits : SetConcurrency(n)
             \/ \E c \in Convs \cup {Nobody} : AddMount(c)
      PROVE wire' = wire
  BY <1>3 DEF ResumeWorker, Pause, Resume, SetConcurrency, AddMount, Exit
<1>4. CASE UNCHANGED vars
  BY <1>4 DEF vars
<1>. QED
  BY <1>1, <1>2, <1>3, <1>4 DEF Next

LEMMA StopStep ==
  ASSUME TypeOK, RunInv, [Next]_vars,
         NEW i \in 1..Len(wire), wire[i].kind = "stop", wire[i].conv \notin shared,
         wire' = RemoveAt(wire, i)
  PROVE  {j \in InConv(wire[i].conv) : phase[j] = "running"} \subseteq stopped'
<1>1. /\ Len(wire) \in Nat /\ Len(RemoveAt(wire, i)) = Len(wire) - 1
      /\ \A e \in Commands : Len(Append(wire, e)) = Len(wire) + 1
  BY Removed, Appended, LenProperties DEF TypeOK
<1>2. HandleCommand
  BY <1>1, WireSteps
<1>3. PICK k \in 1..Len(wire) : /\ wire' = RemoveAt(wire, k)
                                /\ StartChat(k) \/ StopConversation(k) \/ StopAll(k)
  BY <1>2, Handled
<1>4. wire[i] = wire[k]
  <2>1. CASE i = k
    BY <2>1
  <2>2. CASE i < k
    BY <1>3, <2>2, SameRemoved DEF TypeOK
  <2>3. CASE k < i
    BY <1>3, <2>3, SameRemoved DEF TypeOK
  <2>. QED
    BY <1>1, <2>1, <2>2, <2>3
<1>5. stopped' = stopped \cup ({runs[wire[k].conv]} \ {Nobody})
  BY <1>3, <1>4 DEF StartChat, StopAll, StopConversation
<1>6. ASSUME NEW j \in Jobs, ConvOf[j] = wire[i].conv, phase[j] = "running" PROVE j \in stopped'
  BY <1>4, <1>5, <1>6, ChatAssumption DEF RunInv, Registered
<1>. QED
  BY <1>6 DEF InConv

\* The handling of a stop reaches every program that runs in its conversation, unless the
\* last of them started while another one ran: the registry has forgotten one of them then.
THEOREM StopsReachRuns == Spec => StopReachesRun
<1>1. TypeOK /\ RunInv /\ [Next]_vars =>
        [\A i \in 1..Len(wire) :
           wire[i].kind = "stop" /\ wire[i].conv \notin shared /\ wire' = RemoveAt(wire, i)
             => {j \in InConv(wire[i].conv) : phase[j] = "running"} \subseteq stopped']_vars
  BY StopStep
<1>. QED
  BY <1>1, TurnsTyped, RunInvariant, PTL DEF Spec, StopReachesRun

-----------------------------------------------------------------------------
(* The permission gate of a turn's tool calls: PermissionGate, for any set of calls, any  *)
(* set of keys and any assignment of keys to calls.                                        *)

\* A request exists from the moment its call waits, and outlives the wait.
Requested ==
    \A c \in Calls :
        /\ gate[c] = "uncalled" => row[c] = "none"
        /\ gate[c] \in {"uncalled", "waiting"} => verdict[c] = "none"
        /\ row[c] # "none" /\ verdict[c] = "none" => gate[c] = "waiting"
        /\ up /\ gate[c] = "waiting" => row[c] \in {"pending"} \cup Verdicts
        /\ asking[c] # "none" => row[c] \in {"pending"} \cup Verdicts

\* The row settles once, and what was heard of it is what it says until it is pruned.
Heard ==
    \A c \in Calls :
        /\ told[c] # "none" => row[c] \in {told[c], "pruned"} /\ told[c] \in Verdicts
        /\ verdict[c] # "none" => row[c] \in {verdict[c], "pruned"}

\* The turn remembers a key that has a request the user has not allowed, and there is at
\* most one such request for a key.
Held(c) == row[c] # "none" /\ verdict[c] # "allowed"
Remembered ==
    /\ \A c \in Calls : Held(c) => remembered[KeyOf[c]] \notin {"none", "allowed"}
    /\ \A c, d \in Calls : Held(c) /\ Held(d) /\ KeyOf[c] = KeyOf[d] => c = d

\* A task is written as paused only while a call waits; the web writes it cancelled only.
PauseAwaited ==
    /\ webUpdate \in {NoUpdate, "cancelled"}
    /\ up /\ agentUpdate = "paused_approval" => \E c \in Calls : gate[c] = "waiting"
    /\ PausedForSomebody

PermInv == GateTypeOK /\ Requested /\ Heard /\ OneAnswer /\ Remembered /\ PauseAwaited
-----------------------------------------------------------------------------
\* Every step keeps the types.
LEMMA GateTypeStep ==
  ASSUME GateTypeOK, Requested, [GateNext]_gateVars
  PROVE  GateTypeOK'
<1>. USE PermissionAssumption
     DEF GateTypeOK, Requested, AgentFree, agentVars, requestVars, taskVars, webVars, Continue, Decided, ToWrite,
         Verdicts, Decisions, Open, Ends, NoUpdate
<1>1. ASSUME NEW c \in Calls, CallAllowedByRule(c) PROVE GateTypeOK'
  BY <1>1 DEF CallAllowedByRule
<1>2. ASSUME NEW c \in Calls, Request(c) PROVE GateTypeOK'
  BY <1>2 DEF Request
<1>3. ASSUME NEW c \in Calls, RefusedToAsk(c) PROVE GateTypeOK'
  BY <1>3 DEF RefusedToAsk
<1>4. ASSUME NEW c \in Calls, Poll(c) PROVE GateTypeOK'
  BY <1>4 DEF Poll
<1>5. ASSUME NEW c \in Calls, Deadline(c) PROVE GateTypeOK'
  BY <1>5 DEF Deadline
<1>6. ASSUME NEW c \in Calls, NEW saved \in BOOLEAN, Flush(c, saved) PROVE GateTypeOK'
  BY <1>6 DEF Flush
<1>7. ASSUME NEW c \in Calls, NEW decision \in Decisions,
              NEW covers \in {{}, {KeyOf[c]}, Keys}, Respond(c, decision, covers)
       PROVE  GateTypeOK'
  BY <1>7 DEF Respond
<1>8. ASSUME NEW c \in Calls, RespondDecides(c) \/ RespondLate(c) PROVE GateTypeOK'
  BY <1>8 DEF RespondDecides, RespondLate
<1>9. ASSUME NEW c \in Calls, Prune(c) PROVE GateTypeOK'
  BY <1>9 DEF Prune
<1>10. ASSUME NEW c \in Calls, Ages(c) PROVE GateTypeOK'
  BY <1>10 DEF Ages
<1>11. ASSUME NEW status \in Ends, TurnEnds(status) PROVE GateTypeOK'
  BY <1>11 DEF TurnEnds
<1>12. CASE AgentWrites
  BY <1>12 DEF AgentWrites
<1>13. CASE AgentExits
  BY <1>13 DEF AgentExits
<1>14. CASE CancelTask
  BY <1>14 DEF CancelTask
<1>15. CASE WebWrites
  BY <1>15 DEF WebWrites
<1>16. CASE Expire
  BY <1>16 DEF Expire
<1>17. CASE UNCHANGED gateVars
  BY <1>17 DEF gateVars
<1>. HIDE DEF GateTypeOK, Requested, AgentFree, Continue, Decided
<1>. QED
  BY <1>1, <1>2, <1>3, <1>4, <1>5, <1>6, <1>7, <1>8, <1>9, <1>10, <1>11, <1>12, <1>13,
     <1>14, <1>15, <1>16, <1>17 DEF GateNext

-----------------------------------------------------------------------------
\* Every step keeps the life of requests and calls in step.
LEMMA RequestedStep ==
  ASSUME GateTypeOK, Requested, [GateNext]_gateVars
  PROVE  Requested'
<1>. USE PermissionAssumption
     DEF Requested, agentVars, requestVars, taskVars, webVars, GateTypeOK, AgentFree, WebFree,
         Continue, Decided, Verdicts, Decisions
<1>1. ASSUME NEW c \in Calls, CallAllowedByRule(c) PROVE Requested'
  BY <1>1 DEF CallAllowedByRule
<1>2. ASSUME NEW c \in Calls, Request(c) PROVE Requested'
  BY <1>2 DEF Request
<1>3. ASSUME NEW c \in Calls, RefusedToAsk(c) PROVE Requested'
  BY <1>3 DEF RefusedToAsk
<1>4. ASSUME NEW c \in Calls, Poll(c) PROVE Requested'
  BY <1>4 DEF Poll
<1>5. ASSUME NEW c \in Calls, Deadline(c) PROVE Requested'
  BY <1>5 DEF Deadline
<1>6. ASSUME NEW c \in Calls, NEW saved \in BOOLEAN, Flush(c, saved) PROVE Requested'
  BY <1>6 DEF Flush
<1>7. ASSUME NEW c \in Calls, NEW decision \in Decisions,
              NEW covers \in {{}, {KeyOf[c]}, Keys}, Respond(c, decision, covers)
       PROVE  Requested'
  BY <1>7 DEF Respond
<1>8. ASSUME NEW c \in Calls, RespondDecides(c) \/ RespondLate(c) PROVE Requested'
  BY <1>8 DEF RespondDecides, RespondLate
<1>9. ASSUME NEW c \in Calls, Prune(c) PROVE Requested'
  BY <1>9 DEF Prune
<1>10. ASSUME NEW c \in Calls, Ages(c) PROVE Requested'
  BY <1>10 DEF Ages
<1>11. ASSUME NEW status \in Ends, TurnEnds(status) PROVE Requested'
  BY <1>11 DEF TurnEnds
<1>12. CASE AgentWrites
  BY <1>12 DEF AgentWrites
<1>13. CASE AgentExits
  BY <1>13 DEF AgentExits
<1>14. CASE CancelTask
  BY <1>14 DEF CancelTask
<1>15. CASE WebWrites
  BY <1>15 DEF WebWrites
<1>16. CASE Expire
  BY <1>16 DEF Expire
<1>17. CASE UNCHANGED gateVars
  BY <1>17 DEF gateVars
<1>. HIDE DEF Requested, GateTypeOK, AgentFree, WebFree, Continue, Decided
<1>. QED
  BY <1>1, <1>2, <1>3, <1>4, <1>5, <1>6, <1>7, <1>8, <1>9, <1>10, <1>11, <1>12, <1>13,
     <1>14, <1>15, <1>16, <1>17 DEF GateNext

-----------------------------------------------------------------------------
\* Every step keeps what was heard true to the row.
LEMMA HeardStep ==
  ASSUME GateTypeOK, Requested, Heard, [GateNext]_gateVars
  PROVE  Heard'
<1>. USE PermissionAssumption
     DEF Heard, Requested, agentVars, requestVars, taskVars, webVars, GateTypeOK, AgentFree,
         WebFree, Continue, Decided, Verdicts, Decisions
<1>1. ASSUME NEW c \in Calls, CallAllowedByRule(c) PROVE Heard'
  BY <1>1 DEF CallAllowedByRule
<1>2. ASSUME NEW c \in Calls, Request(c) PROVE Heard'
  BY <1>2 DEF Request
<1>3. ASSUME NEW c \in Calls, RefusedToAsk(c) PROVE Heard'
  BY <1>3 DEF RefusedToAsk
<1>4. ASSUME NEW c \in Calls, Poll(c) PROVE Heard'
  BY <1>4 DEF Poll
<1>5. ASSUME NEW c \in Calls, Deadline(c) PROVE Heard'
  BY <1>5 DEF Deadline
<1>6. ASSUME NEW c \in Calls, NEW saved \in BOOLEAN, Flush(c, saved) PROVE Heard'
  BY <1>6 DEF Flush
<1>7. ASSUME NEW c \in Calls, NEW decision \in Decisions,
              NEW covers \in {{}, {KeyOf[c]}, Keys}, Respond(c, decision, covers)
       PROVE  Heard'
  BY <1>7 DEF Respond
<1>8. ASSUME NEW c \in Calls, RespondDecides(c) \/ RespondLate(c) PROVE Heard'
  BY <1>8 DEF RespondDecides, RespondLate
<1>9. ASSUME NEW c \in Calls, Prune(c) PROVE Heard'
  BY <1>9 DEF Prune
<1>10. ASSUME NEW c \in Calls, Ages(c) PROVE Heard'
  BY <1>10 DEF Ages
<1>11. ASSUME NEW status \in Ends, TurnEnds(status) PROVE Heard'
  BY <1>11 DEF TurnEnds
<1>12. CASE AgentWrites
  BY <1>12 DEF AgentWrites
<1>13. CASE AgentExits
  BY <1>13 DEF AgentExits
<1>14. CASE CancelTask
  BY <1>14 DEF CancelTask
<1>15. CASE WebWrites
  BY <1>15 DEF WebWrites
<1>16. CASE Expire
  BY <1>16 DEF Expire
<1>17. CASE UNCHANGED gateVars
  BY <1>17 DEF gateVars
<1>. HIDE DEF Heard, Requested, GateTypeOK, AgentFree, WebFree, Continue, Decided
<1>. QED
  BY <1>1, <1>2, <1>3, <1>4, <1>5, <1>6, <1>7, <1>8, <1>9, <1>10, <1>11, <1>12, <1>13,
     <1>14, <1>15, <1>16, <1>17 DEF GateNext

-----------------------------------------------------------------------------
\* Every step keeps the answers equal.
LEMMA AnswerStep ==
  ASSUME GateTypeOK, Requested, Heard, OneAnswer, [GateNext]_gateVars
  PROVE  OneAnswer'
<1>. USE PermissionAssumption
     DEF OneAnswer, Requested, Heard, agentVars, requestVars, taskVars, webVars, GateTypeOK,
         AgentFree, WebFree, Continue, Decided, Verdicts, Decisions
<1>1. ASSUME NEW c \in Calls, CallAllowedByRule(c) PROVE OneAnswer'
  BY <1>1 DEF CallAllowedByRule
<1>2. ASSUME NEW c \in Calls, Request(c) PROVE OneAnswer'
  BY <1>2 DEF Request
<1>3. ASSUME NEW c \in Calls, RefusedToAsk(c) PROVE OneAnswer'
  BY <1>3 DEF RefusedToAsk
<1>4. ASSUME NEW c \in Calls, Poll(c) PROVE OneAnswer'
  BY <1>4 DEF Poll
<1>5. ASSUME NEW c \in Calls, Deadline(c) PROVE OneAnswer'
  BY <1>5 DEF Deadline
<1>6. ASSUME NEW c \in Calls, NEW saved \in BOOLEAN, Flush(c, saved) PROVE OneAnswer'
  BY <1>6 DEF Flush
<1>7. ASSUME NEW c \in Calls, NEW decision \in Decisions,
              NEW covers \in {{}, {KeyOf[c]}, Keys}, Respond(c, decision, covers)
       PROVE  OneAnswer'
  BY <1>7 DEF Respond
<1>8. ASSUME NEW c \in Calls, RespondDecides(c) \/ RespondLate(c) PROVE OneAnswer'
  BY <1>8 DEF RespondDecides, RespondLate
<1>9. ASSUME NEW c \in Calls, Prune(c) PROVE OneAnswer'
  BY <1>9 DEF Prune
<1>10. ASSUME NEW c \in Calls, Ages(c) PROVE OneAnswer'
  BY <1>10 DEF Ages
<1>11. ASSUME NEW status \in Ends, TurnEnds(status) PROVE OneAnswer'
  BY <1>11 DEF TurnEnds
<1>12. CASE AgentWrites
  BY <1>12 DEF AgentWrites
<1>13. CASE AgentExits
  BY <1>13 DEF AgentExits
<1>14. CASE CancelTask
  BY <1>14 DEF CancelTask
<1>15. CASE WebWrites
  BY <1>15 DEF WebWrites
<1>16. CASE Expire
  BY <1>16 DEF Expire
<1>17. CASE UNCHANGED gateVars
  BY <1>17 DEF gateVars
<1>. HIDE DEF OneAnswer, Requested, Heard, GateTypeOK, AgentFree, WebFree, Continue, Decided
<1>. QED
  BY <1>1, <1>2, <1>3, <1>4, <1>5, <1>6, <1>7, <1>8, <1>9, <1>10, <1>11, <1>12, <1>13,
     <1>14, <1>15, <1>16, <1>17 DEF GateNext

-----------------------------------------------------------------------------
\* Every step keeps the requests the user has not allowed apart.
LEMMA RememberedStep ==
  ASSUME GateTypeOK, Requested, Heard, Remembered, [GateNext]_gateVars
  PROVE  Remembered'
<1>. USE PermissionAssumption
     DEF Remembered, Held, CanPrompt, Requested, Heard, agentVars, requestVars, taskVars,
         webVars, GateTypeOK, AgentFree, WebFree, Continue, Decided, Verdicts, Decisions
<1>1. ASSUME NEW c \in Calls, CallAllowedByRule(c) PROVE Remembered'
  BY <1>1 DEF CallAllowedByRule
<1>2. ASSUME NEW c \in Calls, Request(c) PROVE Remembered'
  <2>1. \A d \in Calls : d # c => (Held(d)' <=> Held(d))
    BY <1>2 DEF Request
  <2>2. \A d \in Calls : Held(d) => KeyOf[d] # KeyOf[c]
    BY <1>2 DEF Request
  <2>3. remembered' = [remembered EXCEPT ![KeyOf[c]] = "pending"] /\ KeyOf[c] \in Keys
    BY <1>2 DEF Request
  <2>4. ASSUME NEW d \in Calls, Held(d)' PROVE remembered'[KeyOf[d]] \notin {"none", "allowed"}
    BY <2>1, <2>2, <2>3, <2>4
  <2>5. ASSUME NEW d \in Calls, NEW e \in Calls, Held(d)', Held(e)', KeyOf[d] = KeyOf[e]
        PROVE  d = e
    BY <2>1, <2>2, <2>5
  <2>. QED
    BY <2>4, <2>5
<1>3. ASSUME NEW c \in Calls, RefusedToAsk(c) PROVE Remembered'
  BY <1>3 DEF RefusedToAsk
<1>4. ASSUME NEW c \in Calls, Poll(c) PROVE Remembered'
  BY <1>4 DEF Poll
<1>5. ASSUME NEW c \in Calls, Deadline(c) PROVE Remembered'
  BY <1>5 DEF Deadline
<1>6. ASSUME NEW c \in Calls, NEW saved \in BOOLEAN, Flush(c, saved) PROVE Remembered'
  BY <1>6 DEF Flush
<1>7. ASSUME NEW c \in Calls, NEW decision \in Decisions,
              NEW covers \in {{}, {KeyOf[c]}, Keys}, Respond(c, decision, covers)
       PROVE  Remembered'
  BY <1>7 DEF Respond
<1>8. ASSUME NEW c \in Calls, RespondDecides(c) \/ RespondLate(c) PROVE Remembered'
  BY <1>8 DEF RespondDecides, RespondLate
<1>9. ASSUME NEW c \in Calls, Prune(c) PROVE Remembered'
  BY <1>9 DEF Prune
<1>10. ASSUME NEW c \in Calls, Ages(c) PROVE Remembered'
  BY <1>10 DEF Ages
<1>11. ASSUME NEW status \in Ends, TurnEnds(status) PROVE Remembered'
  BY <1>11 DEF TurnEnds
<1>12. CASE AgentWrites
  BY <1>12 DEF AgentWrites
<1>13. CASE AgentExits
  BY <1>13 DEF AgentExits
<1>14. CASE CancelTask
  BY <1>14 DEF CancelTask
<1>15. CASE WebWrites
  BY <1>15 DEF WebWrites
<1>16. CASE Expire
  BY <1>16 DEF Expire
<1>17. CASE UNCHANGED gateVars
  BY <1>17 DEF gateVars
<1>. HIDE DEF Remembered, Held, CanPrompt, Requested, Heard, GateTypeOK, AgentFree, WebFree, Continue, Decided
<1>. QED
  BY <1>1, <1>2, <1>3, <1>4, <1>5, <1>6, <1>7, <1>8, <1>9, <1>10, <1>11, <1>12, <1>13,
     <1>14, <1>15, <1>16, <1>17 DEF GateNext

-----------------------------------------------------------------------------
\* Every step keeps the paused task awaited: the call that stops waiting leaves the agent
\* with another status to write, and nothing else of the agent runs before it is written.
LEMMA PauseAwaitedStep ==
  ASSUME GateTypeOK, PauseAwaited, [GateNext]_gateVars
  PROVE  PauseAwaited'
<1>. USE DEF PauseAwaited, PausedForSomebody, agentVars, requestVars, taskVars, webVars, AgentFree,
             WebFree, ToWrite, Open, Ends, NoUpdate
<1>1. gate \in [Calls -> {"uncalled", "waiting", "flushing", "ran", "refused"}]
  BY DEF GateTypeOK
<1>2. ASSUME NEW c \in Calls, CallAllowedByRule(c) \/ RefusedToAsk(c) PROVE PauseAwaited'
  <2>1. \A d \in Calls : gate[d] = "waiting" => gate'[d] = "waiting"
    BY <1>1, <1>2 DEF CallAllowedByRule, RefusedToAsk
  <2>2. UNCHANGED <<up, taskStatus, agentUpdate, webUpdate>>
    BY <1>2 DEF CallAllowedByRule, RefusedToAsk
  <2>. QED  BY <2>1, <2>2
<1>3. ASSUME NEW c \in Calls, Request(c) PROVE PauseAwaited'
  <2>1. gate'[c] = "waiting" /\ UNCHANGED webUpdate
    BY <1>1, <1>3 DEF Request
  <2>. QED  BY <2>1
<1>4. ASSUME NEW c \in Calls, NEW status, AgentFree, Continue(c, status) PROVE PauseAwaited'
  <2>1. agentUpdate' \in {NoUpdate, "running", "failed"} /\ UNCHANGED <<up, taskStatus, webUpdate>>
    BY <1>4 DEF Continue
  <2>2. taskStatus = "paused_approval" => agentUpdate' # NoUpdate
    BY <1>4 DEF Continue
  <2>. QED  BY <2>1, <2>2
<1>5. ASSUME NEW c \in Calls, Poll(c) \/ Deadline(c) PROVE PauseAwaited'
  BY <1>4, <1>5 DEF Poll, Deadline
<1>6. ASSUME NEW c \in Calls, NEW saved \in BOOLEAN, Flush(c, saved) PROVE PauseAwaited'
  <2>1. \A d \in Calls : gate[d] = "waiting" => gate'[d] = "waiting"
    BY <1>1, <1>6 DEF Flush
  <2>2. UNCHANGED <<up, taskStatus, agentUpdate, webUpdate>>
    BY <1>6 DEF Flush
  <2>. QED  BY <2>1, <2>2
<1>7. ASSUME NEW status \in Ends, TurnEnds(status) PROVE PauseAwaited'
  <2>1. agentUpdate' # "paused_approval" /\ UNCHANGED <<up, gate, taskStatus, webUpdate>>
    BY <1>7 DEF TurnEnds
  <2>2. taskStatus = "paused_approval" => agentUpdate' # NoUpdate
    BY <1>7 DEF TurnEnds
  <2>. QED  BY <2>1, <2>2
<1>8. CASE AgentWrites
  BY <1>8 DEF AgentWrites
<1>9. CASE AgentExits
  BY <1>9 DEF AgentExits
<1>10. CASE CancelTask
  BY <1>10 DEF CancelTask
<1>11. CASE WebWrites
  BY <1>11 DEF WebWrites
<1>12. ASSUME UNCHANGED <<up, gate, taskStatus, agentUpdate, webUpdate>> PROVE PauseAwaited'
  BY <1>12
<1>13. ASSUME NEW c \in Calls,
              \/ \E decision \in Decisions, covers \in {{}, {KeyOf[c]}, Keys} :
                    Respond(c, decision, covers)
              \/ RespondDecides(c) \/ RespondLate(c) \/ Prune(c) \/ Ages(c)
       PROVE  PauseAwaited'
  BY <1>12, <1>13 DEF Respond, RespondDecides, RespondLate, Prune, Ages
<1>14. CASE Expire \/ UNCHANGED gateVars
  BY <1>12, <1>14 DEF Expire, gateVars
<1>. HIDE DEF PauseAwaited
<1>. QED
  BY <1>2, <1>3, <1>5, <1>6, <1>7, <1>8, <1>9, <1>10, <1>11, <1>13, <1>14 DEF GateNext

-----------------------------------------------------------------------------
\* The invariant holds at the start ...
LEMMA InitPermInv == GateInit => PermInv
<1>. SUFFICES ASSUME GateInit PROVE PermInv
  OBVIOUS
<1>1. GateTypeOK
  BY DEF GateInit, GateTypeOK, Verdicts, Decisions, Open, Ends, NoUpdate
<1>2. Requested /\ Heard /\ OneAnswer
  BY DEF GateInit, Requested, Heard, OneAnswer
<1>3. Remembered
  BY DEF GateInit, Remembered, Held
<1>4. PauseAwaited
  BY DEF GateInit, PauseAwaited, PausedForSomebody, NoUpdate
<1>. QED
  BY <1>1, <1>2, <1>3, <1>4 DEF PermInv

\* ... and is kept by every step.
LEMMA PermInvStep == PermInv /\ [GateNext]_gateVars => PermInv'
BY GateTypeStep, RequestedStep, HeardStep, AnswerStep, RememberedStep, PauseAwaitedStep DEF PermInv

LEMMA PermInvHolds == GateSpec => []PermInv
BY InitPermInv, PermInvStep, PTL DEF GateSpec

\* Every variable of the gate keeps its type, for any set of calls and keys.
THEOREM PermissionTypes == GateSpec => []GateTypeOK
<1>1. PermInv => GateTypeOK
  BY DEF PermInv
<1>. QED
  BY <1>1, PermInvHolds, PTL

\* What the user is told of his answer is what the waiting tool call was told, however
\* answer, expiry and deadline race (decidePermissionRequest and its three callers).
THEOREM EveryoneHearsTheSame == GateSpec => []OneAnswer
<1>1. PermInv => OneAnswer
  BY DEF PermInv
<1>. QED
  BY <1>1, PermInvHolds, PTL

\* A task shown as waiting for an approval has a call that waits for one, or an agent that
\* is about to write what it heard (requireToolPermission, SqliteTaskStore.update).
THEOREM PausesAreAwaited == GateSpec => []PausedForSomebody
<1>1. PermInv => PausedForSomebody
  BY DEF PermInv, PauseAwaited
<1>. QED
  BY <1>1, PermInvHolds, PTL

\* A turn asks again for a key only after the user allowed it (assertPermissionCanPrompt).
THEOREM AsksOnce == GateSpec => NoSecondPrompt
<1>. DEFINE Step == \A c, d \in Calls :
                      c # d /\ KeyOf[c] = KeyOf[d] /\ row[c] # "none" /\ row[d] = "none"
                        /\ row'[d] # "none" => verdict[c] = "allowed"
<1>1. PermInv /\ PermInv' /\ [GateNext]_gateVars => [Step]_gateVars
  <2>. SUFFICES ASSUME PermInv, GateNext,
                       NEW c \in Calls, NEW d \in Calls, c # d, KeyOf[c] = KeyOf[d],
                       row[c] # "none", row[d] = "none", row'[d] # "none"
                PROVE  verdict[c] = "allowed"
    BY DEF gateVars
  <2>1. Request(d)
    <3>. USE DEF agentVars, requestVars, taskVars, webVars, Decided
    <3>1. row # row'
      OBVIOUS
    <3>2. ASSUME NEW e \in Calls, Request(e) PROVE e = d
      BY <3>2 DEF Request, PermInv, GateTypeOK
    <3>3. ASSUME NEW e \in Calls, CallAllowedByRule(e) \/ RefusedToAsk(e) \/ Poll(e) \/ Ages(e)
                          \/ RespondLate(e)
          PROVE  FALSE
      BY <3>1, <3>3 DEF CallAllowedByRule, RefusedToAsk, Poll, Ages, RespondLate
    <3>4. ASSUME NEW e \in Calls, Deadline(e) \/ RespondDecides(e) \/ Prune(e) PROVE FALSE
      BY <3>4 DEF Deadline, RespondDecides, Prune, PermInv, Requested, GateTypeOK, AgentFree, Verdicts,
                  Decisions
    <3>5. ASSUME NEW e \in Calls, NEW saved, Flush(e, saved) PROVE FALSE
      BY <3>1, <3>5 DEF Flush
    <3>6. ASSUME NEW e \in Calls, NEW decision, NEW covers, Respond(e, decision, covers)
          PROVE  FALSE
      BY <3>1, <3>6 DEF Respond
    <3>7. ASSUME NEW status, TurnEnds(status) PROVE FALSE
      BY <3>1, <3>7 DEF TurnEnds
    <3>8. ~AgentWrites /\ ~AgentExits /\ ~CancelTask /\ ~WebWrites
      BY <3>1 DEF AgentWrites, AgentExits, CancelTask, WebWrites
    <3>9. ~Expire
      BY DEF Expire
    <3>. QED
      BY <3>2, <3>3, <3>4, <3>5, <3>6, <3>7, <3>8, <3>9 DEF GateNext
  <2>2. remembered[KeyOf[c]] \in {"none", "allowed"}
    BY <2>1 DEF Request, CanPrompt
  <2>. QED
    BY <2>2 DEF PermInv, Remembered, Held
<1>. QED
  BY <1>1, PermInvHolds, PTL DEF GateSpec, NoSecondPrompt
===============================================================================
