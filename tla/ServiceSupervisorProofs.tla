-------------------------- MODULE ServiceSupervisorProofs --------------------------
\* Proofs about ServiceSupervisor, for any number of children, faults and health checks in
\* flight and any delays.
EXTENDS ServiceSupervisor, FiniteSetTheorems, TLAPS

\* The owned child was spawned.
OwnedIsSpawned == proc # NoProc => child[proc] # "none"

\* close() has begun when its steps are taken.
ClosingSteps == closing <=> step # "open"

\* As long as nothing went wrong there is at most one child, the first, which boots within
\* its grace; its status is the supervisor's report until it says hello, and its own then,
\* never a failure, and fresh once it is connected; a check that began after the grace has
\* asked about a connected child.
Healthy ==
  /\ told = {} /\ ~timer
  /\ \A p \in Procs : p # proc => child[p] = "none"
  /\ proc = NoProc => checks = {}
  /\ proc # NoProc =>
       /\ \/ child[proc] = "booting" /\ grace
          \/ child[proc] = "connected" /\ status.fresh
       /\ status.state \in {"starting", "ready"}
       /\ \A c \in checks : /\ c.grace \/ child[proc] = "connected"
                            /\ \A s \in c.answer : s.state \in {"starting", "ready"} /\ (c.grace \/ s.fresh)

NothingWrong == faults = 0 /\ ~closing => Healthy

Inv == TypeOK /\ OwnedIsSpawned /\ ClosingSteps

-----------------------------------------------------------------------------
\* The children spawned so far are counted by one of the numbers of children.
LEMMA SpawnedCount ==
  ASSUME TypeOK, NEW p \in Procs, child[p] # "none"
  PROVE  Cardinality(Spawned) \in Procs
<1>1. IsFiniteSet(1..MaxProcs) /\ Cardinality(1..MaxProcs) = MaxProcs
  <2>1. 1 \in Int /\ MaxProcs \in Int /\ 1 <= MaxProcs
    BY SupervisorAssumption
  <2>. QED
    BY <2>1, FS_Interval
<1>2. Spawned \subseteq 1..MaxProcs /\ p \in Spawned
  BY DEF Spawned, Procs
<1>3. IsFiniteSet(Spawned) /\ Cardinality(Spawned) <= MaxProcs
  BY <1>1, <1>2, FS_Subset
<1>4. Cardinality(Spawned) \in Nat /\ Cardinality(Spawned) # 0
  BY <1>2, <1>3, FS_CardinalityType, FS_EmptySet
<1>. QED
  BY <1>3, <1>4, SupervisorAssumption DEF Procs

\* Statuses as they are written have their type.
LEMMA StatusRow ==
  /\ \A s \in States, p \in Procs : Status(s, p) \in StatusRows
  /\ \A s \in States : Status(s, Web) \in StatusRows /\ Status(s, NoProc) \in StatusRows
  /\ {"missing", "starting", "ready", "failed", "stopping"} \subseteq States
  /\ {"none", "booting", "connected", "hung", "exited"} \subseteq Children
  BY SupervisorAssumption DEF Status, StatusRows, Procs, Web, NoProc, States, Children

\* A fault is counted.
LEMMA FaultType ==
  ASSUME TypeOK, Fault
  PROVE  faults' \in 0..MaxFaults /\ faults' # 0
  BY SupervisorAssumption DEF TypeOK, Fault

\* Every step keeps the types.
LEMMA TypeStep ==
  ASSUME Inv, [Next]_vars
  PROVE  TypeOK'
<1>. USE DEF Inv
<1>1. ASSUME Begin PROVE TypeOK'
  <2>1. proc' \in Procs \cup {NoProc}
    BY <1>1 DEF Begin, Spawn, RecordStartFailure, TypeOK
  <2>2. child' \in [Procs -> Children]
    BY <1>1, StatusRow DEF Begin, Spawn, RecordStartFailure, TypeOK
  <2>3. status' \in StatusRows
    BY <1>1, StatusRow DEF Begin, Spawn, RecordStartFailure, ScheduleRestart, TypeOK
  <2>4. restarts' \in Nat
    BY <1>1 DEF Begin, Spawn, RecordStartFailure, ScheduleRestart, TypeOK
  <2>5. timer' \in BOOLEAN /\ grace' \in BOOLEAN
    BY <1>1 DEF Begin, Spawn, RecordStartFailure, ScheduleRestart, TypeOK
  <2>6. faults' \in 0..MaxFaults
    BY <1>1, FaultType DEF Begin, RecordStartFailure, TypeOK
  <2>. QED
    BY <1>1, <2>1, <2>2, <2>3, <2>4, <2>5, <2>6, Zenon DEF TypeOK, Begin, Spawn, RecordStartFailure, ScheduleRestart, Fault, childVars, supervisorVars
<1>2. ASSUME RestartTimer PROVE TypeOK'
  <2>1. proc' \in Procs \cup {NoProc}
    BY <1>2 DEF RestartTimer, Spawn, RecordStartFailure, TypeOK
  <2>2. child' \in [Procs -> Children]
    BY <1>2, StatusRow DEF RestartTimer, Spawn, RecordStartFailure, TypeOK
  <2>3. status' \in StatusRows
    BY <1>2, StatusRow DEF RestartTimer, Spawn, RecordStartFailure, ScheduleRestart, TypeOK
  <2>4. restarts' \in Nat
    BY <1>2 DEF RestartTimer, Spawn, RecordStartFailure, ScheduleRestart, TypeOK
  <2>5. timer' \in BOOLEAN /\ grace' \in BOOLEAN
    BY <1>2 DEF RestartTimer, Spawn, RecordStartFailure, ScheduleRestart, TypeOK
  <2>6. faults' \in 0..MaxFaults
    BY <1>2, FaultType DEF RestartTimer, RecordStartFailure, TypeOK
  <2>. QED
    BY <1>2, <2>1, <2>2, <2>3, <2>4, <2>5, <2>6, Zenon DEF TypeOK, RestartTimer, Spawn, RecordStartFailure, ScheduleRestart, Fault, childVars, supervisorVars
<1>3. ASSUME CheckAsks PROVE TypeOK'
  <2>1. [proc |-> proc, spawned |-> Cardinality(Spawned), grace |-> grace, answer |-> {}] \in CheckRows
    BY <1>3, SpawnedCount DEF CheckAsks, TypeOK, OwnedIsSpawned, CheckRows
  <2>2. checks' \subseteq CheckRows
    BY <1>3, <2>1 DEF CheckAsks, TypeOK
  <2>. QED
    BY <1>3, <2>1, <2>2, Zenon DEF TypeOK, CheckAsks, childVars, supervisorVars
<1>4. ASSUME NEW c \in checks, CheckAnswered(c) PROVE TypeOK'
  <2>1. [c EXCEPT !.answer = {status}] \in CheckRows
    BY <1>4 DEF TypeOK, CheckRows
  <2>2. checks' \subseteq CheckRows
    BY <1>4, <2>1 DEF CheckAnswered, TypeOK
  <2>. QED
    BY <1>4, <2>1, <2>2, Zenon DEF TypeOK, CheckAnswered, childVars, supervisorVars
<1>5. ASSUME NEW c \in checks, CheckRejected(c) PROVE TypeOK'
  <2>1. checks' \subseteq CheckRows
    BY <1>5 DEF CheckRejected, TypeOK
  <2>. QED
    BY <1>5, <2>1, Zenon DEF TypeOK, CheckRejected, childVars, supervisorVars
<1>6. ASSUME NEW c \in checks, CheckEnds(c) PROVE TypeOK'
  <2>1. checks' \subseteq CheckRows
    BY <1>6 DEF CheckEnds, TypeOK
  <2>2. status' \in StatusRows
    BY <1>6, StatusRow DEF CheckEnds, RestartFromHealthcheck, ScheduleRestart, TypeOK
  <2>3. restarts' \in Nat
    BY <1>6 DEF CheckEnds, RestartFromHealthcheck, ScheduleRestart, TypeOK
  <2>4. told' \subseteq Procs
    BY <1>6 DEF CheckEnds, RestartFromHealthcheck, TypeOK
  <2>5. proc' \in Procs \cup {NoProc} /\ timer' \in BOOLEAN
    BY <1>6 DEF CheckEnds, RestartFromHealthcheck, ScheduleRestart, TypeOK
  <2>. QED
    BY <1>6, <2>1, <2>2, <2>3, <2>4, <2>5, Zenon DEF TypeOK, CheckEnds, RestartFromHealthcheck, ScheduleRestart, childVars, supervisorVars
<1>7. ASSUME CloseBegins PROVE TypeOK'
  <2>1. status' \in StatusRows
    BY <1>7, StatusRow DEF CloseBegins, TypeOK
  <2>. QED
    BY <1>7, <2>1, Zenon DEF TypeOK, CloseBegins, childVars, supervisorVars
<1>8. ASSUME CloseKills PROVE TypeOK'
  <2>1. told' \subseteq Procs
    BY <1>8 DEF CloseKills, TypeOK
  <2>2. step' \in {"open", "notifying", "waiting", "closed"}
    BY <1>8 DEF CloseKills
  <2>. QED
    BY <1>8, <2>1, <2>2, Zenon DEF TypeOK, CloseKills, childVars, supervisorVars
<1>9. ASSUME CloseGraceOver PROVE TypeOK'
  <2>1. child' \in [Procs -> Children]
    BY <1>9, StatusRow DEF CloseGraceOver, TypeOK
  <2>. QED
    BY <1>9, <2>1, Zenon DEF TypeOK, CloseGraceOver, childVars, supervisorVars
<1>10. ASSUME CloseEnds PROVE TypeOK'
  <2>1. step' \in {"open", "notifying", "waiting", "closed"}
    BY <1>10 DEF CloseEnds
  <2>. QED
    BY <1>10, <2>1, Zenon DEF TypeOK, CloseEnds, childVars, supervisorVars
<1>11. ASSUME NEW p \in Procs, ExitSeen(p) PROVE TypeOK'
  <2>1. proc' \in Procs \cup {NoProc} /\ timer' \in BOOLEAN /\ seen' \subseteq Procs
    BY <1>11 DEF ExitSeen, ScheduleRestart, TypeOK
  <2>2. status' \in StatusRows
    BY <1>11, StatusRow DEF ExitSeen, ScheduleRestart, TypeOK
  <2>3. restarts' \in Nat
    BY <1>11 DEF ExitSeen, ScheduleRestart, TypeOK
  <2>. QED
    BY <1>11, <2>1, <2>2, <2>3, Zenon DEF TypeOK, ExitSeen, ScheduleRestart, childVars, supervisorVars
<1>12. ASSUME NEW p \in Procs, Hello(p) PROVE TypeOK'
  <2>1. child' \in [Procs -> Children]
    BY <1>12, StatusRow DEF Hello, TypeOK
  <2>2. status' \in StatusRows
    BY <1>12, StatusRow DEF Hello, TypeOK
  <2>3. worker' \in Procs \cup {NoProc} /\ open' \subseteq Procs
    BY <1>12 DEF Hello, TypeOK
  <2>. QED
    BY <1>12, <2>1, <2>2, <2>3, Zenon DEF TypeOK, Hello, childVars, supervisorVars
<1>13. ASSUME NEW p \in Procs, Heartbeat(p) PROVE TypeOK'
  <2>1. status' \in StatusRows
    BY <1>13, StatusRow DEF Heartbeat, TypeOK
  <2>. QED
    BY <1>13, <2>1, Zenon DEF TypeOK, Heartbeat, childVars, supervisorVars
<1>14. ASSUME NEW p \in Procs, ReportsFailed(p) PROVE TypeOK'
  <2>1. status' \in StatusRows
    BY <1>14, StatusRow DEF ReportsFailed, TypeOK
  <2>2. faults' \in 0..MaxFaults
    BY <1>14, FaultType DEF ReportsFailed, TypeOK
  <2>. QED
    BY <1>14, <2>1, <2>2, Zenon DEF TypeOK, ReportsFailed, Fault, childVars, supervisorVars
<1>15. ASSUME NEW p \in Procs, Hangs(p) PROVE TypeOK'
  <2>1. child' \in [Procs -> Children]
    BY <1>15, StatusRow DEF Hangs, TypeOK
  <2>2. faults' \in 0..MaxFaults
    BY <1>15, FaultType DEF Hangs, TypeOK
  <2>. QED
    BY <1>15, <2>1, <2>2, Zenon DEF TypeOK, Hangs, Fault, childVars, supervisorVars
<1>16. ASSUME NEW p \in Procs, Exits(p) PROVE TypeOK'
  <2>1. child' \in [Procs -> Children]
    BY <1>16, StatusRow DEF Exits, TypeOK
  <2>2. faults' \in 0..MaxFaults
    BY <1>16, FaultType DEF Exits, TypeOK
  <2>. QED
    BY <1>16, <2>1, <2>2, Zenon DEF TypeOK, Exits, Fault, childVars, supervisorVars
<1>17. ASSUME NEW p \in Procs, CloseSocket(p) PROVE TypeOK'
  <2>1. status' \in StatusRows
    BY <1>17, StatusRow DEF CloseSocket, TypeOK
  <2>2. worker' \in Procs \cup {NoProc} /\ open' \subseteq Procs
    BY <1>17 DEF CloseSocket, TypeOK
  <2>. QED
    BY <1>17, <2>1, <2>2, Zenon DEF TypeOK, CloseSocket, childVars, supervisorVars
<1>18. ASSUME GoesStale PROVE TypeOK'
  <2>1. status' \in StatusRows
    BY <1>18 DEF GoesStale, TypeOK, StatusRows
  <2>. QED
    BY <1>18, <2>1, Zenon DEF TypeOK, GoesStale, childVars, supervisorVars
<1>19. ASSUME GraceEnds PROVE TypeOK'
  <2>1. faults' \in 0..MaxFaults
    BY <1>19, FaultType DEF GraceEnds, TypeOK
  <2>. QED
    BY <1>19, <2>1, Zenon DEF TypeOK, GraceEnds, Fault, childVars, supervisorVars
<1>20. ASSUME UNCHANGED vars PROVE TypeOK'
  BY <1>20, Zenon DEF vars, TypeOK
<1>. QED
  BY <1>1, <1>2, <1>3, <1>4, <1>5, <1>6, <1>7, <1>8, <1>9, <1>10, <1>11, <1>12, <1>13, <1>14, <1>15, <1>16, <1>17, <1>18, <1>19, <1>20 DEF Next, Check

\* Every step keeps what the other proofs rest on.
LEMMA InvStep ==
  ASSUME Inv, [Next]_vars
  PROVE  Inv'
<1>. USE DEF Inv
<1>1. ASSUME Begin PROVE (OwnedIsSpawned /\ ClosingSteps)'
  BY <1>1 DEF OwnedIsSpawned, ClosingSteps, TypeOK, NoProc, Begin, Spawn, RecordStartFailure, ScheduleRestart, Fault, childVars, supervisorVars
<1>2. ASSUME RestartTimer PROVE (OwnedIsSpawned /\ ClosingSteps)'
  BY <1>2 DEF OwnedIsSpawned, ClosingSteps, TypeOK, NoProc, RestartTimer, Spawn, RecordStartFailure, ScheduleRestart, Fault, childVars, supervisorVars
<1>3. ASSUME CheckAsks PROVE (OwnedIsSpawned /\ ClosingSteps)'
  BY <1>3 DEF OwnedIsSpawned, ClosingSteps, TypeOK, NoProc, CheckAsks, childVars, supervisorVars
<1>4. ASSUME NEW c \in checks, CheckAnswered(c) PROVE (OwnedIsSpawned /\ ClosingSteps)'
  BY <1>4 DEF OwnedIsSpawned, ClosingSteps, TypeOK, NoProc, CheckAnswered, childVars, supervisorVars
<1>5. ASSUME NEW c \in checks, CheckRejected(c) PROVE (OwnedIsSpawned /\ ClosingSteps)'
  BY <1>5 DEF OwnedIsSpawned, ClosingSteps, TypeOK, NoProc, CheckRejected, childVars, supervisorVars
<1>6. ASSUME NEW c \in checks, CheckEnds(c) PROVE (OwnedIsSpawned /\ ClosingSteps)'
  BY <1>6 DEF OwnedIsSpawned, ClosingSteps, TypeOK, NoProc, CheckEnds, RestartFromHealthcheck, ScheduleRestart, childVars, supervisorVars
<1>7. ASSUME CloseBegins PROVE (OwnedIsSpawned /\ ClosingSteps)'
  BY <1>7 DEF OwnedIsSpawned, ClosingSteps, TypeOK, NoProc, CloseBegins, childVars, supervisorVars
<1>8. ASSUME CloseKills PROVE (OwnedIsSpawned /\ ClosingSteps)'
  BY <1>8 DEF OwnedIsSpawned, ClosingSteps, TypeOK, NoProc, CloseKills, childVars, supervisorVars
<1>9. ASSUME CloseGraceOver PROVE (OwnedIsSpawned /\ ClosingSteps)'
  BY <1>9 DEF OwnedIsSpawned, ClosingSteps, TypeOK, NoProc, CloseGraceOver, childVars, supervisorVars
<1>10. ASSUME CloseEnds PROVE (OwnedIsSpawned /\ ClosingSteps)'
  BY <1>10 DEF OwnedIsSpawned, ClosingSteps, TypeOK, NoProc, CloseEnds, childVars, supervisorVars
<1>11. ASSUME NEW p \in Procs, ExitSeen(p) PROVE (OwnedIsSpawned /\ ClosingSteps)'
  BY <1>11 DEF OwnedIsSpawned, ClosingSteps, TypeOK, NoProc, ExitSeen, ScheduleRestart, childVars, supervisorVars
<1>12. ASSUME NEW p \in Procs, Hello(p) PROVE (OwnedIsSpawned /\ ClosingSteps)'
  BY <1>12 DEF OwnedIsSpawned, ClosingSteps, TypeOK, NoProc, Hello, childVars, supervisorVars
<1>13. ASSUME NEW p \in Procs, Heartbeat(p) PROVE (OwnedIsSpawned /\ ClosingSteps)'
  BY <1>13 DEF OwnedIsSpawned, ClosingSteps, TypeOK, NoProc, Heartbeat, childVars, supervisorVars
<1>14. ASSUME NEW p \in Procs, ReportsFailed(p) PROVE (OwnedIsSpawned /\ ClosingSteps)'
  BY <1>14 DEF OwnedIsSpawned, ClosingSteps, TypeOK, NoProc, ReportsFailed, Fault, childVars, supervisorVars
<1>15. ASSUME NEW p \in Procs, Hangs(p) PROVE (OwnedIsSpawned /\ ClosingSteps)'
  BY <1>15 DEF OwnedIsSpawned, ClosingSteps, TypeOK, NoProc, Hangs, Fault, childVars, supervisorVars
<1>16. ASSUME NEW p \in Procs, Exits(p) PROVE (OwnedIsSpawned /\ ClosingSteps)'
  BY <1>16 DEF OwnedIsSpawned, ClosingSteps, TypeOK, NoProc, Exits, Fault, childVars, supervisorVars
<1>17. ASSUME NEW p \in Procs, CloseSocket(p) PROVE (OwnedIsSpawned /\ ClosingSteps)'
  BY <1>17 DEF OwnedIsSpawned, ClosingSteps, TypeOK, NoProc, CloseSocket, childVars, supervisorVars
<1>18. ASSUME GoesStale PROVE (OwnedIsSpawned /\ ClosingSteps)'
  BY <1>18 DEF OwnedIsSpawned, ClosingSteps, TypeOK, NoProc, GoesStale, childVars, supervisorVars
<1>19. ASSUME GraceEnds PROVE (OwnedIsSpawned /\ ClosingSteps)'
  BY <1>19 DEF OwnedIsSpawned, ClosingSteps, TypeOK, NoProc, GraceEnds, Fault, childVars, supervisorVars
<1>20. ASSUME UNCHANGED vars PROVE (OwnedIsSpawned /\ ClosingSteps)'
  BY <1>20 DEF OwnedIsSpawned, ClosingSteps, TypeOK, NoProc, vars, childVars, supervisorVars
<1>. QED
  BY TypeStep, <1>1, <1>2, <1>3, <1>4, <1>5, <1>6, <1>7, <1>8, <1>9, <1>10, <1>11, <1>12, <1>13, <1>14, <1>15, <1>16, <1>17, <1>18, <1>19, <1>20 DEF Next, Check

\* What a check learns of a child that did nothing wrong is no reason to restart it.
LEMMA HealthyAnswer ==
  ASSUME Inv, Healthy, NEW c \in checks, NEW a \in c.answer
  PROVE  ~Unhealthy(c, a)
<1>1. proc # NoProc
  BY DEF Healthy
<1>2. a.state \in {"starting", "ready"} /\ (c.grace \/ a.fresh)
  BY <1>1 DEF Healthy
<1>3. c.grace => WithinStartupGrace(c)
  BY DEF WithinStartupGrace
<1>. QED
  BY <1>2, <1>3 DEF Unhealthy

\* Every step keeps the first child healthy while nothing went wrong.
LEMMA HealthyStep ==
  ASSUME Inv, NothingWrong, [Next]_vars
  PROVE  NothingWrong'
<1>. USE DEF Inv
<1>1. ASSUME Begin PROVE NothingWrong'
  <2>1. SUFFICES ASSUME faults' = 0, ~closing' PROVE Healthy'
    BY DEF NothingWrong
  <2>2. Spawn /\ UNCHANGED <<timer, faults, told, checks, closing>> /\ Spawned = {}
    BY <1>1, <2>1, FaultType DEF Begin, RecordStartFailure
  <2>3. \A p \in Procs : child[p] = "none"
    BY <2>2 DEF Spawned
  <2>4. proc = NoProc
    BY <2>3 DEF OwnedIsSpawned, TypeOK
  <2>5. Healthy /\ checks = {}
    BY <2>1, <2>2, <2>4 DEF NothingWrong, Healthy
  <2>6. proc' \in Procs /\ child' = [child EXCEPT ![proc'] = "booting"] /\ grace' /\ status'.state = "starting"
    BY <2>2 DEF Spawn, Status
  <2>7. told' = {} /\ ~timer' /\ checks' = {}
    BY <2>2, <2>5 DEF Healthy
  <2>8. proc' # NoProc
    BY <2>6 DEF Procs, NoProc
  <2>9. child'[proc'] = "booting" /\ \A p \in Procs : p # proc' => child'[p] = "none"
    BY <2>3, <2>6 DEF TypeOK
  <2>. QED
    BY <2>6, <2>7, <2>8, <2>9 DEF Healthy
<1>2. ASSUME RestartTimer PROVE NothingWrong'
  BY <1>2 DEF NothingWrong, Healthy, ClosingSteps, OwnedIsSpawned, TypeOK, NoProc, RestartTimer, Spawn, RecordStartFailure, ScheduleRestart, Fault, childVars, supervisorVars
<1>3. ASSUME CheckAsks PROVE NothingWrong'
  BY <1>3 DEF NothingWrong, Healthy, ClosingSteps, OwnedIsSpawned, TypeOK, NoProc, CheckAsks, childVars, supervisorVars
<1>4. ASSUME NEW c \in checks, CheckAnswered(c) PROVE NothingWrong'
  <2>1. SUFFICES ASSUME faults' = 0, ~closing' PROVE Healthy'
    BY DEF NothingWrong
  <2>2. Healthy /\ UNCHANGED <<proc, timer, told, child, grace, status>> /\ c \in CheckRows
    BY <1>4, <2>1 DEF CheckAnswered, childVars, NothingWrong, TypeOK
  <2>3. proc # NoProc
    BY <2>2 DEF Healthy
  <2>4. PICK a \in CheckRows : a.grace = c.grace /\ a.answer = {status} /\ checks' = (checks \ {c}) \cup {a}
    <3>1. [c EXCEPT !.answer = {status}] \in CheckRows
      BY <2>2 DEF CheckRows, TypeOK
    <3>2. [c EXCEPT !.answer = {status}].grace = c.grace /\ [c EXCEPT !.answer = {status}].answer = {status}
      BY <2>2 DEF CheckRows
    <3>. QED
      BY <1>4, <3>1, <3>2 DEF CheckAnswered
  <2>. QED
    BY <2>2, <2>3, <2>4 DEF Healthy
<1>5. ASSUME NEW c \in checks, CheckRejected(c) PROVE NothingWrong'
  BY <1>5 DEF NothingWrong, Healthy, ClosingSteps, OwnedIsSpawned, TypeOK, NoProc, CheckRejected, childVars, supervisorVars
<1>6. ASSUME NEW c \in checks, CheckEnds(c) PROVE NothingWrong'
  <2>1. SUFFICES ASSUME faults' = 0, ~closing' PROVE Healthy'
    BY DEF NothingWrong
  <2>2. Healthy /\ UNCHANGED <<faults, closing, child, grace>> /\ checks' = checks \ {c}
    BY <1>6, <2>1 DEF CheckEnds, childVars, NothingWrong
  <2>3. UNCHANGED <<proc, timer, told, status>>
    BY <1>6, <2>2, HealthyAnswer DEF CheckEnds
  <2>. QED
    BY <2>2, <2>3 DEF Healthy
<1>7. ASSUME CloseBegins PROVE NothingWrong'
  BY <1>7 DEF NothingWrong, Healthy, ClosingSteps, OwnedIsSpawned, TypeOK, NoProc, CloseBegins, childVars, supervisorVars
<1>8. ASSUME CloseKills PROVE NothingWrong'
  BY <1>8 DEF NothingWrong, Healthy, ClosingSteps, OwnedIsSpawned, TypeOK, NoProc, CloseKills, childVars, supervisorVars
<1>9. ASSUME CloseGraceOver PROVE NothingWrong'
  BY <1>9 DEF NothingWrong, Healthy, ClosingSteps, OwnedIsSpawned, TypeOK, NoProc, CloseGraceOver, childVars, supervisorVars
<1>10. ASSUME CloseEnds PROVE NothingWrong'
  BY <1>10 DEF NothingWrong, Healthy, ClosingSteps, OwnedIsSpawned, TypeOK, NoProc, CloseEnds, childVars, supervisorVars
<1>11. ASSUME NEW p \in Procs, ExitSeen(p) PROVE NothingWrong'
  <2>1. SUFFICES ASSUME faults' = 0, ~closing' PROVE Healthy'
    BY DEF NothingWrong
  <2>2. Healthy /\ child[p] = "exited"
    BY <1>11, <2>1 DEF ExitSeen, NothingWrong
  <2>. QED
    BY <2>2 DEF Healthy, NoProc, Procs
<1>12. ASSUME NEW p \in Procs, Hello(p) PROVE NothingWrong'
  <2>1. SUFFICES ASSUME faults' = 0, ~closing' PROVE Healthy'
    BY DEF NothingWrong
  <2>2. Healthy /\ child[p] = "booting" /\ UNCHANGED <<proc, timer, told, checks, grace>>
    BY <1>12, <2>1 DEF Hello, NothingWrong, supervisorVars
  <2>3. p = proc /\ p # NoProc
    BY <2>2 DEF Healthy, NoProc, Procs
  <2>4. child' = [child EXCEPT ![p] = "connected"] /\ status'.state = "starting" /\ status'.fresh
    BY <1>12 DEF Hello, Status
  <2>. QED
    BY <2>2, <2>3, <2>4 DEF Healthy, TypeOK
<1>13. ASSUME NEW p \in Procs, Heartbeat(p) PROVE NothingWrong'
  <2>1. SUFFICES ASSUME faults' = 0, ~closing' PROVE Healthy'
    BY DEF NothingWrong
  <2>2. Healthy /\ child[p] = "connected" /\ UNCHANGED <<proc, timer, told, checks, grace, child>>
    BY <1>13, <2>1 DEF Heartbeat, NothingWrong, supervisorVars, childVars
  <2>3. status'.state = "ready" /\ status'.fresh
    BY <1>13 DEF Heartbeat, Status
  <2>. QED
    BY <2>2, <2>3 DEF Healthy
<1>14. ASSUME NEW p \in Procs, ReportsFailed(p) PROVE NothingWrong'
  BY <1>14 DEF NothingWrong, Healthy, ClosingSteps, OwnedIsSpawned, TypeOK, NoProc, ReportsFailed, Fault, childVars, supervisorVars
<1>15. ASSUME NEW p \in Procs, Hangs(p) PROVE NothingWrong'
  BY <1>15 DEF NothingWrong, Healthy, ClosingSteps, OwnedIsSpawned, TypeOK, NoProc, Hangs, Fault, childVars, supervisorVars
<1>16. ASSUME NEW p \in Procs, Exits(p) PROVE NothingWrong'
  BY <1>16 DEF NothingWrong, Healthy, ClosingSteps, OwnedIsSpawned, TypeOK, NoProc, Exits, Fault, childVars, supervisorVars
<1>17. ASSUME NEW p \in Procs, CloseSocket(p) PROVE NothingWrong'
  BY <1>17 DEF NothingWrong, Healthy, ClosingSteps, OwnedIsSpawned, TypeOK, NoProc, CloseSocket, childVars, supervisorVars
<1>18. ASSUME GoesStale PROVE NothingWrong'
  <2>1. SUFFICES ASSUME faults' = 0, ~closing' PROVE Healthy'
    BY DEF NothingWrong
  <2>2. Healthy /\ UNCHANGED <<proc, timer, told, checks, grace, child>>
    BY <1>18, <2>1 DEF GoesStale, NothingWrong, supervisorVars, childVars
  <2>3. status'.state = status.state /\ \A p \in Procs : child[p] # "connected"
    BY <1>18 DEF GoesStale, TypeOK, StatusRows
  <2>4. proc # NoProc => child[proc] # "connected"
    BY <2>3 DEF TypeOK
  <2>5. proc # NoProc => child[proc] = "booting" /\ grace
    BY <2>2, <2>4 DEF Healthy
  <2>. QED
    BY <2>2, <2>3, <2>5 DEF Healthy
<1>19. ASSUME GraceEnds PROVE NothingWrong'
  BY <1>19 DEF NothingWrong, Healthy, ClosingSteps, OwnedIsSpawned, TypeOK, NoProc, GraceEnds, Fault, childVars, supervisorVars
<1>20. ASSUME UNCHANGED vars PROVE NothingWrong'
  BY <1>20 DEF NothingWrong, Healthy, ClosingSteps, OwnedIsSpawned, TypeOK, NoProc, vars, childVars, supervisorVars
<1>. QED
  BY <1>1, <1>2, <1>3, <1>4, <1>5, <1>6, <1>7, <1>8, <1>9, <1>10, <1>11, <1>12, <1>13, <1>14, <1>15, <1>16, <1>17, <1>18, <1>19, <1>20 DEF Next, Check

\* Every step keeps every live child accounted for.
LEMMA ForgottenStep ==
  ASSUME Inv, NoForgottenChild, [Next]_vars
  PROVE  NoForgottenChild'
<1>. USE DEF Inv
<1>1. ASSUME Begin PROVE NoForgottenChild'
  <2>1. \A p \in Procs : child[p] = "none"
    BY <1>1 DEF Begin, Spawned
  <2>2. proc = NoProc
    BY <2>1 DEF OwnedIsSpawned, TypeOK
  <2>3. CASE Spawn /\ UNCHANGED timer
    <3>1. ~timer' /\ proc' \in Procs /\ child' = [child EXCEPT ![proc'] = "booting"]
      BY <1>1, <2>3 DEF Begin, Spawn
    <3>. QED
      BY <2>1, <3>1 DEF NoForgottenChild, Alive, TypeOK
  <2>4. CASE RecordStartFailure
    <3>1. UNCHANGED <<proc, child>>
      BY <2>4 DEF RecordStartFailure
    <3>. QED
      BY <2>1, <2>2, <3>1 DEF NoForgottenChild, Alive
  <2>. QED
    BY <1>1, <2>3, <2>4 DEF Begin
<1>2. ASSUME RestartTimer PROVE NoForgottenChild'
  <2>1. UNCHANGED <<told, step, leaving>> /\ proc = NoProc
    BY <1>2 DEF RestartTimer, NoForgottenChild
  <2>2. CASE Spawn /\ timer' = FALSE
    <3>1. ~timer' /\ proc' \in Procs /\ child' = [child EXCEPT ![proc'] = "booting"]
      BY <2>2 DEF Spawn
    <3>2. \A p \in Procs : p # NoProc
      BY DEF Procs, NoProc
    <3>. QED
      BY <2>1, <3>1, <3>2 DEF NoForgottenChild, Alive, TypeOK
  <2>3. CASE UNCHANGED <<proc, child>>
    BY <2>1, <2>3 DEF NoForgottenChild, Alive
  <2>. QED
    BY <1>2, <2>2, <2>3 DEF RestartTimer, RecordStartFailure
<1>3. ASSUME CheckAsks PROVE NoForgottenChild'
  BY <1>3 DEF NoForgottenChild, Alive, ClosingSteps, OwnedIsSpawned, TypeOK, NoProc, Procs, CheckAsks, childVars, supervisorVars
<1>4. ASSUME NEW c \in checks, CheckAnswered(c) PROVE NoForgottenChild'
  BY <1>4 DEF NoForgottenChild, Alive, ClosingSteps, OwnedIsSpawned, TypeOK, NoProc, Procs, CheckAnswered, childVars, supervisorVars
<1>5. ASSUME NEW c \in checks, CheckRejected(c) PROVE NoForgottenChild'
  BY <1>5 DEF NoForgottenChild, Alive, ClosingSteps, OwnedIsSpawned, TypeOK, NoProc, Procs, CheckRejected, childVars, supervisorVars
<1>6. ASSUME NEW c \in checks, CheckEnds(c) PROVE NoForgottenChild'
  BY <1>6 DEF NoForgottenChild, Alive, ClosingSteps, OwnedIsSpawned, TypeOK, NoProc, Procs, CheckEnds, RestartFromHealthcheck, ScheduleRestart, childVars, supervisorVars
<1>7. ASSUME CloseBegins PROVE NoForgottenChild'
  BY <1>7 DEF NoForgottenChild, Alive, ClosingSteps, OwnedIsSpawned, TypeOK, NoProc, Procs, CloseBegins, childVars, supervisorVars
<1>8. ASSUME CloseKills PROVE NoForgottenChild'
  BY <1>8 DEF NoForgottenChild, Alive, ClosingSteps, OwnedIsSpawned, TypeOK, NoProc, Procs, CloseKills, childVars, supervisorVars
<1>9. ASSUME CloseGraceOver PROVE NoForgottenChild'
  BY <1>9 DEF NoForgottenChild, Alive, ClosingSteps, OwnedIsSpawned, TypeOK, NoProc, Procs, CloseGraceOver, childVars, supervisorVars
<1>10. ASSUME CloseEnds PROVE NoForgottenChild'
  BY <1>10 DEF NoForgottenChild, Alive, ClosingSteps, OwnedIsSpawned, TypeOK, NoProc, Procs, CloseEnds, childVars, supervisorVars
<1>11. ASSUME NEW p \in Procs, ExitSeen(p) PROVE NoForgottenChild'
  BY <1>11 DEF NoForgottenChild, Alive, ClosingSteps, OwnedIsSpawned, TypeOK, NoProc, Procs, ExitSeen, ScheduleRestart, childVars, supervisorVars
<1>12. ASSUME NEW p \in Procs, Hello(p) PROVE NoForgottenChild'
  BY <1>12 DEF NoForgottenChild, Alive, ClosingSteps, OwnedIsSpawned, TypeOK, NoProc, Procs, Hello, childVars, supervisorVars
<1>13. ASSUME NEW p \in Procs, Heartbeat(p) PROVE NoForgottenChild'
  BY <1>13 DEF NoForgottenChild, Alive, ClosingSteps, OwnedIsSpawned, TypeOK, NoProc, Procs, Heartbeat, childVars, supervisorVars
<1>14. ASSUME NEW p \in Procs, ReportsFailed(p) PROVE NoForgottenChild'
  BY <1>14 DEF NoForgottenChild, Alive, ClosingSteps, OwnedIsSpawned, TypeOK, NoProc, Procs, ReportsFailed, Fault, childVars, supervisorVars
<1>15. ASSUME NEW p \in Procs, Hangs(p) PROVE NoForgottenChild'
  BY <1>15 DEF NoForgottenChild, Alive, ClosingSteps, OwnedIsSpawned, TypeOK, NoProc, Procs, Hangs, Fault, childVars, supervisorVars
<1>16. ASSUME NEW p \in Procs, Exits(p) PROVE NoForgottenChild'
  BY <1>16 DEF NoForgottenChild, Alive, ClosingSteps, OwnedIsSpawned, TypeOK, NoProc, Procs, Exits, Fault, childVars, supervisorVars
<1>17. ASSUME NEW p \in Procs, CloseSocket(p) PROVE NoForgottenChild'
  BY <1>17 DEF NoForgottenChild, Alive, ClosingSteps, OwnedIsSpawned, TypeOK, NoProc, Procs, CloseSocket, childVars, supervisorVars
<1>18. ASSUME GoesStale PROVE NoForgottenChild'
  BY <1>18 DEF NoForgottenChild, Alive, ClosingSteps, OwnedIsSpawned, TypeOK, NoProc, Procs, GoesStale, childVars, supervisorVars
<1>19. ASSUME GraceEnds PROVE NoForgottenChild'
  BY <1>19 DEF NoForgottenChild, Alive, ClosingSteps, OwnedIsSpawned, TypeOK, NoProc, Procs, GraceEnds, Fault, childVars, supervisorVars
<1>20. ASSUME UNCHANGED vars PROVE NoForgottenChild'
  BY <1>20 DEF NoForgottenChild, Alive, ClosingSteps, OwnedIsSpawned, TypeOK, NoProc, Procs, vars, childVars, supervisorVars
<1>. QED
  BY <1>1, <1>2, <1>3, <1>4, <1>5, <1>6, <1>7, <1>8, <1>9, <1>10, <1>11, <1>12, <1>13, <1>14, <1>15, <1>16, <1>17, <1>18, <1>19, <1>20 DEF Next, Check

\* At the start nothing is spawned and nothing went wrong.
LEMMA InitInv ==
  ASSUME Init
  PROVE  Inv /\ NoForgottenChild /\ NothingWrong
<1>1. TypeOK
  <2>1. status \in StatusRows /\ faults \in 0..MaxFaults /\ child \in [Procs -> Children]
    BY StatusRow, SupervisorAssumption DEF Init
  <2>. QED
    BY <2>1 DEF Init, TypeOK
<1>2. OwnedIsSpawned /\ ClosingSteps
  BY DEF Init, OwnedIsSpawned, ClosingSteps
<1>3. NoForgottenChild
  BY DEF Init, NoForgottenChild, Alive
<1>4. NothingWrong
  BY DEF Init, NothingWrong, Healthy
<1>. QED
  BY <1>1, <1>2, <1>3, <1>4 DEF Inv

\* Every variable keeps its type: no child is spawned past the bound, and every check knows
\* the child it asks about.
THEOREM SupervisorTyped == Spec => []TypeOK
<1>1. Init => Inv
  BY InitInv
<1>2. Inv /\ [Next]_vars => Inv'
  BY InvStep
<1>3. Inv => TypeOK
  BY DEF Inv
<1>. QED
  BY <1>1, <1>2, <1>3, PTL DEF Spec

\* Whatever checks, exits, restarts and close() overlap, a live child is owned, was told to
\* stop, or is the one close() is about to tell, and a restart is scheduled only while no
\* child is owned (ServiceProcess.start, restartFromHealthcheck, close).
THEOREM NoChildForgotten == Spec => []NoForgottenChild
<1>1. Init => Inv /\ NoForgottenChild
  BY InitInv
<1>2. Inv /\ NoForgottenChild /\ [Next]_vars => (Inv /\ NoForgottenChild)'
  BY InvStep, ForgottenStep
<1>. QED
  BY <1>1, <1>2, PTL DEF Spec

\* A service that does nothing wrong is never told to stop: however slowly the checks are
\* answered, neither the supervisor's own reports nor the startup window are mistaken for
\* failures (checkHealth, isWithinStartupGrace, belongsToProc).
THEOREM HealthyIsNotStopped == Spec => []HealthyNeverStopped
<1>1. Init => Inv /\ NothingWrong
  BY InitInv
<1>2. Inv /\ NothingWrong /\ [Next]_vars => (Inv /\ NothingWrong)'
  BY InvStep, HealthyStep
<1>3. NothingWrong => HealthyNeverStopped
  BY DEF NothingWrong, Healthy, HealthyNeverStopped
<1>. QED
  BY <1>1, <1>2, <1>3, PTL DEF Spec

===============================================================================
