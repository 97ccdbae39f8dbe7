--------------------------- MODULE ServiceSupervisor ---------------------------
(* ServiceProcess of the runtime service supervisor: the web process keeps one    *)
(* child process per role alive.  Modelled are the child's life (boot, hello,     *)
(* heartbeats, hang, crash, stop), the status of the role in the memory of        *)
(* queue-service, the health checks (several may be awaiting queue-service at     *)
(* once), the restart timer and close().  Roles do not interact, one is enough.   *)
(* Time is abstract: a status is fresh or stale, a child is within its startup    *)
(* grace or not.  Definitions X_y are faulty variants of X.                       *)
EXTENDS Integers, FiniteSets

CONSTANTS
    MaxProcs,   \* bound: children spawned
    MaxFaults,  \* bound: crashes, hangs, slow boots, reported failures, failed spawns
    MaxChecks,  \* bound: health checks in flight
    StopMs      \* no child told to stop lives longer than this, no closed socket and no
                \* health check stays unnoticed longer

ASSUME SupervisorAssumption ==
    MaxProcs \in Nat \ {0} /\ {MaxFaults, MaxChecks, StopMs} \subseteq Nat

Procs == 1..MaxProcs
NoProc == 0         \* proc = null; also the pid of a status written by closeSocket
Web == MaxProcs + 1 \* the pid of a status the supervisor itself reported
Children == {"none", "booting", "connected", "hung", "exited"}
States == {"missing", "starting", "ready", "failed", "stopping"}

VARIABLES
    proc,       \* ServiceProcess.proc
    closing,    \* ServiceProcess.closing
    timer,      \* restartTimer is set
    restarts,   \* ServiceProcess.restarts
    child,      \* [Procs -> Children]
    told,       \* children that were sent SIGTERM
    seen,       \* children whose exit the supervisor has handled
    grace,      \* Date.now() - startedAt < startupGraceMs
    status,     \* the status of the role: [state, pid, fresh]
    worker,     \* the child whose connection is the role's worker
    open,       \* children whose connection is open
    checks,     \* health checks in flight
    step,       \* where close() is
    leaving,    \* the child close() waits for
    faults,     \* faults so far
    monitored   \* the health timer runs

vars == <<proc, closing, timer, restarts, child, told, seen, grace, status, worker, open, checks,
          step, leaving, faults, monitored>>
childVars == <<child, seen, worker, open>>

Status(state, pid) == [state |-> state, pid |-> pid, fresh |-> TRUE]
Alive(p) == child[p] \in {"booting", "connected", "hung"}
Spawned == {p \in Procs : child[p] # "none"}
Fault == faults < MaxFaults /\ faults' = faults + 1

Init ==
    /\ proc = NoProc /\ closing = FALSE /\ timer = FALSE /\ restarts = 0
    /\ child = [p \in Procs |-> "none"] /\ told = {} /\ seen = {}
    /\ grace = FALSE
    /\ status = Status("missing", NoProc)
    /\ worker = NoProc /\ open = {}
    /\ checks = {}
    /\ step = "open" /\ leaving = NoProc
    /\ faults = 0 /\ monitored = FALSE

-----------------------------------------------------------------------------
(* Starting and restarting.                                                  *)

\* The next child starts; "starting" is reported first.
Spawn ==
    LET p == Cardinality(Spawned) + 1 IN
    /\ p \in Procs
    /\ child' = [child EXCEPT ![p] = "booting"]
    /\ proc' = p
    /\ grace' = TRUE
    /\ status' = Status("starting", Web)

DelayMs_flat(n) == 500

DelayMs(n) == IF n >= 6 THEN 30000 ELSE 500 * 2^n

ScheduleRestart ==
    /\ timer' = TRUE
    /\ restarts' = restarts + 1
    /\ status' = Status("failed", Web)

\* Bun.spawn threw
RecordStartFailure ==
    /\ Fault
    /\ IF closing THEN timer' = FALSE /\ UNCHANGED <<restarts, status>> ELSE ScheduleRestart
    /\ UNCHANGED <<proc, child, grace>>

\* RuntimeServiceSupervisor.start
Begin ==
    /\ ~monitored /\ step = "open" /\ Spawned = {} /\ ~timer /\ faults = 0
    /\ monitored' = TRUE
    /\ \/ Spawn /\ UNCHANGED <<timer, restarts, faults>>
       \/ RecordStartFailure
    /\ UNCHANGED <<closing, told, seen, worker, open, checks, step, leaving>>

\* Everything the last child left behind is over.
Quiet ==
    /\ checks = {}
    /\ \A p \in open : child[p] # "exited"
    /\ \A p \in told : child[p] \in {"hung", "exited"}

\* The restart timer fires and calls start().
RestartTimer ==
    /\ timer
    /\ DelayMs(restarts - 1) > StopMs => Quiet
    /\ IF proc # NoProc
       THEN timer' = FALSE /\ UNCHANGED <<proc, restarts, child, grace, status, faults>>
       ELSE \/ Spawn /\ timer' = FALSE /\ UNCHANGED <<restarts, faults>>
            \/ RecordStartFailure
    /\ UNCHANGED <<closing, told, seen, worker, open, checks, step, leaving, monitored>>

ExitSeen_anyChild(p) ==
    /\ child[p] = "exited" /\ p \notin seen
    /\ seen' = seen \cup {p}
    /\ proc' = IF proc = p THEN NoProc ELSE proc
    /\ IF closing THEN UNCHANGED <<timer, restarts, status>> ELSE ScheduleRestart
    /\ UNCHANGED <<closing, child, told, grace, worker, open, checks, step, leaving, faults, monitored>>

\* The handler of proc.exited
ExitSeen(p) ==
    /\ child[p] = "exited" /\ p \notin seen
    /\ seen' = seen \cup {p}
    /\ proc' = IF proc = p THEN NoProc ELSE proc
    /\ IF closing \/ proc # p THEN UNCHANGED <<timer, restarts, status>> ELSE ScheduleRestart
    /\ UNCHANGED <<closing, child, told, grace, worker, open, checks, step, leaving, faults, monitored>>

-----------------------------------------------------------------------------
(* Health checks.                                                            *)

\* checkHealth up to "await this.queue.service"
CheckAsks ==
    /\ monitored /\ ~closing /\ ~timer /\ proc # NoProc
    /\ Cardinality(checks) < MaxChecks
    /\ checks' = checks \cup {[proc |-> proc, spawned |-> Cardinality(Spawned), grace |-> grace,
                               answer |-> {}]}
    /\ UNCHANGED <<proc, closing, timer, restarts, told, grace, status, step, leaving, faults, monitored, childVars>>

\* queue-service answers with what it remembers now.
CheckAnswered(c) ==
    /\ c.answer = {}
    /\ checks' = (checks \ {c}) \cup {[c EXCEPT !.answer = {status}]}
    /\ UNCHANGED <<proc, closing, timer, restarts, told, grace, status, step, leaving, faults, monitored, childVars>>

\* The request times out.
CheckRejected(c) ==
    /\ c.answer = {}
    /\ checks' = checks \ {c}
    /\ UNCHANGED <<proc, closing, timer, restarts, told, grace, status, step, leaving, faults, monitored, childVars>>

\* The clock was read when the check began: a child spawned since counts as just started.
WithinStartupGrace(c) == c.grace \/ Cardinality(Spawned) > c.spawned
BelongsToProc(c, s) == s.pid = NoProc \/ s.pid = c.proc

Unhealthy_noGrace(c, s) ==
    /\ \/ s.state = "missing"
       \/ s.state = "failed" /\ BelongsToProc(c, s)
       \/ s.state # "missing" /\ ~s.fresh

Unhealthy(c, s) ==
    /\ BelongsToProc(c, s) \/ ~WithinStartupGrace(c)
    /\ \/ s.state = "missing" /\ ~WithinStartupGrace(c)
       \/ s.state = "failed" /\ BelongsToProc(c, s)
       \/ s.state # "missing" /\ ~s.fresh /\ ~WithinStartupGrace(c)

RestartFromHealthcheck ==
    IF timer THEN UNCHANGED <<proc, timer, restarts, told, status>>
    ELSE /\ proc' = NoProc
         /\ told' = told \cup ({proc} \ {NoProc})
         /\ ScheduleRestart

CheckEnds(c) ==
    /\ c.answer # {}
    /\ checks' = checks \ {c}
    /\ IF \E s \in c.answer : Unhealthy(c, s)
       THEN RestartFromHealthcheck
       ELSE UNCHANGED <<proc, timer, restarts, told, status>>
    /\ UNCHANGED <<closing, grace, step, leaving, faults, monitored, childVars>>

-----------------------------------------------------------------------------
(* close()                                                                   *)

CloseBegins ==
    /\ step = "open"
    /\ closing' = TRUE /\ monitored' = FALSE /\ timer' = FALSE
    /\ leaving' = proc /\ proc' = NoProc
    /\ status' = Status("stopping", Web)
    /\ step' = "notifying"
    /\ UNCHANGED <<restarts, told, grace, checks, faults, childVars>>

CloseKills_whenAlive ==
    /\ step = "notifying" /\ leaving # NoProc
    /\ told' = told \cup {leaving}
    /\ step' = "waiting"
    /\ UNCHANGED <<proc, closing, timer, restarts, grace, status, checks, leaving, faults, monitored, childVars>>

\* The stopping status is acknowledged, or its request failed.
CloseKills ==
    /\ step = "notifying"
    /\ told' = told \cup ({leaving} \ {NoProc})
    /\ step' = IF leaving = NoProc THEN "closed" ELSE "waiting"
    /\ UNCHANGED <<proc, closing, timer, restarts, grace, status, checks, leaving, faults, monitored, childVars>>

\* shutdownGraceMs is over: SIGKILL.
CloseGraceOver ==
    /\ step = "waiting" /\ Alive(leaving)
    /\ child' = [child EXCEPT ![leaving] = "exited"]
    /\ UNCHANGED <<proc, closing, timer, restarts, told, seen, grace, status, worker, open, checks, step, leaving, faults, monitored>>

CloseEnds ==
    /\ step = "waiting" /\ child[leaving] = "exited"
    /\ step' = "closed"
    /\ UNCHANGED <<proc, closing, timer, restarts, told, grace, status, checks, leaving, faults, monitored, childVars>>

-----------------------------------------------------------------------------
(* The child and its connection to queue-service.                            *)

supervisorVars == <<proc, closing, timer, restarts, told, grace, checks, step, leaving, monitored>>

Hello(p) ==
    /\ child[p] = "booting"
    /\ child' = [child EXCEPT ![p] = "connected"]
    /\ worker' = p /\ open' = open \cup {p}
    /\ status' = Status("starting", p)
    /\ UNCHANGED <<seen, faults, supervisorVars>>

Heartbeat(p) ==
    /\ child[p] = "connected"
    /\ status' = Status("ready", p)
    /\ UNCHANGED <<faults, supervisorVars, childVars>>

ReportsFailed(p) ==
    /\ child[p] = "connected" /\ Fault
    /\ status' = Status("failed", p)
    /\ UNCHANGED <<supervisorVars, childVars>>

\* The event loop of the child blocks for good.
Hangs(p) ==
    /\ child[p] \in {"booting", "connected"} /\ Fault
    /\ child' = [child EXCEPT ![p] = "hung"]
    /\ UNCHANGED <<seen, worker, open, status, supervisorVars>>

\* It crashes, or it was told to stop and stops.
Exits(p) ==
    /\ child[p] \in {"booting", "connected"}
    /\ IF p \in told THEN UNCHANGED faults ELSE Fault
    /\ child' = [child EXCEPT ![p] = "exited"]
    /\ UNCHANGED <<seen, worker, open, status, supervisorVars>>

\* queue-service's closeSocket
CloseSocket(p) ==
    /\ p \in open /\ child[p] = "exited"
    /\ open' = open \ {p}
    /\ worker' = IF worker = p THEN NoProc ELSE worker
    /\ status' = IF worker = p THEN Status("failed", NoProc) ELSE status
    /\ UNCHANGED <<child, seen, faults, supervisorVars>>

\* heartbeatStaleMs pass without a frame; a connected child sends one every two seconds.
GoesStale ==
    /\ status.fresh /\ status.state # "missing"
    /\ \A p \in Procs : child[p] # "connected"
    /\ status' = [status EXCEPT !.fresh = FALSE]
    /\ UNCHANGED <<faults, supervisorVars, childVars>>

\* startupGraceMs pass; a child that is still booting then is a slow one.
GraceEnds ==
    /\ grace
    /\ IF proc # NoProc /\ child[proc] = "booting" THEN Fault ELSE UNCHANGED faults
    /\ grace' = FALSE
    /\ UNCHANGED <<proc, closing, timer, restarts, told, status, checks, step, leaving, monitored, childVars>>

Check(c) == CheckAnswered(c) \/ CheckRejected(c) \/ CheckEnds(c)

Next ==
    \/ Begin \/ RestartTimer
    \/ CheckAsks \/ \E c \in checks : Check(c)
    \/ CloseBegins \/ CloseKills \/ CloseGraceOver \/ CloseEnds
    \/ \E p \in Procs : \/ ExitSeen(p) \/ Hello(p) \/ Heartbeat(p) \/ ReportsFailed(p)
                        \/ Hangs(p) \/ Exits(p) \/ CloseSocket(p)
    \/ GoesStale \/ GraceEnds

Spec == Init /\ [][Next]_vars

\* Timers fire, queue-service answers again and again, a child that is not hung boots,
\* heartbeats and obeys SIGTERM, the sockets of the dead close, time passes.
Fairness ==
    /\ WF_vars(Begin) /\ WF_vars(RestartTimer) /\ WF_vars(CheckAsks)
    /\ WF_vars(\E c \in checks : CheckEnds(c))
    /\ SF_vars(\E c \in checks : CheckAnswered(c))
    /\ WF_vars(CloseKills) /\ WF_vars(CloseGraceOver) /\ WF_vars(CloseEnds)
    /\ \A p \in Procs : /\ WF_vars(ExitSeen(p)) /\ WF_vars(Hello(p)) /\ SF_vars(Heartbeat(p))
                        /\ WF_vars(CloseSocket(p)) /\ WF_vars(p \in told /\ Exits(p))
    /\ WF_vars(GoesStale) /\ WF_vars(GraceEnds)

FairSpec == Spec /\ Fairness

-----------------------------------------------------------------------------
(* Properties.                                                               *)

StatusRows == [state : States, pid : 0..Web, fresh : BOOLEAN]
CheckRows == [proc : Procs, spawned : Procs, grace : BOOLEAN, answer : SUBSET StatusRows]

\* Every variable has its type.
TypeOK ==
    /\ proc \in Procs \cup {NoProc}
    /\ closing \in BOOLEAN /\ timer \in BOOLEAN /\ grace \in BOOLEAN /\ monitored \in BOOLEAN
    /\ child \in [Procs -> Children]
    /\ restarts \in Nat
    /\ told \subseteq Procs /\ seen \subseteq Procs /\ open \subseteq Procs
    /\ status \in StatusRows
    /\ worker \in Procs \cup {NoProc}
    /\ checks \subseteq CheckRows
    /\ step \in {"open", "notifying", "waiting", "closed"}
    /\ leaving \in Procs \cup {NoProc}
    /\ faults \in 0..MaxFaults

\* Whatever checks, exits and restarts overlap, a live child is owned, or was told to
\* stop, or is the one close() is about to tell; and a restart is scheduled only while no
\* child is owned, so none is started over another.
NoForgottenChild ==
    /\ \A p \in Procs : Alive(p) => \/ p = proc \/ p \in told
                                    \/ step = "notifying" /\ p = leaving
    /\ timer => proc = NoProc

\* A service that does nothing wrong is never restarted: neither the supervisor's own
\* reports nor the startup window are mistaken for failures.
HealthyNeverStopped == faults = 0 /\ ~closing => told = {}

\* checkHealth and the exit handler return early when closing: no child is started once
\* close() has begun.
NoStartAfterClose == [][closing => Cardinality(Spawned') = Cardinality(Spawned)]_vars

\* After finitely many faults supervision settles: some child is owned, connected and
\* stays so, or close() was called and has ended, hung child or not.  A child may be
\* restarted for what the one before it left behind, so this rests on the growing restart
\* delay.
SupervisionSettles ==
    <>[](step = "closed" \/ (proc # NoProc /\ child[proc] = "connected" /\ ~timer))
===============================================================================
