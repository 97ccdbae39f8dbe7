---------------------------- MODULE LocalInference ----------------------------
(* The local inference worker and the llama-server ("router") it keeps: the chain  *)
(* of configure() calls, the router from its start to its exit, the file router.json *)
(* by which a later worker finds a router an earlier one left behind, the recovery *)
(* timer, reloads of the settings, shutdown and death of the worker.  One worker   *)
(* lives at a time: the supervisor replaces one that has died or hangs.  Settings  *)
(* stand for localInferenceLoadSettingsKey; localInferenceRequired is always true. *)
(* Definitions X_y are faulty variants of X.                                       *)
EXTENDS FiniteSets, Naturals

CONSTANTS
    MaxRouters, \* bound: router processes alive at once, pids being used again
    Settings,   \* the values of the settings
    MaxChanges, \* bound: changes of the settings, each with its reload
    MaxFaults   \* bound: failed steps of configure, deaths of router or worker, shutdowns

ASSUME LocalInferenceAssumption ==
    /\ MaxRouters \in Nat \ {0} /\ Settings # {} /\ 0 \notin Settings
    /\ {MaxChanges, MaxFaults} \subseteq Nat

Routers == 1..MaxRouters
None == 0 \* no router, no pid in the marker, no settings

VARIABLES
    up,         \* the worker: "on", "leaving" (doShutdown), "removing" (the end of it) or "off"
    conf,       \* where the running configure() is, "idle" if none runs
    waiting,    \* calls of configure() further down the chain configurePromise
    loading,    \* the settings the running configure() has loaded
    started,    \* the router the running configure() has started
    answered,   \* that router has answered the last request of loadAndWarmRouter
    stopping,   \* the router whose exit unload() awaits, in configure() ...
    quitting,   \* ... and in doShutdown()
    router,     \* this.router
    key,        \* this.loadSettingsKey
    ready,      \* this.ready
    timer,      \* the recovery has a timer
    watched,    \* routers whose proc.exited.then(handleRouterExit) has yet to run
    removals,   \* routers whose marker handleRouterExit began to remove, router.json unread
    unlinks,    \* ... and read: it is unlinked next, whatever it says by then
    late,       \* history: those that read it before the marker it holds was written
    alive,      \* router processes
    told,       \* those that were sent SIGTERM
    marker,     \* the pid in router.json
    wanted,     \* the settings as they are saved
    due,        \* reload commands on their way
    overtaken,  \* history: an exit was handled while the last answer was on its way
    changes, faults

confVars == <<conf, waiting, loading, started, answered, stopping>>
stateVars == <<router, key, ready, timer>>
exitVars == <<watched, removals, unlinks, late, overtaken>>
processVars == <<alive, told, marker>>
settingsVars == <<wanted, due, changes>>
vars == <<up, confVars, quitting, stateVars, exitVars, processVars, settingsVars, faults>>

Fault == faults < MaxFaults /\ faults' = faults + 1

Init ==
    /\ up = "off"
    /\ conf = "idle" /\ waiting = 0 /\ loading = None /\ started = None /\ answered = FALSE
    /\ stopping = None /\ quitting = None
    /\ router = None /\ key = None /\ ready = FALSE /\ timer = FALSE /\ overtaken = FALSE
    /\ watched = {} /\ removals = {} /\ unlinks = {} /\ late = {}
    /\ alive = {} /\ told = {} /\ marker = None
    /\ wanted \in Settings /\ due = 0 /\ changes = 0
    /\ faults = 0

-----------------------------------------------------------------------------
(* The process of the worker.                                                *)

\* A new worker: start() queues the first configure().
start ==
    /\ up = "off"
    /\ up' = "on" /\ waiting' = 1
    /\ UNCHANGED <<conf, loading, started, answered, stopping, quitting, stateVars, exitVars,
                   processVars, settingsVars, faults>>

\* The memory of the worker is gone; the routers are not.
Exit ==
    /\ up' = "off"
    /\ conf' = "idle" /\ waiting' = 0 /\ loading' = None /\ started' = None /\ answered' = FALSE
    /\ stopping' = None /\ quitting' = None
    /\ router' = None /\ key' = None /\ ready' = FALSE /\ timer' = FALSE /\ overtaken' = FALSE
    /\ watched' = {} /\ removals' = {} /\ unlinks' = {} /\ late' = {}

\* A crash, a SIGKILL
WorkerDies ==
    /\ up # "off" /\ Fault
    /\ Exit
    /\ UNCHANGED <<processVars, settingsVars>>

\* doShutdown() up to the await in unload(): what configure() is doing goes on.
doShutdown ==
    /\ up = "on" /\ Fault
    /\ up' = "leaving" /\ timer' = FALSE
    /\ quitting' = router
    /\ router' = None /\ key' = None
    /\ told' = told \cup ({router} \ {None})
    /\ UNCHANGED <<confVars, ready, exitVars, alive, marker, settingsVars>>

\* The router has exited; unload() reads router.json to see whether it is to be unlinked.
ShutdownReads ==
    /\ up = "leaving" /\ quitting \notin {None} \cup watched \cup alive
    /\ marker \in {None, quitting}
    /\ up' = "removing"
    /\ UNCHANGED <<confVars, quitting, stateVars, exitVars, processVars, settingsVars, faults>>

\* The rest of unload() and process.exit(0)
ShutdownEnds ==
    /\ \/ /\ up = "leaving" /\ quitting \notin watched \cup alive
          /\ quitting = None \/ marker \notin {None, quitting}
          /\ marker' = marker
       \/ up = "removing" /\ marker' = None
    /\ Exit
    /\ UNCHANGED <<alive, told, settingsVars, faults>>

\* The killer of worker.ts: ten seconds, as long as the grace of unload().
ShutdownTimesOut ==
    /\ up = "leaving" /\ quitting \in alive
    /\ Exit
    /\ UNCHANGED <<processVars, settingsVars, faults>>

-----------------------------------------------------------------------------
(* configure(), one call after the other.                                    *)

\* configure() reads the settings, up to the await of resolveEffectiveConfig.
ConfigureReads ==
    /\ conf = "idle" /\ waiting > 0
    /\ waiting' = waiting - 1
    /\ loading' = wanted /\ conf' = "resolving"
    /\ UNCHANGED <<up, started, answered, stopping, quitting, stateVars, exitVars, processVars,
                   settingsVars, faults>>

\* unload() up to its await
Unload ==
    /\ router' = None /\ key' = None
    /\ stopping' = router
    /\ told' = told \cup ({router} \ {None})

ConfigureReuses_anySettings ==
    /\ conf = "resolving" /\ router # None /\ key # None
    /\ conf' = "idle" /\ loading' = None
    /\ ready' = TRUE /\ timer' = FALSE
    /\ UNCHANGED <<up, waiting, started, answered, stopping, quitting, router, key, exitVars,
                   processVars, settingsVars, faults>>

\* canReuseRouter: the router has the settings already.
ConfigureReuses ==
    /\ conf = "resolving" /\ router # None /\ key = loading
    /\ conf' = "idle" /\ loading' = None
    /\ ready' = TRUE /\ timer' = FALSE
    /\ UNCHANGED <<up, waiting, started, answered, stopping, quitting, router, key, exitVars,
                   processVars, settingsVars, faults>>

\* configure() up to the await in unload()
ConfigureBegins ==
    /\ conf = "resolving" /\ (router = None \/ key # loading)
    /\ ready' = FALSE
    /\ conf' = "unloading" /\ Unload
    /\ UNCHANGED <<up, waiting, loading, started, answered, quitting, timer, exitVars, alive, marker, settingsVars,
                   faults>>

\* The old router has exited, and its marker is removed: configure() waits for both, and no
\* other writes a marker.
Unloaded ==
    /\ conf = "unloading" /\ stopping \notin watched \cup alive
    /\ conf' = "preparing" /\ stopping' = None
    /\ marker' = IF marker = stopping THEN None ELSE marker
    /\ UNCHANGED <<up, waiting, loading, started, answered, quitting, stateVars, exitVars, alive,
                   told, settingsVars, faults>>

\* SIGKILL after SHUTDOWN_GRACE_MS, in either unload()
UnloadKills ==
    /\ {stopping, quitting} \cap alive # {}
    /\ alive' = alive \ {stopping, quitting}
    /\ UNCHANGED <<up, confVars, quitting, stateVars, exitVars, told, marker, settingsVars, faults>>

\* Models, binary and models.ini are there; cleanupStaleLlamaRouter finds a router of an
\* earlier worker and sends SIGTERM.
CleanupKills ==
    /\ conf = "preparing" /\ marker \in alive
    /\ conf' = "cleaning" /\ started' = marker
    /\ told' = told \cup {marker}
    /\ UNCHANGED <<up, waiting, loading, answered, stopping, quitting, stateVars, exitVars, alive,
                   marker, settingsVars, faults>>

\* It is gone within STALE_ROUTER_SHUTDOWN_GRACE_MS, or gets SIGKILL.
CleanupEnds ==
    /\ conf = "cleaning"
    /\ conf' = "preparing" /\ started' = None
    /\ alive' = alive \ {started}
    /\ marker' = None
    /\ UNCHANGED <<up, waiting, loading, answered, stopping, quitting, stateVars, exitVars, told,
                   settingsVars, faults>>

\* A pid no process has and the worker does not remember
FreePids == Routers \ (alive \cup watched \cup removals \cup unlinks \cup {stopping, quitting})
NewPid == CHOOSE r \in FreePids : TRUE

\* startLlamaRouter up to the await of writeLlamaRouterMarker; a stale marker is removed.
Spawn ==
    /\ conf = "preparing" /\ marker \notin alive /\ FreePids # {}
    /\ started' = NewPid
    /\ alive' = alive \cup {NewPid}
    /\ told' = (told \cap alive) \ {NewPid}
    /\ conf' = "marking" /\ answered' = FALSE
    /\ marker' = None
    /\ UNCHANGED <<up, waiting, loading, stopping, quitting, stateVars, exitVars, settingsVars, faults>>

\* The marker is written; the router is the worker's from now on.
Marked ==
    /\ conf = "marking"
    /\ conf' = "warming"
    /\ marker' = started /\ late' = unlinks
    /\ router' = started /\ watched' = watched \cup {started} /\ overtaken' = FALSE
    /\ UNCHANGED <<up, waiting, loading, started, answered, stopping, quitting, key, ready, timer,
                   removals, unlinks, alive, told, settingsVars, faults>>

\* The last answer that loadAndWarmRouter waits for is on its way.
RouterAnswers ==
    /\ conf = "warming" /\ started \in alive /\ ~answered
    /\ answered' = TRUE
    /\ UNCHANGED <<up, conf, waiting, loading, started, stopping, quitting, stateVars, exitVars,
                   processVars, settingsVars, faults>>

\* waitForRouterReady and loadAndWarmRouter are done: whether the router is still there is
\* not looked at.
Warmed ==
    /\ conf = "warming" /\ answered
    /\ conf' = "backfill" /\ started' = None /\ answered' = FALSE
    /\ key' = loading /\ ready' = TRUE /\ timer' = FALSE
    /\ UNCHANGED <<up, waiting, loading, stopping, quitting, router, exitVars, processVars,
                   settingsVars, faults>>

\* runBackfill("startup") returns.
Backfilled ==
    /\ conf = "backfill"
    /\ conf' = "idle" /\ loading' = None
    /\ UNCHANGED <<up, waiting, started, answered, stopping, quitting, stateVars, exitVars,
                   processVars, settingsVars, faults>>

\* A step throws: the configuration, a download, the spawn, the marker (the new router is told to stop), a
\* timeout or a broken connection while warming, the backfill.
ConfigureThrows ==
    /\ \/ conf \in {"resolving", "preparing", "marking", "warming", "backfill"} /\ Fault
       \/ /\ \/ conf = "warming" /\ started \notin alive /\ ~answered
             \/ conf = "backfill" /\ router \notin alive
          /\ UNCHANGED faults
    /\ conf' = "failing"
    /\ router' = None /\ key' = None /\ stopping' = router
    /\ told' = told \cup ({router, IF conf = "marking" THEN started ELSE None} \ {None})
    /\ started' = None /\ answered' = FALSE
    /\ UNCHANGED <<up, waiting, loading, quitting, ready, timer, exitVars, alive, marker, settingsVars>>

ConfigureFailed_silent ==
    /\ conf = "failing" /\ stopping \notin watched \cup alive
    /\ conf' = "idle" /\ loading' = None /\ stopping' = None
    /\ marker' = IF marker = stopping THEN None ELSE marker
    /\ ready' = FALSE
    /\ UNCHANGED <<up, waiting, started, answered, quitting, router, key, timer, exitVars, alive, told,
                   settingsVars, faults>>

\* The end of the catch block: the recovery is scheduled, unless it is closed.
ConfigureFailed ==
    /\ conf = "failing" /\ stopping \notin watched \cup alive
    /\ conf' = "idle" /\ loading' = None /\ stopping' = None
    /\ marker' = IF marker = stopping THEN None ELSE marker
    /\ ready' = FALSE /\ timer' = (up = "on")
    /\ UNCHANGED <<up, waiting, started, answered, quitting, router, key, exitVars, alive, told,
                   settingsVars, faults>>

-----------------------------------------------------------------------------
(* The router exits, the timer fires, the settings change.                   *)

\* A router dies of its own, or because it was told to, or with the pipes of its worker.
RouterDies(r) ==
    /\ r \in alive
    /\ \/ Fault
       \/ r \in told \cup (Routers \ (watched \cup {started})) /\ UNCHANGED faults
    /\ alive' = alive \ {r}
    /\ UNCHANGED <<up, confVars, quitting, stateVars, exitVars, told, marker, settingsVars>>

\* handleRouterExit: whichever router it was that exited, this.router is taken for it.
handleRouterExit(r) ==
    /\ r \in watched \ alive
    /\ watched' = watched \ {r}
    /\ overtaken' = (answered \/ overtaken)
    /\ IF router = None
       THEN UNCHANGED <<router, ready, timer, removals>>
       ELSE /\ router' = None /\ ready' = FALSE
            /\ removals' = removals \cup {router}
            /\ timer' = (up = "on")
    /\ UNCHANGED <<up, confVars, quitting, key, unlinks, late, processVars, settingsVars, faults>>

ReadMarker_anyPid(r) ==
    /\ r \in removals
    /\ removals' = removals \ {r}
    /\ unlinks' = unlinks \cup {r}
    /\ UNCHANGED <<up, confVars, quitting, stateVars, watched, late, overtaken, processVars,
                   settingsVars, faults>>

\* The removal handleRouterExit does not wait for reads router.json: the marker of another
\* router stays, a file that is missing or half written is unlinked.
ReadMarker(r) ==
    /\ r \in removals
    /\ removals' = removals \ {r}
    /\ unlinks' = unlinks \cup (IF marker \in {None, r} THEN {r} ELSE {})
    /\ UNCHANGED <<up, confVars, quitting, stateVars, watched, late, overtaken, processVars,
                   settingsVars, faults>>

\* ... and unlinks it: not what it read, but the file there is by now.
UnlinkMarker(r) ==
    /\ r \in unlinks
    /\ unlinks' = unlinks \ {r} /\ late' = late \ {r}
    /\ marker' = None
    /\ UNCHANGED <<up, confVars, quitting, stateVars, watched, removals, overtaken, alive, told,
                   settingsVars, faults>>

\* The recovery timer
Retry ==
    /\ timer
    /\ timer' = FALSE /\ waiting' = waiting + 1
    /\ UNCHANGED <<up, conf, loading, started, answered, stopping, quitting, router, key, ready,
                   exitVars, processVars, settingsVars, faults>>

\* The web saves the settings and submits a reload.
ChangeSettings ==
    /\ changes < MaxChanges /\ changes' = changes + 1
    /\ wanted' \in Settings
    /\ due' = due + 1
    /\ UNCHANGED <<up, confVars, quitting, stateVars, exitVars, processVars, faults>>

\* handleCommand for reload_settings: runNow does nothing once the recovery is closed.
ReloadSettings ==
    /\ due > 0 /\ up # "off"
    /\ due' = due - 1 /\ timer' = FALSE
    /\ waiting' = IF up = "on" THEN waiting + 1 ELSE waiting
    /\ UNCHANGED <<up, conf, loading, started, answered, stopping, quitting, router, key, ready,
                   exitVars, processVars, wanted, changes, faults>>

-----------------------------------------------------------------------------
Configure ==
    \/ ConfigureReads \/ ConfigureReuses \/ ConfigureBegins \/ Unloaded \/ UnloadKills
    \/ CleanupKills \/ CleanupEnds \/ Spawn \/ Marked \/ RouterAnswers \/ Warmed \/ Backfilled \/ ConfigureThrows \/ ConfigureFailed

Next ==
    \/ start \/ WorkerDies \/ doShutdown \/ ShutdownReads \/ ShutdownEnds \/ ShutdownTimesOut
    \/ Configure \/ Retry \/ ChangeSettings \/ ReloadSettings
    \/ \E r \in Routers :
          RouterDies(r) \/ handleRouterExit(r) \/ ReadMarker(r) \/ UnlinkMarker(r)

Spec == Init /\ [][Next]_vars

\* Callbacks of a live worker happen, timers fire, and the supervisor starts a new worker.
\* A router that lives answers in the end; it need not obey SIGTERM.
Fairness ==
    /\ WF_vars(start) /\ WF_vars(ShutdownReads \/ ShutdownEnds) /\ WF_vars(UnloadKills)
    /\ WF_vars(ConfigureReads \/ ConfigureReuses \/ ConfigureBegins \/ Unloaded \/ CleanupKills
               \/ CleanupEnds \/ Spawn \/ Marked \/ RouterAnswers \/ Warmed \/ Backfilled \/ ConfigureFailed)
    /\ WF_vars(conf = "warming" /\ started \notin alive /\ ~answered /\ ConfigureThrows)
    /\ WF_vars(Retry) /\ WF_vars(ReloadSettings)
    /\ \A r \in Routers :
         WF_vars(handleRouterExit(r)) /\ WF_vars(ReadMarker(r)) /\ WF_vars(UnlinkMarker(r))

FairSpec == Spec /\ Fairness

-----------------------------------------------------------------------------
(* Properties.                                                               *)

Flags ==
    answered \in BOOLEAN /\ ready \in BOOLEAN /\ timer \in BOOLEAN /\ overtaken \in BOOLEAN

\* Every variable keeps its type.
TypeOK ==
    /\ Flags
    /\ up \in {"on", "leaving", "removing", "off"}
    /\ conf \in {"idle", "resolving", "unloading", "preparing", "cleaning", "marking", "warming",
                 "backfill", "failing"}
    /\ waiting \in Nat /\ due \in Nat /\ changes \in Nat /\ faults \in Nat
    /\ loading \in Settings \cup {None} /\ key \in Settings \cup {None} /\ wanted \in Settings
    /\ started \in Routers \cup {None} /\ stopping \in Routers \cup {None}
    /\ quitting \in Routers \cup {None} /\ router \in Routers \cup {None}
    /\ marker \in Routers \cup {None}
    /\ watched \subseteq Routers /\ removals \subseteq Routers
    /\ unlinks \subseteq Routers /\ late \subseteq unlinks
    /\ alive \subseteq Routers /\ told \subseteq Routers

\* Whatever configure() calls, exits, retries and reloads overlap, a worker that is at rest
\* and not ready has a retry before it: nothing cancels the timer and does not begin anew.
NotReadyMeansRecovering ==
    up = "on" /\ conf = "idle" /\ waiting = 0 /\ ~ready => timer

\* router.json names the worker's router as long as that runs and nobody told it to stop, so
\* that a next worker can find what this one leaves behind.  The one step that loses it is the
\* unlink of a removal begun for an earlier router, which read router.json before this
\* router's marker was written: removals that read it later leave it alone.
MarkerKept ==
    [][\A r \in alive \ told :
         up = "on" /\ marker = r =>
           \/ marker' = r \/ r \notin alive' \/ r \in told'
           \/ \E q \in late : UnlinkMarker(q)]_vars

\* After finitely many failures and changes the worker is ready with a live router that has
\* the settings as they are, unless an exit was handled while the last answer was on its
\* way: then configure() calls the worker ready, and cancels the retry, without a router.
RecoverySettles ==
    <>[](ready /\ key = wanted /\ (router \in alive \/ overtaken))
=============================================================================
