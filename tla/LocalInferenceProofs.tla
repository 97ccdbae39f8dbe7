------------------------- MODULE LocalInferenceProofs -------------------------
(* Proofs about LocalInference, for any number of router processes, any settings   *)
(* and any number of faults and changes.                                           *)
EXTENDS LocalInference, TLAPS

\* Outside of "warming", "backfill" and "idle" the worker has no router, and only
\* unload() waits for one.
RouterOnlyAtWork ==
    /\ conf \in {"unloading", "preparing", "cleaning", "marking", "failing"} => router = None
    /\ stopping # None => conf \in {"unloading", "failing"}

\* The exits a worker still waits for are of its own routers, and where there is no worker
\* nothing is under way.
WatchedIsOwn ==
    /\ up = "on" => watched \subseteq {router, stopping}
    /\ up = "off" => /\ watched = {} /\ removals = {} /\ unlinks = {}
                    /\ conf = "idle" /\ waiting = 0 /\ ~timer

\* While the worker is not shutting down it removes only markers of dead routers.
RemovalsOfDead == up = "on" => (removals \cup unlinks) \cap alive = {}

\* A removal that read router.json after its last writing found the marker of its own router,
\* or none, and it says that still.
ReadIsTrue == \A q \in unlinks : q \notin late => marker \in {None, q}

\* What router.json says while a router is being started.
MarkerAtStart ==
    /\ conf = "cleaning" => started \in told /\ marker \in {started, None}
    /\ conf = "marking" => marker = None
    /\ conf \in {"marking", "warming"} => started # None

\* NotReadyMeansRecovering, and the same of a worker in its first backfill.
RetryAhead ==
    up = "on" /\ conf \in {"idle", "backfill"} /\ waiting = 0 /\ ~ready => timer

LocalInv ==
    /\ TypeOK /\ RouterOnlyAtWork /\ WatchedIsOwn /\ RemovalsOfDead /\ ReadIsTrue
    /\ MarkerAtStart /\ RetryAhead
-----------------------------------------------------------------------------
\* The pid of a new router is one that nothing else has.
LEMMA NewPidIsFree ==
  ASSUME FreePids # {}
  PROVE  /\ NewPid \in Routers
         /\ NewPid \notin alive \cup watched \cup removals \cup unlinks \cup {stopping, quitting}
<1>1. NewPid \in FreePids
  BY DEF NewPid
<1>. QED
  BY <1>1 DEF FreePids

\* Every step keeps the flags Boolean.
LEMMA FlagsStep ==
  ASSUME Flags, [Next]_vars
  PROVE  Flags'
<1>. USE DEF Flags, confVars, stateVars, exitVars, processVars, settingsVars
<1>1. ASSUME start PROVE Flags'
  BY <1>1 DEF start
<1>2. ASSUME WorkerDies PROVE Flags'
  BY <1>2 DEF WorkerDies, Exit, Fault
<1>3. ASSUME doShutdown PROVE Flags'
  BY <1>3 DEF doShutdown, Fault
<1>4. ASSUME ShutdownEnds PROVE Flags'
  BY <1>4 DEF ShutdownEnds, Exit
<1>5. ASSUME ShutdownTimesOut PROVE Flags'
  BY <1>5 DEF ShutdownTimesOut, Exit
<1>6. ASSUME ConfigureReuses PROVE Flags'
  BY <1>6 DEF ConfigureReuses
<1>7. ASSUME ConfigureBegins PROVE Flags'
  BY <1>7 DEF ConfigureBegins, Unload
<1>8. ASSUME Unloaded PROVE Flags'
  BY <1>8 DEF Unloaded
<1>9. ASSUME UnloadKills PROVE Flags'
  BY <1>9 DEF UnloadKills
<1>10. ASSUME CleanupKills PROVE Flags'
  BY <1>10 DEF CleanupKills
<1>11. ASSUME CleanupEnds PROVE Flags'
  BY <1>11 DEF CleanupEnds
<1>12. ASSUME Spawn PROVE Flags'
  BY <1>12 DEF Spawn
<1>13. ASSUME Marked PROVE Flags'
  BY <1>13 DEF Marked
<1>14. ASSUME RouterAnswers PROVE Flags'
  BY <1>14 DEF RouterAnswers
<1>15. ASSUME Warmed PROVE Flags'
  BY <1>15 DEF Warmed
<1>16. ASSUME Backfilled PROVE Flags'
  BY <1>16 DEF Backfilled
<1>17. ASSUME ConfigureThrows PROVE Flags'
  BY <1>17 DEF ConfigureThrows, Fault
<1>18. ASSUME ConfigureFailed PROVE Flags'
  BY <1>18 DEF ConfigureFailed
<1>19. ASSUME Retry PROVE Flags'
  BY <1>19 DEF Retry
<1>20. ASSUME ChangeSettings PROVE Flags'
  BY <1>20 DEF ChangeSettings
<1>21. ASSUME ReloadSettings PROVE Flags'
  BY <1>21 DEF ReloadSettings
<1>22. ASSUME NEW r \in Routers, RouterDies(r) PROVE Flags'
  BY <1>22 DEF RouterDies, Fault
<1>23. ASSUME NEW r \in Routers, handleRouterExit(r) PROVE Flags'
  BY <1>23 DEF handleRouterExit
<1>24. ASSUME NEW r \in Routers, ReadMarker(r) PROVE Flags'
  BY <1>24 DEF ReadMarker
<1>26. ASSUME NEW r \in Routers, UnlinkMarker(r) PROVE Flags'
  BY <1>26 DEF UnlinkMarker
<1>27. ASSUME ConfigureReads PROVE Flags'
  BY <1>27 DEF ConfigureReads
<1>28. ASSUME ShutdownReads PROVE Flags'
  BY <1>28 DEF ShutdownReads
<1>25. ASSUME UNCHANGED vars PROVE Flags'
  BY <1>25 DEF vars
<1>. HIDE DEF Flags, confVars, stateVars, exitVars, processVars, settingsVars
<1>. QED
  BY <1>1, <1>2, <1>3, <1>4, <1>5, <1>6, <1>7, <1>8, <1>9, <1>10, <1>11, <1>12, <1>13, <1>14, <1>15, <1>16, <1>17, <1>18, <1>19, <1>20, <1>21, <1>22, <1>23, <1>24, <1>25, <1>26, <1>27, <1>28
  DEF Next, Configure

\* Every step keeps the types.
LEMMA TypeStep ==
  ASSUME TypeOK, MarkerAtStart, [Next]_vars
  PROVE  TypeOK'
<1>0. Flags'
  BY FlagsStep DEF TypeOK
<1>. USE LocalInferenceAssumption DEF TypeOK, None, confVars, stateVars, exitVars, processVars, settingsVars
<1>1. ASSUME start PROVE TypeOK'
  BY <1>0, <1>1 DEF start
<1>2. ASSUME WorkerDies PROVE TypeOK'
  BY <1>0, <1>2 DEF WorkerDies, Exit, Fault
<1>3. ASSUME doShutdown PROVE TypeOK'
  BY <1>0, <1>3 DEF doShutdown, Fault
<1>4. ASSUME ShutdownEnds PROVE TypeOK'
  BY <1>0, <1>4 DEF ShutdownEnds, Exit
<1>5. ASSUME ShutdownTimesOut PROVE TypeOK'
  BY <1>0, <1>5 DEF ShutdownTimesOut, Exit
<1>6. ASSUME ConfigureReuses PROVE TypeOK'
  BY <1>0, <1>6 DEF ConfigureReuses
<1>7. ASSUME ConfigureBegins PROVE TypeOK'
  BY <1>0, <1>7 DEF ConfigureBegins, Unload
<1>8. ASSUME Unloaded PROVE TypeOK'
  BY <1>0, <1>8 DEF Unloaded
<1>9. ASSUME UnloadKills PROVE TypeOK'
  BY <1>0, <1>9 DEF UnloadKills
<1>10. ASSUME CleanupKills PROVE TypeOK'
  BY <1>0, <1>10 DEF CleanupKills
<1>11. ASSUME CleanupEnds PROVE TypeOK'
  BY <1>0, <1>11 DEF CleanupEnds
<1>12. ASSUME Spawn PROVE TypeOK'
  BY <1>0, <1>12, NewPidIsFree DEF Spawn
<1>13. ASSUME Marked PROVE TypeOK'
  BY <1>0, <1>13 DEF Marked, MarkerAtStart
<1>14. ASSUME RouterAnswers PROVE TypeOK'
  BY <1>0, <1>14 DEF RouterAnswers
<1>15. ASSUME Warmed PROVE TypeOK'
  BY <1>0, <1>15 DEF Warmed
<1>16. ASSUME Backfilled PROVE TypeOK'
  BY <1>0, <1>16 DEF Backfilled
<1>17. ASSUME ConfigureThrows PROVE TypeOK'
  BY <1>0, <1>17 DEF ConfigureThrows, Fault
<1>18. ASSUME ConfigureFailed PROVE TypeOK'
  BY <1>0, <1>18 DEF ConfigureFailed
<1>19. ASSUME Retry PROVE TypeOK'
  BY <1>0, <1>19 DEF Retry
<1>20. ASSUME ChangeSettings PROVE TypeOK'
  BY <1>0, <1>20 DEF ChangeSettings
<1>21. ASSUME ReloadSettings PROVE TypeOK'
  BY <1>0, <1>21 DEF ReloadSettings
<1>22. ASSUME NEW r \in Routers, RouterDies(r) PROVE TypeOK'
  BY <1>0, <1>22 DEF RouterDies, Fault
<1>23. ASSUME NEW r \in Routers, handleRouterExit(r) PROVE TypeOK'
  BY <1>0, <1>23 DEF handleRouterExit
<1>24. ASSUME NEW r \in Routers, ReadMarker(r) PROVE TypeOK'
  BY <1>0, <1>24 DEF ReadMarker
<1>26. ASSUME NEW r \in Routers, UnlinkMarker(r) PROVE TypeOK'
  BY <1>0, <1>26 DEF UnlinkMarker
<1>27. ASSUME ConfigureReads PROVE TypeOK'
  BY <1>0, <1>27 DEF ConfigureReads
<1>28. ASSUME ShutdownReads PROVE TypeOK'
  BY <1>0, <1>28 DEF ShutdownReads
<1>25. ASSUME UNCHANGED vars PROVE TypeOK'
  BY <1>0, <1>25 DEF vars
<1>. HIDE DEF TypeOK, confVars, stateVars, exitVars, processVars, settingsVars
<1>. QED
  BY <1>0, <1>0, <1>1, <1>2, <1>3, <1>4, <1>5, <1>6, <1>7, <1>8, <1>9, <1>10, <1>11, <1>12, <1>13, <1>14, <1>15, <1>16, <1>17, <1>18, <1>19, <1>20, <1>21, <1>22, <1>23, <1>24, <1>25, <1>26, <1>27, <1>28
  DEF Next, Configure

\* Every step keeps the invariant.
LEMMA InvStep ==
  ASSUME LocalInv, [Next]_vars
  PROVE  LocalInv'
<1>. DEFINE Rest == RouterOnlyAtWork /\ WatchedIsOwn /\ RemovalsOfDead /\ ReadIsTrue /\ MarkerAtStart /\ RetryAhead
<1>0. TypeOK'
  BY TypeStep DEF LocalInv
<1>. USE LocalInferenceAssumption
     DEF LocalInv, RouterOnlyAtWork, WatchedIsOwn, RemovalsOfDead, ReadIsTrue, MarkerAtStart, RetryAhead,
         TypeOK, None, Routers, confVars, stateVars, exitVars, processVars, settingsVars
<1>1. ASSUME start PROVE Rest'
  BY <1>1 DEF start
<1>2. ASSUME WorkerDies PROVE Rest'
  BY <1>2 DEF WorkerDies, Exit, Fault
<1>3. ASSUME doShutdown PROVE Rest'
  BY <1>3 DEF doShutdown, Fault
<1>4. ASSUME ShutdownEnds PROVE Rest'
  BY <1>4 DEF ShutdownEnds, Exit
<1>5. ASSUME ShutdownTimesOut PROVE Rest'
  BY <1>5 DEF ShutdownTimesOut, Exit
<1>6. ASSUME ConfigureReuses PROVE Rest'
  BY <1>6 DEF ConfigureReuses
<1>7. ASSUME ConfigureBegins PROVE Rest'
  BY <1>7 DEF ConfigureBegins, Unload
<1>8. ASSUME Unloaded PROVE Rest'
  BY <1>8 DEF Unloaded
<1>9. ASSUME UnloadKills PROVE Rest'
  BY <1>9 DEF UnloadKills
<1>10. ASSUME CleanupKills PROVE Rest'
  BY <1>10 DEF CleanupKills
<1>11. ASSUME CleanupEnds PROVE Rest'
  BY <1>11 DEF CleanupEnds
<1>12. ASSUME Spawn PROVE Rest'
  BY <1>12, NewPidIsFree DEF Spawn
<1>13. ASSUME Marked PROVE Rest'
  <2>1. RouterOnlyAtWork'
    BY <1>13 DEF Marked
  <2>6. up = "on" => watched = {}
    BY <1>13 DEF Marked
  <2>2. WatchedIsOwn'
    BY <1>13, <2>6 DEF Marked
  <2>3. RemovalsOfDead'
    BY <1>13 DEF Marked
  <2>4. MarkerAtStart'
    BY <1>13 DEF Marked
  <2>5. RetryAhead'
    BY <1>13 DEF Marked
  <2>7. ReadIsTrue'
    BY <1>13 DEF Marked
  <2>. QED
    BY <2>1, <2>2, <2>3, <2>4, <2>5, <2>7
<1>14. ASSUME RouterAnswers PROVE Rest'
  BY <1>14 DEF RouterAnswers
<1>15. ASSUME Warmed PROVE Rest'
  BY <1>15 DEF Warmed
<1>16. ASSUME Backfilled PROVE Rest'
  BY <1>16 DEF Backfilled
<1>17. ASSUME ConfigureThrows PROVE Rest'
  BY <1>17 DEF ConfigureThrows, Fault
<1>18. ASSUME ConfigureFailed PROVE Rest'
  BY <1>18 DEF ConfigureFailed
<1>19. ASSUME Retry PROVE Rest'
  BY <1>19 DEF Retry
<1>20. ASSUME ChangeSettings PROVE Rest'
  BY <1>20 DEF ChangeSettings
<1>21. ASSUME ReloadSettings PROVE Rest'
  BY <1>21 DEF ReloadSettings
<1>22. ASSUME NEW r \in Routers, RouterDies(r) PROVE Rest'
  BY <1>22 DEF RouterDies, Fault
<1>23. ASSUME NEW r \in Routers, handleRouterExit(r) PROVE Rest'
  <2>1. CASE router = None
    BY <1>23, <2>1 DEF handleRouterExit
  <2>2. CASE router # None
    <3>1. up = "on" => r = router
      BY <1>23, <2>2 DEF handleRouterExit
    <3>2. RouterOnlyAtWork' /\ WatchedIsOwn' /\ MarkerAtStart'
      BY <1>23, <2>2, <3>1 DEF handleRouterExit
    <3>3. RemovalsOfDead'
      <4>1. /\ up' = up /\ alive' = alive /\ removals' = removals \cup {router} /\ r \notin alive
            /\ unlinks' = unlinks
        BY <1>23, <2>2 DEF handleRouterExit, processVars
      <4>. QED
        BY <4>1, <3>1
    <3>4. RetryAhead'
      <4>1. up' = up /\ timer' = (up = "on")
        BY <1>23, <2>2 DEF handleRouterExit
      <4>. QED
        BY <4>1
    <3>5. ReadIsTrue'
      BY <1>23, <2>2 DEF handleRouterExit
    <3>. QED
      BY <3>2, <3>3, <3>4, <3>5
  <2>. QED
    BY <2>1, <2>2
<1>24. ASSUME NEW r \in Routers, ReadMarker(r) PROVE Rest'
  BY <1>24 DEF ReadMarker
<1>26. ASSUME NEW r \in Routers, UnlinkMarker(r) PROVE Rest'
  BY <1>26 DEF UnlinkMarker
<1>27. ASSUME ConfigureReads PROVE Rest'
  BY <1>27 DEF ConfigureReads
<1>28. ASSUME ShutdownReads PROVE Rest'
  BY <1>28 DEF ShutdownReads
<1>25. ASSUME UNCHANGED vars PROVE Rest'
  BY <1>25 DEF vars
<1>. HIDE DEF TypeOK, RouterOnlyAtWork, WatchedIsOwn, RemovalsOfDead, ReadIsTrue, MarkerAtStart, RetryAhead,
              confVars, stateVars, exitVars, processVars, settingsVars
<1>. QED
  BY <1>0, <1>1, <1>2, <1>3, <1>4, <1>5, <1>6, <1>7, <1>8, <1>9, <1>10, <1>11, <1>12, <1>13, <1>14, <1>15, <1>16, <1>17, <1>18, <1>19, <1>20, <1>21, <1>22, <1>23, <1>24, <1>25, <1>26, <1>27, <1>28
  DEF Next, Configure

\* The initial states satisfy the invariant.
LEMMA InitInv == Init => LocalInv
<1>. SUFFICES ASSUME Init PROVE LocalInv
  OBVIOUS
<1>1. Flags
  BY DEF Init, Flags
<1>2. TypeOK
  BY <1>1, LocalInferenceAssumption DEF Init, TypeOK, None, Routers
<1>3. RouterOnlyAtWork /\ WatchedIsOwn /\ RemovalsOfDead /\ ReadIsTrue /\ MarkerAtStart /\ RetryAhead
  BY DEF Init, RouterOnlyAtWork, WatchedIsOwn, RemovalsOfDead, ReadIsTrue, MarkerAtStart, RetryAhead
<1>. QED
  BY <1>2, <1>3 DEF LocalInv

-----------------------------------------------------------------------------
\* What a step may do to the marker of a router that runs undisturbed
MarkerStays ==
    \A r \in alive \ told :
      up = "on" /\ marker = r =>
        \/ marker' = r \/ r \notin alive' \/ r \in told'
        \/ \E q \in late : UnlinkMarker(q)

\* Only an unlink that comes late takes the marker from a router that runs undisturbed.
LEMMA MarkerStep ==
  ASSUME LocalInv, [Next]_vars
  PROVE  MarkerStays
<1>. USE DEF LocalInv, MarkerStays, RemovalsOfDead, ReadIsTrue, MarkerAtStart, TypeOK, None, Routers, confVars,
             stateVars, exitVars, processVars, settingsVars
<1>1. ASSUME start PROVE MarkerStays
  BY <1>1 DEF start
<1>2. ASSUME WorkerDies PROVE MarkerStays
  BY <1>2 DEF WorkerDies, Exit, Fault
<1>3. ASSUME doShutdown PROVE MarkerStays
  BY <1>3 DEF doShutdown, Fault
<1>4. ASSUME ShutdownEnds PROVE MarkerStays
  BY <1>4 DEF ShutdownEnds, Exit
<1>5. ASSUME ShutdownTimesOut PROVE MarkerStays
  BY <1>5 DEF ShutdownTimesOut, Exit
<1>6. ASSUME ConfigureReuses PROVE MarkerStays
  BY <1>6 DEF ConfigureReuses
<1>7. ASSUME ConfigureBegins PROVE MarkerStays
  BY <1>7 DEF ConfigureBegins, Unload
<1>8. ASSUME Unloaded PROVE MarkerStays
  BY <1>8 DEF Unloaded
<1>9. ASSUME UnloadKills PROVE MarkerStays
  BY <1>9 DEF UnloadKills
<1>10. ASSUME CleanupKills PROVE MarkerStays
  BY <1>10 DEF CleanupKills
<1>11. ASSUME CleanupEnds PROVE MarkerStays
  BY <1>11 DEF CleanupEnds
<1>12. ASSUME Spawn PROVE MarkerStays
  BY <1>12, NewPidIsFree DEF Spawn
<1>13. ASSUME Marked PROVE MarkerStays
  BY <1>13 DEF Marked
<1>14. ASSUME RouterAnswers PROVE MarkerStays
  BY <1>14 DEF RouterAnswers
<1>15. ASSUME Warmed PROVE MarkerStays
  BY <1>15 DEF Warmed
<1>16. ASSUME Backfilled PROVE MarkerStays
  BY <1>16 DEF Backfilled
<1>17. ASSUME ConfigureThrows PROVE MarkerStays
  BY <1>17 DEF ConfigureThrows, Fault
<1>18. ASSUME ConfigureFailed PROVE MarkerStays
  BY <1>18 DEF ConfigureFailed
<1>19. ASSUME Retry PROVE MarkerStays
  BY <1>19 DEF Retry
<1>20. ASSUME ChangeSettings PROVE MarkerStays
  BY <1>20 DEF ChangeSettings
<1>21. ASSUME ReloadSettings PROVE MarkerStays
  BY <1>21 DEF ReloadSettings
<1>22. ASSUME NEW r \in Routers, RouterDies(r) PROVE MarkerStays
  BY <1>22 DEF RouterDies, Fault
<1>23. ASSUME NEW r \in Routers, handleRouterExit(r) PROVE MarkerStays
  BY <1>23 DEF handleRouterExit
<1>24. ASSUME NEW r \in Routers, ReadMarker(r) PROVE MarkerStays
  BY <1>24 DEF ReadMarker
<1>26. ASSUME NEW r \in Routers, UnlinkMarker(r) PROVE MarkerStays
  BY <1>26 DEF UnlinkMarker
<1>27. ASSUME ConfigureReads PROVE MarkerStays
  BY <1>27 DEF ConfigureReads
<1>28. ASSUME ShutdownReads PROVE MarkerStays
  BY <1>28 DEF ShutdownReads
<1>25. ASSUME UNCHANGED vars PROVE MarkerStays
  BY <1>25 DEF vars
<1>. HIDE DEF LocalInv, MarkerStays, RemovalsOfDead, ReadIsTrue, MarkerAtStart, TypeOK, confVars, stateVars,
             exitVars, processVars, settingsVars
<1>. QED
  BY <1>1, <1>2, <1>3, <1>4, <1>5, <1>6, <1>7, <1>8, <1>9, <1>10, <1>11, <1>12, <1>13, <1>14, <1>15, <1>16, <1>17, <1>18, <1>19, <1>20, <1>21, <1>22, <1>23, <1>24, <1>25, <1>26, <1>27, <1>28
  DEF Next, Configure

-----------------------------------------------------------------------------
\* LocalInv holds in every reachable state.
THEOREM LocalInvariant == Spec => []LocalInv
<1>1. Init => LocalInv
  BY InitInv
<1>2. LocalInv /\ [Next]_vars => LocalInv'
  BY InvStep
<1>. QED
  BY <1>1, <1>2, PTL DEF Spec

\* Every variable keeps its type: configure(), exits and shutdown, however they overlap,
\* leave pids, settings and phases where the code has them.
THEOREM LocalTypes == Spec => []TypeOK
<1>1. LocalInv => TypeOK
  BY DEF LocalInv
<1>. QED
  BY <1>1, LocalInvariant, PTL

\* A worker at rest that is not ready has a retry before it, for any number of routers,
\* faults and reloads.
THEOREM RecoveryAhead == Spec => []NotReadyMeansRecovering
<1>1. LocalInv => NotReadyMeansRecovering
  BY DEF LocalInv, RetryAhead, NotReadyMeansRecovering
<1>. QED
  BY <1>1, LocalInvariant, PTL

\* However the removals for earlier routers are delayed, the marker of a router that runs
\* undisturbed is taken away by one step only: the unlink of a removal that read router.json
\* before that marker was written.
THEOREM MarkerNeverLost == Spec => MarkerKept
<1>1. LocalInv /\ [Next]_vars => [MarkerStays]_vars
  BY MarkerStep
<1>2. Spec => [][MarkerStays]_vars
  BY <1>1, LocalInvariant, PTL DEF Spec
<1>. QED
  BY <1>2 DEF MarkerKept, MarkerStays
=============================================================================
