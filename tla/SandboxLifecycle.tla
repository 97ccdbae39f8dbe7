--------------------------- MODULE SandboxLifecycle ---------------------------
(* The one sandbox of the bot.  The agent process keeps what it believes of it in *)
(* SandboxLifecycle; the sandbox-worker process has the machine, behind a         *)
(* provider it replaces when the settings change.  Between them are commands that *)
(* take minutes.  The calls of a provider follow each other (LifecycleLock); all  *)
(* sandboxes of a bot have one name, so an id is there or not.  A provider forgets *)
(* nothing of a machine but what it is told to.  Definitions X_y are faulty       *)
(* variants of X.                                                                 *)
EXTENDS Integers, Sequences, FiniteSets, SequencesExt

CONSTANTS
    Runs,       \* agent runs that need the sandbox
    MaxCalls,   \* bound: commands of the agent to the worker
    MaxChanges, \* bound: changes of the sandbox settings
    MaxRetries, \* bound: "retry sandbox setup" in the console
    Mishaps,    \* what can go wrong: some of "create", "resume", "recreate" (the provider
                \* throws), "timeout" (the agent gives up), "refused" (the worker's status forbids
                \* to ask it), "reload" (the settings cannot be resolved), "crash" (of the worker)
    MaxMishaps, \* bound: how often
    MaxEvents   \* bound: changes, retries and mishaps together

ASSUME SandboxAssumption ==
    /\ {MaxCalls, MaxChanges, MaxRetries, MaxMishaps, MaxEvents} \subseteq Nat
    /\ Mishaps \subseteq {"create", "resume", "recreate", "timeout", "refused", "reload", "crash"}

Calls == 1..MaxCalls
NoCall == 0
Changes == 1..MaxChanges
WebReload(k) == 2 * k - 1
AgentReload(k) == 2 * k
Reloads == 1..(2 * MaxChanges + MaxRetries)
Providers == 0..(2 * MaxChanges + MaxRetries + MaxMishaps)

VARIABLES
    state,      \* SandboxLifecycle.state
    hasId,      \* SandboxLifecycle.id is not null
    ready,      \* the call behind SandboxLifecycle.ready, or NoCall
    caller,     \* [Runs -> where ensureBotSandbox is for the run]
    on,         \* [Runs -> the call whose promise the run awaits]
    made,       \* commands sent so far
    open,       \* those the agent still awaits
    kind,       \* [Calls -> what was asked]
    agent,      \* [Changes -> where the agent's reloadSettings is]
    destroying, \* [Changes -> the destroy it awaits]
    stopping,   \* the agent shuts down
    wanted,     \* the settings: how often they changed
    reload,     \* [Reloads -> where the worker's reloadSettings is]
    reads,      \* [Reloads -> the settings it loaded]
    wire,       \* commands on their way to the worker
    provider,   \* SandboxWorkerRuntime.provider: how many came before it
    config,     \* [Providers -> the settings it was made from]
    entry,      \* [Providers -> what it has of the sandbox]
    queue,      \* [Providers -> its lifecycle calls, in order]
    active,     \* activeSessionId is not null
    replies,    \* results on their way to the agent
    mishaps,    \* history: the mishaps so far
    retries     \* retries so far

agentVars == <<state, hasId, ready, caller, on, agent, destroying, stopping>>
workerVars == <<provider, config, entry, queue, active>>
reloadVars == <<wanted, reload, reads, retries>>
vars == <<agentVars, workerVars, reloadVars, made, open, kind, wire, replies, mishaps>>

Init ==
    /\ state = "idle" /\ hasId = FALSE /\ ready = NoCall
    /\ caller = [r \in Runs |-> "out"] /\ on = [r \in Runs |-> NoCall]
    /\ made = 0 /\ open = {} /\ kind = [n \in Calls |-> "none"]
    /\ agent = [k \in Changes |-> "none"] /\ destroying = [k \in Changes |-> NoCall]
    /\ stopping = FALSE
    /\ wanted = 0 /\ retries = 0
    /\ reload = [j \in Reloads |-> "none"] /\ reads = [j \in Reloads |-> 0]
    /\ wire = <<>> /\ replies = {}
    /\ provider = 0 /\ config = [p \in Providers |-> 0]
    /\ entry = [p \in Providers |-> "absent"] /\ queue = [p \in Providers |-> <<>>]
    /\ active = FALSE
    /\ mishaps = <<>>

Asks == {"create", "resume", "recreate", "park", "destroy"}
Commands == [what : Asks, n : Calls] \cup [what : {"reload"}, n : Reloads]
Command(what, n) == [what |-> what, n |-> n]
MoreEvents == wanted + retries + Len(mishaps) < MaxEvents
Mishap(m) ==
    /\ m \in Mishaps /\ Len(mishaps) < MaxMishaps /\ MoreEvents
    /\ mishaps' = Append(mishaps, m)

-----------------------------------------------------------------------------
(* The agent.                                                                *)

\* The next command goes out: SandboxCommandClient.send
Call(what) ==
    /\ made < MaxCalls
    /\ made' = made + 1
    /\ open' = open \cup {made'}
    /\ kind' = [kind EXCEPT ![made'] = what]
    /\ wire' = Append(wire, Command(what, made'))

NoNewCall == UNCHANGED <<made, open, kind, wire>>

\* bringLive up to the first await of startNew or resume
BringLive(r) ==
    \/ /\ state = "idle"
       /\ Call("create") /\ ready' = made'
       /\ caller' = [caller EXCEPT ![r] = "waiting"] /\ on' = [on EXCEPT ![r] = made']
       /\ state' = "starting"
    \/ /\ state = "parked" /\ hasId
       /\ Call("resume") /\ ready' = made'
       /\ caller' = [caller EXCEPT ![r] = "waiting"] /\ on' = [on EXCEPT ![r] = made']
       /\ state' = "resuming"
    \/ /\ state # "idle" /\ ~(state = "parked" /\ hasId)
       /\ caller' = [caller EXCEPT ![r] = IF hasId THEN "served" ELSE "failed"]
       /\ NoNewCall /\ UNCHANGED <<state, ready, on>>

\* ensureBotSandbox
Ensure(r) ==
    /\ caller[r] = "out"
    /\ CASE state = "live" /\ hasId ->
                /\ caller' = [caller EXCEPT ![r] = "served"]
                /\ NoNewCall /\ UNCHANGED <<state, ready, on>>
         [] ~(state = "live" /\ hasId) /\ ready # NoCall ->
                /\ caller' = [caller EXCEPT ![r] = "waiting"] /\ on' = [on EXCEPT ![r] = ready]
                /\ NoNewCall /\ UNCHANGED <<state, ready>>
         [] OTHER -> BringLive(r)
    /\ UNCHANGED <<hasId, agent, destroying, stopping, workerVars, reloadVars, replies, mishaps>>

\* The run is over; another may come.
RunEnds(r) ==
    /\ caller[r] \in {"served", "failed"}
    /\ caller' = [caller EXCEPT ![r] = "out"]
    /\ UNCHANGED <<state, hasId, ready, on, agent, destroying, stopping, workerVars, reloadVars, made,
                   open, kind, wire, replies, mishaps>>

\* refreshMounts
RefreshMounts ==
    /\ state = "live" /\ hasId
    /\ Call("recreate")
    /\ UNCHANGED <<agentVars, workerVars, reloadVars, replies, mishaps>>

\* parkAll, at shutdown
ParkAll ==
    /\ ~stopping
    /\ stopping' = TRUE
    /\ IF state = "live" /\ hasId
       THEN Call("park") /\ state' = "parking"
       ELSE NoNewCall /\ state' = state
    /\ UNCHANGED <<hasId, ready, caller, on, agent, destroying, workerVars, reloadVars, replies, mishaps>>

\* The end of replaceProvider; the agent's reloadSettings goes on to tell the worker.
ForgetAndTell(k) ==
    /\ hasId' = FALSE /\ state' = "idle" /\ ready' = NoCall
    /\ agent' = [agent EXCEPT ![k] = "done"]
    /\ reload' = [reload EXCEPT ![AgentReload(k)] = "sent"]
    /\ wire' = Append(wire, Command("reload", AgentReload(k)))

\* The agent gets reload_settings and calls replaceProvider.
AgentReloads(k) ==
    /\ agent[k] = "due"
    /\ IF hasId /\ state \in {"live", "parked"}
       THEN /\ Call("destroy")
            /\ agent' = [agent EXCEPT ![k] = "destroying"]
            /\ destroying' = [destroying EXCEPT ![k] = made']
            /\ UNCHANGED <<hasId, state, ready, reload>>
       ELSE /\ ForgetAndTell(k)
            /\ UNCHANGED <<made, open, kind, destroying>>
    /\ UNCHANGED <<caller, on, stopping, workerVars, wanted, reads, retries, replies, mishaps>>

\* ... or cannot resolve the new configuration: it keeps what it has, and tells nobody.
AgentReloadFails(k) ==
    /\ agent[k] = "due" /\ Mishap("reload")
    /\ agent' = [agent EXCEPT ![k] = "done"]
    /\ reload' = [reload EXCEPT ![AgentReload(k)] = "failed"]
    /\ UNCHANGED <<state, hasId, ready, caller, on, destroying, stopping, workerVars, wanted, reads,
                   retries, made, open, kind, wire, replies>>

Settle_current(n, ok) ==
    /\ ready' = NoCall
    /\ caller' = [r \in Runs |-> IF caller[r] = "waiting" /\ on[r] = n /\ n = ready
                                 THEN IF ok THEN "served" ELSE "failed" ELSE caller[r]]

\* The promise of call n settles: the runs that await it go on, and look for the id.
Settle(n, ok) ==
    /\ ready' = NoCall
    /\ caller' = [r \in Runs |-> IF caller[r] = "waiting" /\ on[r] = n
                                 THEN IF ok THEN "served" ELSE "failed" ELSE caller[r]]

Created_noCatch(ok) == state' = (IF ok THEN "live" ELSE "starting") /\ hasId' = ok
Created_anyway(ok) == state' = "live" /\ hasId' = TRUE

\* startNew after its await
Created(ok) == state' = (IF ok THEN "live" ELSE "idle") /\ hasId' = ok

\* What awaits command n goes on: startNew, resume, refreshMounts, parkBot, replaceProvider
Returns(n, ok) ==
    /\ open' = open \ {n}
    /\ CASE kind[n] = "create" ->
                /\ Settle(n, ok) /\ Created(ok)
                /\ UNCHANGED <<agent, reload, wire>>
         [] kind[n] = "resume" ->
                /\ Settle(n, ok /\ hasId)
                /\ state' = (IF ok THEN "live" ELSE "parked")
                /\ UNCHANGED <<hasId, agent, reload, wire>>
         [] kind[n] = "recreate" ->
                /\ hasId' = (ok \/ hasId)
                /\ UNCHANGED <<state, ready, caller, agent, reload, wire>>
         [] kind[n] = "park" ->
                /\ state' = (IF ok THEN "parked" ELSE "live")
                /\ UNCHANGED <<hasId, ready, caller, agent, reload, wire>>
         [] kind[n] = "destroy" ->
                /\ \E k \in Changes : destroying[k] = n /\ ForgetAndTell(k)
                /\ UNCHANGED caller
    /\ UNCHANGED <<on, destroying, stopping, workerVars, wanted, reads, retries, made, kind>>

Answered(n) ==
    \E reply \in replies :
        /\ reply.n = n
        /\ replies' = replies \ {reply}
        /\ IF n \in open THEN Returns(n, reply.ok)
           ELSE UNCHANGED <<agentVars, workerVars, reloadVars, made, open, kind, wire>>
        /\ UNCHANGED mishaps

\* assertReady: nothing is sent, and the call fails (LostTimesOut).
Refused(n) ==
    /\ n \in open /\ Mishap("refused")
    /\ \E i \in 1..Len(wire) : wire[i] = Command(kind[n], n) /\ wire' = RemoveAt(wire, i)
    /\ UNCHANGED <<agentVars, workerVars, reloadVars, made, open, kind, replies>>

\* 15 minutes are over.
TimesOut(n) ==
    /\ n \in open /\ \A reply \in replies : reply.n # n
    /\ Mishap("timeout")
    /\ Returns(n, FALSE)
    /\ UNCHANGED replies

\* A command that was not sent, or went down with the worker that had claimed it.
Lost(n) ==
    /\ \A i \in DOMAIN wire : wire[i].what = "reload" \/ wire[i].n # n
    /\ \A p \in Providers : \A i \in DOMAIN queue[p] : queue[p][i].what = "reload" \/ queue[p][i].n # n
    /\ \A reply \in replies : reply.n # n

LostTimesOut(n) ==
    /\ n \in open /\ Lost(n)
    /\ Returns(n, FALSE)
    /\ UNCHANGED <<replies, mishaps>>

-----------------------------------------------------------------------------
(* The settings.                                                             *)

\* updateSettings of the web: it tells the agent, then the worker.
ChangeSettings ==
    /\ wanted < MaxChanges /\ MoreEvents
    /\ wanted' = wanted + 1
    /\ agent' = [agent EXCEPT ![wanted'] = "due"]
    /\ reload' = [reload EXCEPT ![WebReload(wanted')] = "due"]
    /\ UNCHANGED <<state, hasId, ready, caller, on, destroying, stopping, workerVars, reads, retries,
                   made, open, kind, wire, replies, mishaps>>

SendReload(j) ==
    /\ reload[j] = "due"
    /\ reload' = [reload EXCEPT ![j] = "sent"]
    /\ wire' = Append(wire, Command("reload", j))
    /\ UNCHANGED <<agentVars, workerVars, wanted, reads, retries, made, open, kind, replies, mishaps>>

\* retrySandboxSetup of the console: it tells the worker only.
RetrySetup ==
    /\ retries < MaxRetries /\ MoreEvents
    /\ retries' = retries + 1
    /\ reload' = [reload EXCEPT ![2 * MaxChanges + retries'] = "due"]
    /\ UNCHANGED <<agentVars, workerVars, wanted, reads, made, open, kind, wire, replies, mishaps>>

-----------------------------------------------------------------------------
(* The worker.                                                               *)

\* runCommand takes the provider of the moment; reloadSettings loads the settings.
Receive ==
    /\ wire # <<>>
    /\ wire' = Tail(wire)
    /\ LET c == Head(wire) IN
       IF c.what = "reload"
       THEN /\ reload' = [reload EXCEPT ![c.n] = "reading"]
            /\ reads' = [reads EXCEPT ![c.n] = wanted]
            /\ queue' = queue
       ELSE /\ queue' = [queue EXCEPT ![provider] = Append(queue[provider], c)]
            /\ UNCHANGED <<reload, reads>>
    /\ UNCHANGED <<agentVars, wanted, retries, provider, config, entry, active, made, open, kind,
                   replies, mishaps>>

NewProvider_old(j) ==
    /\ reload' = [reload EXCEPT ![j] = "done"]
    /\ provider' = provider + 1
    /\ config' = [config EXCEPT ![provider'] = config[provider]]

\* The end of reloadSettings
NewProvider(j) ==
    /\ reload' = [reload EXCEPT ![j] = "done"]
    /\ provider' = provider + 1
    /\ config' = [config EXCEPT ![provider'] = reads[j]]

\* destroyActiveSandboxForReload, when the configuration is resolved
DestroyActive(j) ==
    /\ reload[j] = "reading"
    /\ active' = FALSE
    /\ IF active
       THEN /\ reload' = [reload EXCEPT ![j] = "destroying"]
            /\ queue' = [queue EXCEPT ![provider] = Append(queue[provider], Command("reload", j))]
            /\ UNCHANGED <<provider, config>>
       ELSE NewProvider(j) /\ queue' = queue
    /\ UNCHANGED <<agentVars, wanted, reads, retries, entry, made, open, kind, wire, replies, mishaps>>

\* resolveEffectiveConfig rejects: the worker keeps its provider and the sandbox.
ReloadFails(j) ==
    /\ reload[j] = "reading" /\ Mishap("reload")
    /\ reload' = [reload EXCEPT ![j] = "failed"]
    /\ UNCHANGED <<agentVars, workerVars, wanted, reads, retries, made, open, kind, wire, replies>>

\* The provider p comes to the end of its first call, and what awaits it goes on.
Completes(p, c) ==
    /\ queue[p] # <<>> /\ c = Head(queue[p])
    /\ queue' = [queue EXCEPT ![p] = Tail(queue[p])]
    /\ entry' = [entry EXCEPT ![p] =
                    CASE c.what \in {"create", "recreate"} -> "live"
                      [] c.what = "resume" -> IF entry[p] = "absent" THEN "absent" ELSE "live"
                      [] c.what = "park" -> IF entry[p] = "live" THEN "parked" ELSE entry[p]
                      [] c.what \in {"destroy", "reload"} -> "absent"]
    /\ active' = (c.what \in {"create", "recreate"} \/ (active /\ c.what # "destroy"))
    /\ IF c.what = "reload"
       THEN NewProvider(c.n) /\ replies' = replies
       ELSE /\ replies' = replies \cup {[n |-> c.n, ok |-> c.what # "resume" \/ entry[p] # "absent"]}
            /\ UNCHANGED <<reload, provider, config>>
    /\ UNCHANGED <<agentVars, wanted, reads, retries, made, open, kind, wire, mishaps>>

\* ... or it throws; recreate has let go of the old machine by then.
Fails(p, c) ==
    /\ queue[p] # <<>> /\ c = Head(queue[p])
    /\ c.what \in {"create", "resume", "recreate"} /\ Mishap(c.what)
    /\ queue' = [queue EXCEPT ![p] = Tail(queue[p])]
    /\ entry' = [entry EXCEPT ![p] = IF c.what = "recreate" THEN "absent" ELSE entry[p]]
    /\ replies' = replies \cup {[n |-> c.n, ok |-> FALSE]}
    /\ UNCHANGED <<agentVars, reloadVars, provider, config, active, made, open, kind, wire>>

\* The worker dies and is started again; it loads the settings.  The first commands on the
\* wire it had claimed, they are lost; queue-service keeps the others for its successor.
WorkerRestarts ==
    /\ Mishap("crash")
    /\ \E claimed \in 0..Len(wire) :
         /\ wire' = SubSeq(wire, claimed + 1, Len(wire))
         /\ reload' = [j \in Reloads |->
                IF \/ reload[j] \in {"reading", "destroying"}
                   \/ \E i \in 1..claimed : wire[i] = Command("reload", j)
                THEN "done" ELSE reload[j]]
    /\ queue' = [p \in Providers |-> <<>>]
    /\ provider' = provider + 1
    /\ config' = [config EXCEPT ![provider'] = wanted]
    /\ active' = FALSE
    /\ UNCHANGED <<agentVars, wanted, reads, retries, entry, made, open, kind, replies>>

-----------------------------------------------------------------------------
AgentStep ==
    \/ \E k \in Changes : AgentReloads(k)
    \/ \E n \in Calls : Answered(n) \/ LostTimesOut(n)
WorkerStep ==
    \/ Receive
    \/ \E j \in Reloads : SendReload(j) \/ DestroyActive(j)
    \/ \E p \in Providers : \E c \in {queue[p][i] : i \in DOMAIN queue[p]} : Completes(p, c)

Next ==
    \/ \E r \in Runs : Ensure(r) \/ RunEnds(r)
    \/ RefreshMounts \/ ParkAll
    \/ ChangeSettings \/ RetrySetup
    \/ AgentStep \/ WorkerStep
    \/ \E n \in Calls : TimesOut(n) \/ Refused(n)
    \/ \E k \in Changes : AgentReloadFails(k)
    \/ \E j \in Reloads : ReloadFails(j)
    \/ \E p \in Providers : \E c \in {queue[p][i] : i \in DOMAIN queue[p]} : Fails(p, c)
    \/ WorkerRestarts

Spec == Init /\ [][Next]_vars

-----------------------------------------------------------------------------
(* Properties.                                                               *)

AtRest ==
    /\ open = {} /\ wire = <<>> /\ replies = {}
    /\ \A p \in Providers : queue[p] = <<>>
    /\ \A j \in Reloads : reload[j] \in {"none", "done", "failed"}
    /\ \A k \in Changes : agent[k] \in {"none", "done"}

\* Each variable keeps its type.
TypeOK ==
    /\ state \in {"idle", "starting", "live", "parking", "parked", "resuming"}
    /\ hasId \in BOOLEAN /\ active \in BOOLEAN /\ stopping \in BOOLEAN
    /\ made \in 0..MaxCalls /\ ready \in 0..made /\ open \subseteq 1..made
    /\ caller \in [Runs -> {"out", "waiting", "served", "failed"}]
    /\ on \in [Runs -> 0..MaxCalls]
    /\ kind \in [Calls -> {"none"} \cup Asks]
    /\ agent \in [Changes -> {"none", "due", "destroying", "done"}]
    /\ destroying \in [Changes -> 0..MaxCalls]
    /\ reload \in [Reloads -> {"none", "due", "sent", "reading", "destroying", "done", "failed"}]
    /\ provider \in Providers /\ config \in [Providers -> 0..MaxChanges]
    /\ entry \in [Providers -> {"absent", "live", "parked"}]
    /\ wire \in Seq(Commands) /\ queue \in [Providers -> Seq(Commands)]
    /\ replies \subseteq [n : Calls, ok : BOOLEAN]
    /\ wanted \in 0..MaxChanges /\ retries \in 0..MaxRetries
    /\ reads \in [Reloads -> 0..MaxChanges]
    /\ mishaps \in Seq(Mishaps) /\ Len(mishaps) <= MaxMishaps

\* When nothing is under way, a sandbox the agent takes for live is one the worker's
\* provider has: a run that is served can use it.  A change of settings during a start
\* breaks it (the start completes in the provider the worker has just replaced).
LiveIsKnown == AtRest /\ state = "live" => entry[provider] # "absent"

\* That is so of the first provider of a worker, whatever fails or comes late, except for
\* a mount refresh that fails after it has let go of the old machine, and for a change of
\* settings that leaves the worker its provider because its reloads failed.
FirstProviderKnown ==
    provider = 0 /\ (\A i \in DOMAIN mishaps : mishaps[i] \notin {"recreate", "reload"}) => LiveIsKnown

\* However reloads, starts, mount refreshes and failures overlap, the agent is left in
\* a state from which the next run can bring the sandbox up (not with a state that
\* waits for something nobody does, or with a state but no id).
NeverStuck ==
    AtRest /\ ~stopping => state \in {"idle", "live"} /\ (state = "live" => hasId)

\* The provider has the settings as they are, or had them until a reload that had read
\* older ones put its own in their place.
Used ==
    \/ config[provider] = wanted
    \/ \E p \in 0..(provider - 1) : config[p] = wanted /\ config[p + 1] < wanted

\* However reloads overlap, fail or are lost with the worker, the settings of the last
\* change come into use, unless both of its reloads failed.  Only a reload that was under
\* way at the change can undo that, by ending after those of the change: each reads the
\* settings first and makes its provider two awaits later.
NewestSettingsUsed ==
    AtRest /\ wanted # 0 =>
        \/ Used
        \/ reload[WebReload(wanted)] = "failed" /\ reload[AgentReload(wanted)] = "failed"

\* Who asks for the sandbox gets an answer, whatever happens to the command behind it:
\* when nothing is under way nobody waits, though reloads forget the promise he waits on.
NobodyForgotten == AtRest => \A r \in Runs : caller[r] # "waiting"
=============================================================================
