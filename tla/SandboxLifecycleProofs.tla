------------------------- MODULE SandboxLifecycleProofs -------------------------
\* Proofs about SandboxLifecycle, for any runs and any number of commands, changes of the
\* settings, retries and mishaps, and about the lock its providers are behind
\* (LifecycleLock), whose promises it is built on.
EXTENDS SandboxLifecycle, LifecycleLock, SequenceTheorems, FiniteSetTheorems, TLAPS

\* Each reload the worker was told of is in one place: on the wire, or behind the calls of
\* one provider.
Told ==
    /\ \A i, k \in 1..Len(wire) :
         wire[i].what = "reload" => /\ reload[wire[i].n] = "sent"
                                    /\ wire[k] = wire[i] => k = i
    /\ \A p, q \in Providers : \A i \in 1..Len(queue[p]), k \in 1..Len(queue[q]) :
         queue[p][i].what = "reload" => /\ reload[queue[p][i].n] = "destroying"
                                        /\ queue[q][k] = queue[p][i] => q = p /\ k = i

\* What is awaited was asked, and a destroy that is awaited is that of a change of the
\* settings the agent works on.
Awaits ==
    /\ \A n \in open : kind[n] \in Asks
    /\ \A k \in Changes : /\ destroying[k] <= made
                          /\ destroying[k] \in open => agent[k] = "destroying"

\* Nobody reloads for a change, or a retry, that has not happened yet.
Untold ==
    /\ \A k \in Changes : /\ agent[k] # "done" => reload[AgentReload(k)] = "none"
                          /\ k > wanted => agent[k] = "none" /\ reload[WebReload(k)] = "none"
    /\ \A r \in 1..MaxRetries : r > retries => reload[2 * MaxChanges + r] = "none"

\* Each provider is due to a reload that is done, or to a crash.
Done == {j \in Reloads : reload[j] = "done"}
Counted == provider <= Cardinality(Done) + Len(mishaps)

TypeInv == TypeOK /\ Told /\ Awaits /\ Untold /\ Counted

-----------------------------------------------------------------------------
(* Commands, sequences and indices.                                          *)

LEMMA CommandKinds ==
  /\ \A what \in Asks, n \in Calls : Command(what, n) \in Commands
  /\ \A j \in Reloads : Command("reload", j) \in Commands
  /\ \A what, n : Command(what, n).what = what /\ Command(what, n).n = n
  /\ \A c \in Commands : IF c.what = "reload" THEN c.n \in Reloads /\ c = Command("reload", c.n)
                         ELSE c.what \in Asks /\ c.n \in Calls
  /\ "reload" \notin Asks
BY DEF Command, Commands, Asks

LEMMA Appended ==
  ASSUME NEW s \in Seq(Commands), NEW e \in Commands
  PROVE  /\ Append(s, e) \in Seq(Commands) /\ Len(s) \in Nat
         /\ Len(Append(s, e)) = Len(s) + 1
         /\ \A k \in 1..(Len(s) + 1) : Append(s, e)[k] = IF k = Len(s) + 1 THEN e ELSE s[k]
         /\ \A k \in 1..Len(s) : s[k] \in Commands
<1>. HIDE DEF Commands
<1>. QED
  OBVIOUS

LEMMA TakenOff ==
  ASSUME NEW s \in Seq(Commands), s # <<>>
  PROVE  /\ Tail(s) \in Seq(Commands) /\ Len(s) \in Nat /\ 1 \in 1..Len(s)
         /\ Len(Tail(s)) = Len(s) - 1
         /\ \A k \in 1..(Len(s) - 1) : Tail(s)[k] = s[k + 1] /\ k + 1 \in 1..Len(s)
         /\ Head(s) = s[1] /\ \A k \in 1..Len(s) : s[k] \in Commands
<1>. HIDE DEF Commands
<1>. QED
  OBVIOUS

\* Every reload is one of the web's, one of the agent's or a retry.
LEMMA ReloadIndex ==
  /\ \A k \in Changes : AgentReload(k) \in Reloads /\ WebReload(k) \in Reloads
  /\ \A k, m \in Changes : /\ AgentReload(k) # WebReload(m)
                           /\ AgentReload(k) = AgentReload(m) => k = m
                           /\ WebReload(k) = WebReload(m) => k = m
  /\ \A r \in 1..MaxRetries : /\ 2 * MaxChanges + r \in Reloads
                              /\ \A k \in Changes : /\ AgentReload(k) # 2 * MaxChanges + r
                                                    /\ WebReload(k) # 2 * MaxChanges + r
  /\ \A j \in Reloads : \/ \E k \in Changes : j = AgentReload(k) \/ j = WebReload(k)
                        \/ \E r \in 1..MaxRetries : j = 2 * MaxChanges + r
<1>1. MaxChanges \in Nat /\ MaxRetries \in Nat
  BY SandboxAssumption
<1>2. ASSUME NEW j \in Reloads, j <= 2 * MaxChanges
      PROVE  \E k \in Changes : j = AgentReload(k) \/ j = WebReload(k)
  <2>1. PICK k \in Nat : j = 2 * k \/ j = 2 * k - 1
    <3>1. (j + 1) \div 2 \in Nat /\ (j = 2 * ((j + 1) \div 2) \/ j = 2 * ((j + 1) \div 2) - 1)
      BY <1>1 DEF Reloads
    <3>. QED
      BY <3>1
  <2>2. k \in Changes
    BY <1>1, <1>2, <2>1 DEF Changes, Reloads
  <2>. QED
    BY <2>1, <2>2 DEF AgentReload, WebReload
<1>3. ASSUME NEW j \in Reloads, j > 2 * MaxChanges
      PROVE  \E r \in 1..MaxRetries : j = 2 * MaxChanges + r
  <2>1. j - 2 * MaxChanges \in 1..MaxRetries
    BY <1>1, <1>3 DEF Reloads
  <2>. QED
    BY <1>1, <2>1 DEF Reloads
<1>4. \A j \in Reloads : j \in Nat /\ (j <= 2 * MaxChanges \/ j > 2 * MaxChanges)
  BY <1>1 DEF Reloads
<1>5. \A k \in Changes : AgentReload(k) \in Reloads /\ WebReload(k) \in Reloads
  BY <1>1 DEF AgentReload, WebReload, Reloads, Changes
<1>6. \A k, m \in Changes : /\ AgentReload(k) # WebReload(m)
                            /\ AgentReload(k) = AgentReload(m) => k = m
                            /\ WebReload(k) = WebReload(m) => k = m
  BY <1>1 DEF AgentReload, WebReload, Changes
<1>7. \A r \in 1..MaxRetries : /\ 2 * MaxChanges + r \in Reloads
                               /\ \A k \in Changes : /\ AgentReload(k) # 2 * MaxChanges + r
                                                     /\ WebReload(k) # 2 * MaxChanges + r
  BY <1>1 DEF AgentReload, WebReload, Changes, Reloads
<1>. QED
  BY <1>2, <1>3, <1>4, <1>5, <1>6, <1>7

\* What a new command of the agent changes.
LEMMA CallFacts ==
  ASSUME TypeOK, NEW what \in Asks, Call(what)
  PROVE  /\ made' = made + 1 /\ made' \in Calls /\ made' \in 0..MaxCalls
         /\ open' = open \cup {made'} /\ open' \subseteq 1..made' /\ made' \notin open
         /\ kind' = [kind EXCEPT ![made'] = what]
         /\ kind' \in [Calls -> {"none"} \cup Asks]
         /\ wire' = Append(wire, Command(what, made'))
         /\ Command(what, made') \in Commands
<1>1. MaxCalls \in Nat
  BY SandboxAssumption
<1>2. made' = made + 1 /\ made' \in Calls /\ made' \in 0..MaxCalls
  BY <1>1 DEF Call, TypeOK, Calls
<1>3. open' = open \cup {made'} /\ open' \subseteq 1..made' /\ made' \notin open
  BY <1>2 DEF Call, TypeOK
<1>4. kind' = [kind EXCEPT ![made'] = what] /\ wire' = Append(wire, Command(what, made'))
  BY DEF Call
<1>5. kind' \in [Calls -> {"none"} \cup Asks]
  BY <1>2, <1>4 DEF TypeOK
<1>. QED
  BY <1>2, <1>3, <1>4, <1>5, CommandKinds

\* Where reloads are when a command that is none goes out.
LEMMA ToldAsk ==
  ASSUME TypeOK, Told, NEW c \in Commands, c.what # "reload", wire' = Append(wire, c),
         UNCHANGED <<reload, queue>>
  PROVE  Told' /\ wire' \in Seq(Commands)
<1>1. /\ wire' \in Seq(Commands) /\ Len(wire) \in Nat /\ Len(wire') = Len(wire) + 1
      /\ \A k \in 1..(Len(wire) + 1) : wire'[k] = IF k = Len(wire) + 1 THEN c ELSE wire[k]
  BY Appended DEF TypeOK
<1>2. ASSUME NEW i \in 1..Len(wire'), NEW k \in 1..Len(wire'), wire'[i].what = "reload"
      PROVE  reload'[wire'[i].n] = "sent" /\ (wire'[k] = wire'[i] => k = i)
  <2>1. i \in 1..Len(wire) /\ wire'[i] = wire[i]
    BY <1>1, <1>2
  <2>2. wire'[k] = wire'[i] => k \in 1..Len(wire) /\ wire'[k] = wire[k]
    BY <1>1, <2>1, <1>2
  <2>. QED
    BY <1>2, <2>1, <2>2 DEF Told
<1>. QED
  BY <1>1, <1>2 DEF Told

\* ... and when a reload goes out.
LEMMA ToldReload ==
  ASSUME TypeOK, Told, NEW j \in Reloads, reload[j] \in {"none", "due"},
         reload' = [reload EXCEPT ![j] = "sent"],
         wire' = Append(wire, Command("reload", j)), UNCHANGED queue
  PROVE  Told' /\ wire' \in Seq(Commands)
<1>. DEFINE c == Command("reload", j)
<1>0. c \in Commands /\ c.what = "reload" /\ c.n = j
  BY CommandKinds
<1>1. /\ wire' \in Seq(Commands) /\ Len(wire) \in Nat /\ Len(wire') = Len(wire) + 1
      /\ \A k \in 1..(Len(wire) + 1) : wire'[k] = IF k = Len(wire) + 1 THEN c ELSE wire[k]
      /\ \A k \in 1..Len(wire) : wire[k] \in Commands
  BY <1>0, Appended DEF TypeOK
<1>. HIDE DEF c
<1>2. ASSUME NEW i \in 1..Len(wire), wire[i].what = "reload"
      PROVE  wire[i].n # j /\ wire[i].n \in Reloads /\ wire[i] # c
  BY <1>0, <1>1, <1>2, CommandKinds DEF Told
<1>3. ASSUME NEW i \in 1..Len(wire'), NEW k \in 1..Len(wire'), wire'[i].what = "reload"
      PROVE  reload'[wire'[i].n] = "sent" /\ (wire'[k] = wire'[i] => k = i)
  <2>1. CASE i = Len(wire) + 1
    <3>1. wire'[i] = c /\ (k # i => k \in 1..Len(wire) /\ wire'[k] = wire[k])
      BY <1>1, <2>1
    <3>. QED
      BY <1>0, <1>2, <3>1 DEF TypeOK
  <2>2. CASE i # Len(wire) + 1
    <3>1. i \in 1..Len(wire) /\ wire'[i] = wire[i]
      BY <1>1, <2>2
    <3>2. reload'[wire'[i].n] = "sent"
      BY <1>2, <1>3, <3>1 DEF TypeOK, Told
    <3>3. wire[i].what = "reload" /\ wire[i] # c
      BY <1>2, <1>3, <3>1
    <3>4. wire'[k] = c \/ (k \in 1..Len(wire) /\ wire'[k] = wire[k])
      BY <1>1
    <3>. QED
      BY <3>1, <3>2, <3>3, <3>4 DEF Told
  <2>. QED
    BY <2>1, <2>2
<1>4. ASSUME NEW p \in Providers, NEW i \in 1..Len(queue[p]), queue[p][i].what = "reload"
      PROVE  reload'[queue[p][i].n] = "destroying"
  <2>1. queue[p][i] \in Commands
    BY LenProperties DEF TypeOK
  <2>2. reload[queue[p][i].n] = "destroying" /\ queue[p][i].n \in Reloads
    BY <1>4, <2>1, CommandKinds DEF Told
  <2>. QED
    BY <2>2 DEF TypeOK
<1>. QED
  BY <1>1, <1>3, <1>4 DEF Told

-----------------------------------------------------------------------------
(* How many providers there have been.                                       *)

LEMMA ReloadCount == IsFiniteSet(Reloads) /\ Cardinality(Reloads) = 2 * MaxChanges + MaxRetries
<1>. DEFINE N == 2 * MaxChanges + MaxRetries
<1>1. N \in Nat
  BY SandboxAssumption
<1>2. Reloads = 1..N
  BY DEF Reloads
<1>. HIDE DEF N
<1>3. IsFiniteSet(1..N) /\ Cardinality(1..N) = (IF 1 > N THEN 0 ELSE N - 1 + 1)
  BY <1>1, FS_Interval
<1>4. IsFiniteSet(Reloads) /\ Cardinality(Reloads) = N
  BY <1>1, <1>2, <1>3
<1>. QED
  BY <1>4 DEF N

LEMMA DoneCount ==
  /\ IsFiniteSet(Done) /\ Cardinality(Done) \in Nat
  /\ Cardinality(Done) <= 2 * MaxChanges + MaxRetries
<1>1. MaxChanges \in Nat /\ MaxRetries \in Nat
  BY SandboxAssumption
<1>2. IsFiniteSet(Reloads) /\ Cardinality(Reloads) = 2 * MaxChanges + MaxRetries
  BY ReloadCount
<1>3. Done \in SUBSET Reloads
  BY DEF Done
<1>. QED
  BY <1>2, <1>3, FS_Subset, FS_CardinalityType

\* The same of the next state.
LEMMA DoneCountNext ==
  /\ IsFiniteSet(Done') /\ Cardinality(Done') \in Nat
  /\ Cardinality(Done') <= 2 * MaxChanges + MaxRetries
<1>1. MaxChanges \in Nat /\ MaxRetries \in Nat
  BY SandboxAssumption
<1>2. IsFiniteSet(Reloads) /\ Cardinality(Reloads) = 2 * MaxChanges + MaxRetries
  BY ReloadCount
<1>3. Done' \in SUBSET Reloads
  BY DEF Done
<1>. QED
  BY <1>2, <1>3, FS_Subset, FS_CardinalityType

\* What counts providers bounds them.
LEMMA ProviderType ==
  ASSUME Counted', Len(mishaps') \in Nat, Len(mishaps') <= MaxMishaps, provider' \in Nat
  PROVE  provider' \in Providers
<1>1. MaxChanges \in Nat /\ MaxRetries \in Nat /\ MaxMishaps \in Nat
  BY SandboxAssumption
<1>2. provider' <= Cardinality(Done') + Len(mishaps')
  BY DEF Counted
<1>. QED
  BY <1>1, <1>2, DoneCountNext DEF Providers

\* A mishap is one more.
LEMMA MishapCount ==
  ASSUME TypeOK, NEW m, Mishap(m)
  PROVE  /\ mishaps' \in Seq(Mishaps) /\ Len(mishaps') = Len(mishaps) + 1
         /\ Len(mishaps) \in Nat /\ Len(mishaps') \in Nat /\ Len(mishaps') <= MaxMishaps
         /\ mishaps' = Append(mishaps, m)
<1>1. mishaps' = Append(mishaps, m) /\ m \in Mishaps /\ Len(mishaps) < MaxMishaps
  BY DEF Mishap
<1>2. mishaps \in Seq(Mishaps) /\ MaxMishaps \in Nat
  BY SandboxAssumption DEF TypeOK
<1>. QED
  BY <1>1, <1>2

LEMMA SameProvider ==
  ASSUME TypeOK, Counted, Done \subseteq Done', UNCHANGED provider,
         Len(mishaps') \in Nat, Len(mishaps') >= Len(mishaps)
  PROVE  Counted'
<1>1. Cardinality(Done) <= Cardinality(Done')
  BY DoneCountNext, FS_Subset
<1>2. Len(mishaps) \in Nat /\ provider \in Nat
  BY SandboxAssumption, LenProperties DEF TypeOK, Providers
<1>. QED
  BY <1>1, <1>2, DoneCount, DoneCountNext DEF Counted

\* A provider made by a reload.
LEMMA NextProvider ==
  ASSUME TypeOK, Counted, NEW j \in Reloads, reload[j] # "done", NewProvider(j), UNCHANGED mishaps
  PROVE  /\ Counted' /\ provider' \in Providers /\ provider' = provider + 1
         /\ reload' = [reload EXCEPT ![j] = "done"]
         /\ config' = [config EXCEPT ![provider'] = reads[j]]
         /\ config' \in [Providers -> 0..MaxChanges] /\ config'[provider'] = reads[j]
<1>1. /\ provider' = provider + 1 /\ reload' = [reload EXCEPT ![j] = "done"]
      /\ config' = [config EXCEPT ![provider'] = reads[j]]
  BY DEF NewProvider
<1>2. Done' = Done \cup {j} /\ j \notin Done
  BY <1>1 DEF Done, TypeOK
<1>3. Cardinality(Done') = Cardinality(Done) + 1
  BY <1>2, DoneCount, FS_AddElement
<1>4. Len(mishaps) \in Nat /\ Len(mishaps) <= MaxMishaps /\ provider \in Nat
  BY SandboxAssumption, LenProperties DEF TypeOK, Providers
<1>5. Counted'
  BY <1>1, <1>3, <1>4, DoneCount DEF Counted
<1>6. provider' \in Providers
  BY <1>1, <1>4, <1>5, ProviderType
<1>7. config' \in [Providers -> 0..MaxChanges] /\ config'[provider'] = reads[j]
  BY <1>1, <1>6 DEF TypeOK
<1>. QED
  BY <1>1, <1>5, <1>6, <1>7

-----------------------------------------------------------------------------
(* The actions, case by case.                                                *)

\* A run that asks is answered, joins a call under way, or makes one.
LEMMA EnsureCases ==
  ASSUME TypeOK, NEW r \in Runs, Ensure(r)
  PROVE  /\ caller[r] = "out"
         /\ UNCHANGED <<hasId, agent, destroying, stopping, workerVars, reloadVars, replies, mishaps>>
         /\ \/ /\ NoNewCall /\ UNCHANGED <<state, ready, on>>
               /\ \E v \in {"served", "failed"} : caller' = [caller EXCEPT ![r] = v]
            \/ /\ NoNewCall /\ UNCHANGED <<state, ready>> /\ ready # NoCall
               /\ caller' = [caller EXCEPT ![r] = "waiting"] /\ on' = [on EXCEPT ![r] = ready]
            \/ \E what \in {"create", "resume"} :
                 /\ Call(what) /\ ready' = made'
                 /\ caller' = [caller EXCEPT ![r] = "waiting"] /\ on' = [on EXCEPT ![r] = made']
                 /\ what = "create" => state = "idle" /\ state' = "starting"
                 /\ what = "resume" => state = "parked" /\ state' = "resuming"
<1>1. /\ caller[r] = "out"
      /\ UNCHANGED <<hasId, agent, destroying, stopping, workerVars, reloadVars, replies, mishaps>>
  BY DEF Ensure
<1>2. CASE state = "live" /\ hasId
  <2>1. caller' = [caller EXCEPT ![r] = "served"] /\ NoNewCall /\ UNCHANGED <<state, ready, on>>
    BY <1>2 DEF Ensure
  <2>. QED
    BY <1>1, <2>1
<1>3. CASE ~(state = "live" /\ hasId) /\ ready # NoCall
  <2>1. /\ caller' = [caller EXCEPT ![r] = "waiting"] /\ on' = [on EXCEPT ![r] = ready]
        /\ NoNewCall /\ UNCHANGED <<state, ready>>
    BY <1>3 DEF Ensure
  <2>. QED
    BY <1>1, <1>3, <2>1
<1>4. CASE ~(state = "live" /\ hasId) /\ ready = NoCall
  <2>1. BringLive(r)
    BY <1>4 DEF Ensure
  <2>2. CASE /\ state = "idle"
             /\ Call("create") /\ ready' = made'
             /\ caller' = [caller EXCEPT ![r] = "waiting"] /\ on' = [on EXCEPT ![r] = made']
             /\ state' = "starting"
    BY <1>1, <2>2
  <2>3. CASE /\ state = "parked" /\ hasId
             /\ Call("resume") /\ ready' = made'
             /\ caller' = [caller EXCEPT ![r] = "waiting"] /\ on' = [on EXCEPT ![r] = made']
             /\ state' = "resuming"
    BY <1>1, <2>3
  <2>4. CASE /\ caller' = [caller EXCEPT ![r] = IF hasId THEN "served" ELSE "failed"]
             /\ NoNewCall /\ UNCHANGED <<state, ready, on>>
    BY <1>1, <2>4
  <2>. QED
    BY <2>1, <2>2, <2>3, <2>4 DEF BringLive
<1>. QED
  BY <1>2, <1>3, <1>4

\* What goes on when command n returns.
LEMMA ReturnsCases ==
  ASSUME NEW n, NEW ok, kind[n] \in Asks, Returns(n, ok)
  PROVE  /\ open' = open \ {n}
         /\ UNCHANGED <<on, destroying, stopping, workerVars, wanted, reads, retries, made, kind>>
         /\ \/ kind[n] = "create" /\ Settle(n, ok) /\ Created(ok) /\ UNCHANGED <<agent, reload, wire>>
            \/ /\ kind[n] = "resume" /\ Settle(n, ok /\ hasId)
               /\ state' = (IF ok THEN "live" ELSE "parked")
               /\ UNCHANGED <<hasId, agent, reload, wire>>
            \/ /\ kind[n] = "recreate" /\ hasId' = (ok \/ hasId)
               /\ UNCHANGED <<state, ready, caller, agent, reload, wire>>
            \/ /\ kind[n] = "park" /\ state' = (IF ok THEN "parked" ELSE "live")
               /\ UNCHANGED <<hasId, ready, caller, agent, reload, wire>>
            \/ /\ kind[n] = "destroy" /\ UNCHANGED caller
               /\ \E k \in Changes : destroying[k] = n /\ ForgetAndTell(k)
<1>1. /\ open' = open \ {n}
      /\ UNCHANGED <<on, destroying, stopping, workerVars, wanted, reads, retries, made, kind>>
  BY DEF Returns
<1>2. CASE kind[n] = "create"
  BY <1>1, <1>2 DEF Returns
<1>3. CASE kind[n] = "resume"
  BY <1>1, <1>3 DEF Returns
<1>4. CASE kind[n] = "recreate"
  BY <1>1, <1>4 DEF Returns
<1>5. CASE kind[n] = "park"
  BY <1>1, <1>5 DEF Returns
<1>6. CASE kind[n] = "destroy"
  BY <1>1, <1>6 DEF Returns
<1>. QED
  BY <1>2, <1>3, <1>4, <1>5, <1>6 DEF Asks

-----------------------------------------------------------------------------
(* Types, and where reloads are.                                             *)

LEMMA InitTypes == Init => TypeInv
<1>. SUFFICES ASSUME Init PROVE TypeInv
  OBVIOUS
<1>1. /\ MaxChanges \in Nat /\ MaxRetries \in Nat /\ MaxCalls \in Nat /\ MaxMishaps \in Nat
      /\ 0 \in Providers /\ 0 \in 0..MaxChanges /\ 0 \in 0..MaxCalls /\ 0 \in 0..MaxRetries
  BY SandboxAssumption DEF Providers
<1>2. wire \in Seq(Commands) /\ queue \in [Providers -> Seq(Commands)]
  <2>. HIDE DEF Commands
  <2>. QED
    BY DEF Init
<1>3. mishaps \in Seq(Mishaps) /\ Len(mishaps) <= MaxMishaps /\ Len(mishaps) = 0
  BY <1>1 DEF Init
<1>4. kind \in [Calls -> {"none"} \cup Asks]
  BY DEF Init
<1>5. /\ agent \in [Changes -> {"none", "due", "destroying", "done"}]
      /\ reload \in [Reloads -> {"none", "due", "sent", "reading", "destroying", "done", "failed"}]
      /\ caller \in [Runs -> {"out", "waiting", "served", "failed"}]
      /\ entry \in [Providers -> {"absent", "live", "parked"}]
  BY DEF Init
<1>6. /\ on \in [Runs -> 0..MaxCalls] /\ destroying \in [Changes -> 0..MaxCalls]
      /\ reads \in [Reloads -> 0..MaxChanges] /\ config \in [Providers -> 0..MaxChanges]
  BY <1>1 DEF Init, NoCall
<1>7. TypeOK
  <2>1. /\ state = "idle" /\ hasId \in BOOLEAN /\ active \in BOOLEAN /\ stopping \in BOOLEAN
        /\ open = {} /\ replies = {}
    BY DEF Init
  <2>2. made \in 0..MaxCalls /\ ready \in 0..made
    BY <1>1 DEF Init, NoCall
  <2>3. wanted \in 0..MaxChanges /\ retries \in 0..MaxRetries /\ provider \in Providers
    BY <1>1 DEF Init
  <2>. QED
    BY <1>2, <1>3, <1>4, <1>5, <1>6, <2>1, <2>2, <2>3 DEF TypeOK
<1>8. Told
  BY DEF Init, Told
<1>9. Awaits
  BY <1>1 DEF Init, Awaits, NoCall
<1>10. Untold
  <2>1. \A j \in Reloads : reload[j] = "none"
    BY DEF Init
  <2>. QED
    BY <2>1, ReloadIndex DEF Init, Untold
<1>11. Counted
  <2>1. provider = 0 /\ Len(mishaps) = 0
    BY <1>3 DEF Init
  <2>. QED
    BY <2>1, DoneCount DEF Counted
<1>. QED
  BY <1>7, <1>8, <1>9, <1>10, <1>11 DEF TypeInv

\* Nothing happens to reloads.
LEMMA ReloadsKept ==
  ASSUME TypeInv, UNCHANGED <<agent, destroying, workerVars, reloadVars, mishaps, made, kind, wire>>,
         open' \subseteq open
  PROVE  Told' /\ Awaits' /\ Untold' /\ Counted'
<1>1. Told' /\ Awaits' /\ Untold'
  BY DEF TypeInv, Told, Awaits, Untold, workerVars, reloadVars
<1>2. Done' = Done /\ UNCHANGED <<provider, mishaps>>
  BY DEF Done, workerVars, reloadVars
<1>3. Counted'
  BY <1>2 DEF TypeInv, Counted
<1>. QED
  BY <1>1, <1>3

\* A command other than a destroy goes out.
LEMMA AskKeeps ==
  ASSUME TypeInv, NEW what \in Asks, Call(what),
         UNCHANGED <<agent, destroying, workerVars, reloadVars, mishaps>>
  PROVE  Told' /\ Awaits' /\ Untold' /\ Counted' /\ wire' \in Seq(Commands)
<1>1. /\ made' = made + 1 /\ made \in Nat /\ open' = open \cup {made'} /\ open \subseteq 1..made
      /\ kind' = [kind EXCEPT ![made'] = what] /\ made' \in Calls
      /\ wire' = Append(wire, Command(what, made')) /\ Command(what, made') \in Commands
  BY CallFacts DEF TypeInv, TypeOK
<1>2. Command(what, made').what # "reload"
  BY CommandKinds
<1>3. Told' /\ wire' \in Seq(Commands)
  BY <1>1, <1>2, ToldAsk DEF TypeInv, workerVars, reloadVars
<1>4. Awaits'
  <2>1. \A k \in Changes : destroying[k] \in 0..MaxCalls
    BY DEF TypeInv, TypeOK
  <2>2. MaxCalls \in Nat
    BY SandboxAssumption
  <2>3. \A k \in Changes : destroying[k] <= made' /\ destroying[k] # made'
    BY <1>1, <2>1, <2>2 DEF TypeInv, Awaits
  <2>4. \A n \in open' : kind'[n] \in Asks
    BY <1>1 DEF TypeInv, Awaits, TypeOK
  <2>. QED
    BY <1>1, <2>3, <2>4 DEF TypeInv, Awaits
<1>5. Untold'
  BY DEF TypeInv, Untold, reloadVars
<1>6. Done' = Done /\ UNCHANGED <<provider, mishaps>>
  BY DEF Done, workerVars, reloadVars
<1>. QED
  BY <1>3, <1>4, <1>5, <1>6 DEF TypeInv, Counted

LEMMA EnsureTypes ==
  ASSUME TypeInv, NEW r \in Runs, Ensure(r)
  PROVE  TypeInv'
<1>1. UNCHANGED <<hasId, agent, destroying, stopping, workerVars, reloadVars, replies, mishaps>>
  BY EnsureCases DEF TypeInv
<1>2. CASE /\ NoNewCall /\ UNCHANGED <<state, ready>>
           /\ \/ UNCHANGED on /\ \E v \in {"served", "failed"} : caller' = [caller EXCEPT ![r] = v]
              \/ caller' = [caller EXCEPT ![r] = "waiting"] /\ on' = [on EXCEPT ![r] = ready]
  <2>1. caller' \in [Runs -> {"out", "waiting", "served", "failed"}]
    BY <1>2 DEF TypeInv, TypeOK
  <2>2. on' \in [Runs -> 0..MaxCalls]
    <3>1. ready \in 0..MaxCalls
      BY SandboxAssumption DEF TypeInv, TypeOK
    <3>. QED
      BY <1>2, <3>1 DEF TypeInv, TypeOK
  <2>3. UNCHANGED <<made, open, kind, wire>>
    BY <1>2 DEF NoNewCall
  <2>4. Told' /\ Awaits' /\ Untold' /\ Counted'
    BY <1>1, <2>3, ReloadsKept
  <2>. QED
    BY <1>1, <1>2, <2>1, <2>2, <2>3, <2>4 DEF TypeInv, TypeOK, workerVars, reloadVars
<1>3. ASSUME NEW what \in {"create", "resume"},
             Call(what), ready' = made', state' \in {"starting", "resuming"},
             caller' = [caller EXCEPT ![r] = "waiting"], on' = [on EXCEPT ![r] = made']
      PROVE  TypeInv'
  <2>1. what \in Asks
    BY DEF Asks
  <2>2. Told' /\ Awaits' /\ Untold' /\ Counted' /\ wire' \in Seq(Commands)
    BY <1>1, <1>3, <2>1, AskKeeps
  <2>3. /\ made' \in 0..MaxCalls /\ open' \subseteq 1..made' /\ made' = made + 1
        /\ kind' \in [Calls -> {"none"} \cup Asks]
    BY <1>3, <2>1, CallFacts DEF TypeInv
  <2>4. caller' \in [Runs -> {"out", "waiting", "served", "failed"}] /\ on' \in [Runs -> 0..MaxCalls]
    BY <1>3, <2>3 DEF TypeInv, TypeOK
  <2>5. ready' \in 0..made'
    BY <1>3, <2>3 DEF TypeInv, TypeOK
  <2>. QED
    BY <1>1, <1>3, <2>2, <2>3, <2>4, <2>5 DEF TypeInv, TypeOK, workerVars, reloadVars
<1>. QED
  BY <1>2, <1>3, EnsureCases DEF TypeInv

LEMMA AgentTypes == TypeInv /\ (RefreshMounts \/ ParkAll \/ \E r \in Runs : RunEnds(r)) => TypeInv'
<1>1. ASSUME TypeInv, NEW what \in Asks, Call(what), state' \in {state, "parking"},
             stopping' \in BOOLEAN,
             UNCHANGED <<hasId, ready, caller, on, agent, destroying, workerVars, reloadVars, replies, mishaps>>
      PROVE TypeInv'
  <2>1. Told' /\ Awaits' /\ Untold' /\ Counted' /\ wire' \in Seq(Commands)
    BY <1>1, AskKeeps
  <2>2. /\ made' \in 0..MaxCalls /\ open' \subseteq 1..made' /\ made' = made + 1
        /\ kind' \in [Calls -> {"none"} \cup Asks]
    BY <1>1, CallFacts DEF TypeInv
  <2>3. ready' \in 0..made' /\ state' \in {"idle", "starting", "live", "parking", "parked", "resuming"}
    BY <1>1, <2>2 DEF TypeInv, TypeOK
  <2>. QED
    BY <1>1, <2>1, <2>2, <2>3 DEF TypeInv, TypeOK, workerVars, reloadVars
<1>2. ASSUME TypeInv, RefreshMounts PROVE TypeInv'
  <2>1. Call("recreate") /\ "recreate" \in Asks
    BY <1>2 DEF RefreshMounts, Asks
  <2>2. UNCHANGED <<agentVars, workerVars, reloadVars, replies, mishaps>>
    BY <1>2 DEF RefreshMounts
  <2>3. stopping' \in BOOLEAN
    BY <1>2, <2>2 DEF agentVars, TypeInv, TypeOK
  <2>. QED
    BY <1>1, <1>2, <2>1, <2>2, <2>3 DEF agentVars
<1>3. ASSUME TypeInv, ParkAll PROVE TypeInv'
  <2>1. UNCHANGED <<hasId, ready, caller, on, agent, destroying, workerVars, reloadVars, replies, mishaps>>
    BY <1>3 DEF ParkAll
  <2>2. CASE state = "live" /\ hasId
    <3>1. Call("park") /\ "park" \in Asks /\ state' = "parking" /\ stopping' = TRUE
      BY <1>3, <2>2 DEF ParkAll, Asks
    <3>. QED
      BY <1>1, <1>3, <2>1, <3>1
  <2>3. CASE ~(state = "live" /\ hasId)
    <3>1. UNCHANGED <<made, open, kind, wire, state>> /\ stopping' = TRUE
      BY <1>3, <2>3 DEF ParkAll, NoNewCall
    <3>2. Told' /\ Awaits' /\ Untold' /\ Counted'
      BY <1>3, <2>1, <3>1, ReloadsKept
    <3>. QED
      BY <1>3, <2>1, <3>1, <3>2 DEF TypeInv, TypeOK, workerVars, reloadVars
  <2>. QED
    BY <2>2, <2>3
<1>4. ASSUME TypeInv, NEW r \in Runs, RunEnds(r) PROVE TypeInv'
  <2>1. caller' \in [Runs -> {"out", "waiting", "served", "failed"}]
    BY <1>4 DEF RunEnds, TypeInv, TypeOK
  <2>2. UNCHANGED <<state, hasId, ready, on, agent, destroying, stopping, workerVars, reloadVars, made,
                    open, kind, wire, replies, mishaps>>
    BY <1>4 DEF RunEnds
  <2>3. Told' /\ Awaits' /\ Untold' /\ Counted'
    BY <1>4, <2>2, ReloadsKept
  <2>. QED
    BY <1>4, <2>1, <2>2, <2>3 DEF TypeInv, TypeOK, workerVars, reloadVars
<1>. QED
  BY <1>2, <1>3, <1>4

\* A change of the settings, and a retry, are noted.
LEMMA ChangeTypes == TypeInv /\ ChangeSettings => TypeInv'
<1>. SUFFICES ASSUME TypeInv, ChangeSettings PROVE TypeInv'
  OBVIOUS
<1>1. /\ wanted' = wanted + 1 /\ wanted' \in Changes /\ wanted' \in 0..MaxChanges /\ wanted \in Nat
  BY SandboxAssumption DEF ChangeSettings, Changes, TypeInv, TypeOK
<1>2. /\ agent' = [agent EXCEPT ![wanted'] = "due"]
      /\ reload' = [reload EXCEPT ![WebReload(wanted')] = "due"]
      /\ UNCHANGED <<state, hasId, ready, caller, on, destroying, stopping, workerVars, reads, retries,
                     made, open, kind, wire, replies, mishaps>>
  BY DEF ChangeSettings
<1>3. WebReload(wanted') \in Reloads /\ reload[WebReload(wanted')] = "none" /\ agent[wanted'] = "none"
  BY <1>1, ReloadIndex DEF TypeInv, Untold, Changes
<1>4. /\ agent' \in [Changes -> {"none", "due", "destroying", "done"}]
      /\ reload' \in [Reloads -> {"none", "due", "sent", "reading", "destroying", "done", "failed"}]
  BY <1>2 DEF TypeInv, TypeOK
<1>. DEFINE w == WebReload(wanted')
<1>. HIDE DEF w
<1>5. \A j \in Reloads : j # w => reload'[j] = reload[j]
  BY <1>2, <1>4 DEF w, TypeInv, TypeOK
<1>6. Told'
  <2>1. reload[w] = "none" /\ w \in Reloads
    BY <1>3 DEF w
  <2>2. /\ \A i \in 1..Len(wire) : wire[i] \in Commands
        /\ \A p \in Providers : \A i \in 1..Len(queue[p]) : queue[p][i] \in Commands
    BY LenProperties DEF TypeInv, TypeOK
  <2>3. \A j \in Reloads : reload[j] \in {"sent", "destroying"} => reload'[j] = reload[j]
    BY <1>5, <2>1
  <2>4. UNCHANGED <<wire, queue>>
    BY <1>2 DEF workerVars
  <2>. QED
    BY <2>2, <2>3, <2>4, CommandKinds DEF TypeInv, Told
<1>7. Awaits'
  <2>1. \A k \in Changes : agent'[k] = agent[k] \/ agent[k] = "none"
    BY <1>2, <1>3 DEF TypeInv, TypeOK
  <2>. QED
    BY <1>2, <2>1 DEF TypeInv, Awaits
<1>8. Untold'
  <2>1. \A k \in Changes : AgentReload(k) \in Reloads /\ AgentReload(k) # w
    BY <1>1, ReloadIndex DEF w
  <2>2. \A k \in Changes : k > wanted' => WebReload(k) \in Reloads /\ WebReload(k) # w
    BY <1>1, ReloadIndex DEF w, Changes
  <2>3. \A r \in 1..MaxRetries : 2 * MaxChanges + r \in Reloads /\ 2 * MaxChanges + r # w
    BY <1>1, ReloadIndex DEF w
  <2>4. \A k \in Changes : k > wanted' => k > wanted /\ agent'[k] = agent[k]
    BY <1>1, <1>2 DEF Changes, TypeInv, TypeOK
  <2>5. \A k \in Changes : agent'[k] # "done" => reload[AgentReload(k)] = "none"
    BY <1>1, <1>2, <1>3 DEF TypeInv, Untold, TypeOK
  <2>. QED
    BY <1>2, <1>5, <2>1, <2>2, <2>3, <2>4, <2>5 DEF TypeInv, Untold
<1>9. Counted'
  <2>1. Done \subseteq Done'
    BY <1>3, <1>5 DEF Done, w
  <2>2. UNCHANGED <<provider, mishaps>> /\ Len(mishaps) \in Nat
    BY <1>2, LenProperties DEF workerVars, TypeInv, TypeOK
  <2>. QED
    BY <2>1, <2>2, SameProvider DEF TypeInv
<1>. QED
  BY <1>1, <1>2, <1>4, <1>6, <1>7, <1>8, <1>9 DEF TypeInv, TypeOK, workerVars

LEMMA RetryTypes == TypeInv /\ RetrySetup => TypeInv'
<1>. SUFFICES ASSUME TypeInv, RetrySetup PROVE TypeInv'
  OBVIOUS
<1>. DEFINE w == 2 * MaxChanges + retries'
<1>1. retries' = retries + 1 /\ retries' \in 1..MaxRetries /\ retries' \in 0..MaxRetries /\ retries \in Nat
  BY SandboxAssumption DEF RetrySetup, TypeInv, TypeOK
<1>2. /\ reload' = [reload EXCEPT ![w] = "due"]
      /\ UNCHANGED <<agentVars, workerVars, wanted, reads, made, open, kind, wire, replies, mishaps>>
  BY DEF RetrySetup
<1>3. w \in Reloads /\ reload[w] = "none"
  BY <1>1, ReloadIndex DEF TypeInv, Untold
<1>4. \A k \in Changes : AgentReload(k) \in Reloads \ {w} /\ WebReload(k) \in Reloads \ {w}
  BY <1>1, ReloadIndex
<1>5. \A r \in 1..MaxRetries : r > retries' => r > retries /\ 2 * MaxChanges + r \in Reloads \ {w}
  BY <1>1, ReloadIndex, SandboxAssumption
<1>. HIDE DEF w
<1>6. /\ reload' \in [Reloads -> {"none", "due", "sent", "reading", "destroying", "done", "failed"}]
      /\ \A j \in Reloads : j # w => reload'[j] = reload[j]
  BY <1>2 DEF TypeInv, TypeOK
<1>7. Told'
  <2>1. /\ \A i \in 1..Len(wire) : wire[i] \in Commands
        /\ \A p \in Providers : \A i \in 1..Len(queue[p]) : queue[p][i] \in Commands
    BY LenProperties DEF TypeInv, TypeOK
  <2>2. \A j \in Reloads : reload[j] \in {"sent", "destroying"} => reload'[j] = reload[j]
    BY <1>3, <1>6
  <2>3. UNCHANGED <<wire, queue>>
    BY <1>2 DEF workerVars
  <2>. QED
    BY <2>1, <2>2, <2>3, CommandKinds DEF TypeInv, Told
<1>8. Awaits' /\ Untold'
  BY <1>2, <1>4, <1>5, <1>6 DEF TypeInv, Awaits, Untold, agentVars
<1>9. Counted'
  <2>1. Done \subseteq Done'
    BY <1>3, <1>6 DEF Done
  <2>2. UNCHANGED <<provider, mishaps>> /\ Len(mishaps) \in Nat
    BY <1>2, LenProperties DEF workerVars, TypeInv, TypeOK
  <2>. QED
    BY <2>1, <2>2, SameProvider DEF TypeInv
<1>. QED
  BY <1>1, <1>2, <1>6, <1>7, <1>8, <1>9 DEF TypeInv, TypeOK, workerVars, agentVars

\* The agent tells the worker of a change.
LEMMA TellKeeps ==
  ASSUME TypeInv, NEW k \in Changes, agent[k] \in {"due", "destroying"}, ForgetAndTell(k),
         destroying[k] \notin open', open' \subseteq open,
         UNCHANGED <<destroying, workerVars, wanted, retries, made, kind>>,
         Len(mishaps') \in Nat, Len(mishaps') >= Len(mishaps)
  PROVE  /\ Told' /\ Awaits' /\ Untold' /\ Counted' /\ wire' \in Seq(Commands)
         /\ agent' \in [Changes -> {"none", "due", "destroying", "done"}]
         /\ reload' \in [Reloads -> {"none", "due", "sent", "reading", "destroying", "done", "failed"}]
<1>. DEFINE w == AgentReload(k)
<1>1. /\ agent' = [agent EXCEPT ![k] = "done"]
      /\ reload' = [reload EXCEPT ![w] = "sent"]
      /\ wire' = Append(wire, Command("reload", w))
  BY DEF ForgetAndTell
<1>2. w \in Reloads /\ reload[w] = "none"
  BY ReloadIndex DEF TypeInv, Untold
<1>3. \A m \in Changes : WebReload(m) \in Reloads \ {w} /\ (m # k => AgentReload(m) \in Reloads \ {w})
  BY ReloadIndex
<1>4. \A r \in 1..MaxRetries : 2 * MaxChanges + r \in Reloads \ {w}
  BY ReloadIndex
<1>. HIDE DEF w
<1>5. Told' /\ wire' \in Seq(Commands)
  BY <1>1, <1>2, ToldReload DEF TypeInv, workerVars
<1>6. /\ agent' \in [Changes -> {"none", "due", "destroying", "done"}]
      /\ reload' \in [Reloads -> {"none", "due", "sent", "reading", "destroying", "done", "failed"}]
      /\ agent'[k] = "done"
      /\ \A m \in Changes : m # k => agent'[m] = agent[m]
      /\ \A j \in Reloads : j # w => reload'[j] = reload[j]
  BY <1>1 DEF TypeInv, TypeOK
<1>7. Awaits'
  BY <1>6 DEF TypeInv, Awaits
<1>8. Untold'
  <2>1. \A m \in Changes : m > wanted => m # k
    BY DEF TypeInv, Untold
  <2>. QED
    BY <1>3, <1>4, <1>6, <2>1 DEF TypeInv, Untold
<1>9. Counted'
  <2>1. Done \subseteq Done'
    BY <1>2, <1>6 DEF Done
  <2>. QED
    BY <2>1, SameProvider DEF TypeInv, workerVars
<1>. QED
  BY <1>5, <1>6, <1>7, <1>8, <1>9

LEMMA ReloadsTypes ==
  ASSUME TypeInv, NEW k \in Changes, AgentReloads(k)
  PROVE  TypeInv'
<1>1. /\ agent[k] = "due"
      /\ UNCHANGED <<caller, on, stopping, workerVars, wanted, reads, retries, replies, mishaps>>
  BY DEF AgentReloads
<1>2. CASE hasId /\ state \in {"live", "parked"}
  <2>1. /\ Call("destroy") /\ "destroy" \in Asks
        /\ agent' = [agent EXCEPT ![k] = "destroying"]
        /\ destroying' = [destroying EXCEPT ![k] = made']
        /\ UNCHANGED <<hasId, state, ready, reload>>
    BY <1>2 DEF AgentReloads, Asks
  <2>2. /\ made' = made + 1 /\ made' \in Calls /\ made' \in 0..MaxCalls
        /\ open' = open \cup {made'} /\ open' \subseteq 1..made' /\ made' \notin open
        /\ kind' = [kind EXCEPT ![made'] = "destroy"]
        /\ kind' \in [Calls -> {"none"} \cup Asks]
        /\ wire' = Append(wire, Command("destroy", made'))
        /\ Command("destroy", made') \in Commands
    BY <2>1, CallFacts DEF TypeInv
  <2>3. Told' /\ wire' \in Seq(Commands)
    BY <1>1, <2>1, <2>2, ToldAsk, CommandKinds DEF TypeInv, workerVars
  <2>4. /\ agent' \in [Changes -> {"none", "due", "destroying", "done"}]
        /\ destroying' \in [Changes -> 0..MaxCalls]
        /\ \A m \in Changes : IF m = k THEN agent'[m] = "destroying" /\ destroying'[m] = made'
                              ELSE agent'[m] = agent[m] /\ destroying'[m] = destroying[m]
    BY <2>1, <2>2 DEF TypeInv, TypeOK
  <2>5. Awaits'
    <3>1. made \in Nat /\ \A m \in Changes : destroying[m] \in Nat
      BY SandboxAssumption DEF TypeInv, TypeOK
    <3>2. \A m \in Changes : destroying[m] <= made' /\ destroying[m] # made'
      BY <2>2, <3>1 DEF TypeInv, Awaits
    <3>3. \A n \in open' : kind'[n] \in Asks
      <4>1. open \subseteq Calls
        BY SandboxAssumption DEF TypeInv, TypeOK, Calls
      <4>. QED
        BY <2>1, <2>2, <4>1 DEF TypeInv, Awaits, TypeOK
    <3>4. made' <= made'
      BY <2>2, <3>1
    <3>. QED
      BY <2>2, <2>4, <3>2, <3>3, <3>4 DEF TypeInv, Awaits
  <2>6. Untold'
    BY <1>1, <2>1, <2>4 DEF TypeInv, Untold
  <2>7. Counted'
    <3>1. Done' = Done /\ UNCHANGED <<provider, mishaps>>
      BY <1>1, <2>1 DEF Done, workerVars
    <3>. QED
      BY <3>1 DEF TypeInv, Counted
  <2>8. ready' \in 0..made'
    BY <2>1, <2>2 DEF TypeInv, TypeOK
  <2>. QED
    BY <1>1, <2>1, <2>2, <2>3, <2>4, <2>5, <2>6, <2>7, <2>8 DEF TypeInv, TypeOK, workerVars
<1>3. CASE ~(hasId /\ state \in {"live", "parked"})
  <2>1. ForgetAndTell(k) /\ UNCHANGED <<made, open, kind, destroying>>
    BY <1>3 DEF AgentReloads
  <2>2. destroying[k] \notin open' /\ Len(mishaps') \in Nat /\ Len(mishaps') >= Len(mishaps)
    BY <1>1, <2>1, LenProperties DEF TypeInv, TypeOK, Awaits
  <2>3. /\ Told' /\ Awaits' /\ Untold' /\ Counted' /\ wire' \in Seq(Commands)
        /\ agent' \in [Changes -> {"none", "due", "destroying", "done"}]
        /\ reload' \in [Reloads -> {"none", "due", "sent", "reading", "destroying", "done", "failed"}]
    BY <1>1, <2>1, <2>2, TellKeeps
  <2>4. state' = "idle" /\ hasId' = FALSE /\ ready' = 0
    BY <2>1 DEF ForgetAndTell, NoCall
  <2>5. ready' \in 0..made'
    BY <2>1, <2>4 DEF TypeInv, TypeOK
  <2>. QED
    BY <1>1, <2>1, <2>3, <2>4, <2>5 DEF TypeInv, TypeOK, workerVars
<1>. QED
  BY <1>2, <1>3

\* A command returns.
LEMMA ReturnsTypes ==
  ASSUME TypeInv, NEW n \in open, NEW ok \in BOOLEAN, Returns(n, ok),
         replies' \subseteq replies, mishaps' \in Seq(Mishaps),
         Len(mishaps') <= MaxMishaps, Len(mishaps') >= Len(mishaps)
  PROVE  TypeInv'
<1>1. kind[n] \in Asks
  BY DEF TypeInv, Awaits
<1>2. /\ open' = open \ {n} /\ open' \subseteq open
      /\ UNCHANGED <<on, destroying, stopping, workerVars, wanted, reads, retries, made, kind>>
  BY <1>1, ReturnsCases
<1>3. Len(mishaps') \in Nat /\ replies' \subseteq [n : Calls, ok : BOOLEAN] /\ ready \in 0..made /\ 0 \in 0..made
  BY LenProperties DEF TypeInv, TypeOK
<1>4. ASSUME UNCHANGED <<agent, reload, wire>>,
             state' \in {"idle", "starting", "live", "parking", "parked", "resuming"},
             hasId' \in BOOLEAN, ready' \in 0..made,
             caller' \in [Runs -> {"out", "waiting", "served", "failed"}]
      PROVE  TypeInv'
  <2>1. Told' /\ Awaits' /\ Untold'
    <3>1. UNCHANGED <<agent, reload, wire, queue, wanted, retries, made, kind, destroying>>
      BY <1>2, <1>4 DEF workerVars
    <3>2. Told'
      BY <3>1 DEF TypeInv, Told
    <3>3. Awaits'
      BY <1>2, <3>1 DEF TypeInv, Awaits
    <3>4. Untold'
      BY <3>1 DEF TypeInv, Untold
    <3>. QED
      BY <3>2, <3>3, <3>4
  <2>2. Counted'
    <3>1. Done \subseteq Done'
      BY <1>4 DEF Done
    <3>. QED
      BY <1>2, <1>3, <3>1, SameProvider DEF TypeInv, workerVars
  <2>. QED
    BY <1>2, <1>3, <1>4, <2>1, <2>2 DEF TypeInv, TypeOK, workerVars
<1>5. ASSUME NEW good, Settle(n, good)
      PROVE  ready' \in 0..made /\ caller' \in [Runs -> {"out", "waiting", "served", "failed"}]
  BY <1>3, <1>5 DEF Settle, NoCall, TypeInv, TypeOK
<1>6. CASE Settle(n, ok) /\ Created(ok) /\ UNCHANGED <<agent, reload, wire>>
  BY <1>4, <1>5, <1>6 DEF Created
<1>7. CASE /\ Settle(n, ok /\ hasId) /\ state' = (IF ok THEN "live" ELSE "parked")
           /\ UNCHANGED <<hasId, agent, reload, wire>>
  <2>1. hasId' \in BOOLEAN
    BY <1>7 DEF TypeInv, TypeOK
  <2>. QED
    BY <1>4, <1>5, <1>7, <2>1
<1>8. CASE hasId' = (ok \/ hasId) /\ UNCHANGED <<state, ready, caller, agent, reload, wire>>
  BY <1>3, <1>4, <1>8 DEF TypeInv, TypeOK
<1>9. CASE /\ state' = (IF ok THEN "parked" ELSE "live")
           /\ UNCHANGED <<hasId, ready, caller, agent, reload, wire>>
  <2>1. hasId' \in BOOLEAN /\ caller' \in [Runs -> {"out", "waiting", "served", "failed"}]
    BY <1>9 DEF TypeInv, TypeOK
  <2>. QED
    BY <1>3, <1>4, <1>9, <2>1
<1>10. ASSUME NEW k \in Changes, destroying[k] = n, ForgetAndTell(k), UNCHANGED caller
       PROVE  TypeInv'
  <2>1. agent[k] = "destroying" /\ destroying[k] \notin open'
    BY <1>2, <1>10 DEF TypeInv, Awaits
  <2>2. /\ Told' /\ Awaits' /\ Untold' /\ Counted' /\ wire' \in Seq(Commands)
        /\ agent' \in [Changes -> {"none", "due", "destroying", "done"}]
        /\ reload' \in [Reloads -> {"none", "due", "sent", "reading", "destroying", "done", "failed"}]
    BY <1>2, <1>3, <1>10, <2>1, TellKeeps
  <2>3. state' = "idle" /\ hasId' = FALSE /\ ready' \in 0..made'
    BY <1>2, <1>3, <1>10 DEF ForgetAndTell, NoCall
  <2>. QED
    BY <1>2, <1>3, <1>10, <2>2, <2>3 DEF TypeInv, TypeOK, workerVars
<1>. QED
  BY <1>1, <1>6, <1>7, <1>8, <1>9, <1>10, ReturnsCases

LEMMA AnswerTypes ==
  ASSUME TypeInv, NEW n \in Calls, Answered(n) \/ LostTimesOut(n) \/ TimesOut(n)
  PROVE  TypeInv'
<1>1. mishaps \in Seq(Mishaps) /\ Len(mishaps) \in Nat /\ Len(mishaps) <= MaxMishaps
  BY LenProperties DEF TypeInv, TypeOK
<1>2. CASE Answered(n)
  <2>1. PICK reply \in replies :
             /\ replies' = replies \ {reply} /\ mishaps' = mishaps
             /\ IF n \in open THEN Returns(n, reply.ok)
                ELSE UNCHANGED <<agentVars, workerVars, reloadVars, made, open, kind, wire>>
    BY <1>2 DEF Answered
  <2>2. reply.ok \in BOOLEAN
    BY DEF TypeInv, TypeOK
  <2>3. CASE n \in open
    BY <1>1, <2>1, <2>2, <2>3, ReturnsTypes
  <2>4. CASE n \notin open
    <3>1. UNCHANGED <<agentVars, workerVars, reloadVars, made, open, kind, wire>> /\ replies' \subseteq replies
      BY <2>1, <2>4
    <3>2. Told' /\ Awaits' /\ Untold' /\ Counted'
      BY <2>1, <3>1, ReloadsKept DEF agentVars
    <3>. QED
      BY <2>1, <3>1, <3>2 DEF TypeInv, TypeOK, workerVars, reloadVars, agentVars
  <2>. QED
    BY <2>3, <2>4
<1>3. CASE LostTimesOut(n)
  <2>1. n \in open /\ Returns(n, FALSE) /\ UNCHANGED <<replies, mishaps>>
    BY <1>3 DEF LostTimesOut
  <2>2. /\ mishaps' \in Seq(Mishaps) /\ Len(mishaps') <= MaxMishaps /\ Len(mishaps') >= Len(mishaps)
        /\ replies' \subseteq replies /\ FALSE \in BOOLEAN
    BY <1>1, <2>1
  <2>. QED
    BY <2>1, <2>2, ReturnsTypes
<1>4. CASE TimesOut(n)
  <2>1. n \in open /\ Returns(n, FALSE) /\ UNCHANGED replies /\ Mishap("timeout")
    BY <1>4 DEF TimesOut
  <2>2. mishaps' \in Seq(Mishaps) /\ Len(mishaps') <= MaxMishaps /\ Len(mishaps') >= Len(mishaps)
    BY <2>1, MishapCount DEF TypeInv
  <2>. QED
    BY <2>1, <2>2, ReturnsTypes
<1>. QED
  BY <1>2, <1>3, <1>4

\* The commands behind the calls of a provider.
LEMMA QueueCommands ==
  ASSUME TypeOK
  PROVE  /\ \A p \in Providers : /\ queue[p] \in Seq(Commands) /\ Len(queue[p]) \in Nat
                                 /\ \A i \in 1..Len(queue[p]) : queue[p][i] \in Commands
         /\ Len(wire) \in Nat /\ \A i \in 1..Len(wire) : wire[i] \in Commands
         /\ Len(mishaps) \in Nat /\ provider \in Nat
<1>1. \A p \in Providers : queue[p] \in Seq(Commands)
  BY DEF TypeOK
<1>2. wire \in Seq(Commands) /\ mishaps \in Seq(Mishaps)
  BY DEF TypeOK
<1>3. provider \in Nat
  BY SandboxAssumption DEF TypeOK, Providers
<1>. QED
  BY <1>1, <1>2, <1>3, LenProperties

\* Only the places of reloads change, each reload of the worker going one step on.
LEMMA PlacesUntold ==
  ASSUME Untold, TypeOK, UNCHANGED <<agent, wanted, retries>>,
         \A j \in Reloads : reload[j] = "none" => reload'[j] = "none"
  PROVE  Untold'
BY ReloadIndex DEF Untold

LEMMA SendTypes ==
  ASSUME TypeInv, NEW j \in Reloads, SendReload(j)
  PROVE  TypeInv'
<1>1. /\ reload[j] = "due" /\ reload' = [reload EXCEPT ![j] = "sent"]
      /\ wire' = Append(wire, Command("reload", j))
      /\ UNCHANGED <<agentVars, workerVars, wanted, reads, retries, made, open, kind, replies, mishaps>>
  BY DEF SendReload
<1>2. Told' /\ wire' \in Seq(Commands)
  BY <1>1, ToldReload DEF TypeInv, workerVars
<1>3. /\ reload' \in [Reloads -> {"none", "due", "sent", "reading", "destroying", "done", "failed"}]
      /\ \A m \in Reloads : m # j => reload'[m] = reload[m]
  BY <1>1 DEF TypeInv, TypeOK
<1>4. Awaits'
  BY <1>1 DEF TypeInv, Awaits, agentVars
<1>5. Untold'
  BY <1>1, <1>3, PlacesUntold DEF TypeInv, agentVars
<1>6. Counted'
  <2>1. Done \subseteq Done'
    BY <1>1, <1>3 DEF Done
  <2>2. UNCHANGED <<provider, mishaps>> /\ Len(mishaps) \in Nat
    BY <1>1, QueueCommands DEF workerVars, TypeInv
  <2>. QED
    BY <2>1, <2>2, SameProvider DEF TypeInv
<1>. QED
  BY <1>1, <1>2, <1>3, <1>4, <1>5, <1>6 DEF TypeInv, TypeOK, workerVars, agentVars

\* What the worker does with a command it receives.
LEMMA ReceiveCases ==
  ASSUME TypeOK, Receive
  PROVE  /\ wire # <<>> /\ wire' = Tail(wire) /\ Head(wire) \in Commands
         /\ UNCHANGED <<agentVars, wanted, retries, provider, config, entry, active, made, open, kind,
                        replies, mishaps>>
         /\ \/ /\ Head(wire).what = "reload" /\ Head(wire).n \in Reloads
               /\ reload' = [reload EXCEPT ![Head(wire).n] = "reading"]
               /\ reads' = [reads EXCEPT ![Head(wire).n] = wanted]
               /\ queue' = queue
            \/ /\ Head(wire).what \in Asks
               /\ queue' = [queue EXCEPT ![provider] = Append(queue[provider], Head(wire))]
               /\ UNCHANGED <<reload, reads>>
<1>1. wire # <<>> /\ wire' = Tail(wire) /\ Head(wire) \in Commands
  BY TakenOff DEF Receive, TypeOK
<1>2. UNCHANGED <<agentVars, wanted, retries, provider, config, entry, active, made, open, kind,
                  replies, mishaps>>
  BY DEF Receive
<1>3. CASE Head(wire).what = "reload"
  <2>1. /\ reload' = [reload EXCEPT ![Head(wire).n] = "reading"]
        /\ reads' = [reads EXCEPT ![Head(wire).n] = wanted]
        /\ queue' = queue
    BY <1>3 DEF Receive
  <2>. QED
    BY <1>1, <1>2, <1>3, <2>1, CommandKinds
<1>4. CASE Head(wire).what # "reload"
  <2>1. /\ queue' = [queue EXCEPT ![provider] = Append(queue[provider], Head(wire))]
        /\ UNCHANGED <<reload, reads>>
    BY <1>4 DEF Receive
  <2>. QED
    BY <1>1, <1>2, <1>4, <2>1, CommandKinds
<1>. QED
  BY <1>3, <1>4

\* The wire without its first command.
LEMMA ToldTaken ==
  ASSUME TypeOK, Told, wire # <<>>, wire' = Tail(wire),
         \A j \in Reloads : \/ reload'[j] = reload[j]
                            \/ reload[j] = "sent" /\ Head(wire) = Command("reload", j)
  PROVE  /\ wire' \in Seq(Commands)
         /\ \A i, k \in 1..Len(wire') :
              wire'[i].what = "reload" => /\ reload'[wire'[i].n] = "sent"
                                          /\ wire'[k] = wire'[i] => k = i
<1>1. /\ wire' \in Seq(Commands) /\ Len(wire) \in Nat /\ 1 \in 1..Len(wire)
      /\ Len(wire') = Len(wire) - 1
      /\ \A k \in 1..(Len(wire) - 1) : wire'[k] = wire[k + 1] /\ k + 1 \in 1..Len(wire)
      /\ Head(wire) = wire[1] /\ \A k \in 1..Len(wire) : wire[k] \in Commands
  BY TakenOff DEF TypeOK
<1>2. ASSUME NEW i \in 1..Len(wire'), NEW k \in 1..Len(wire'), wire'[i].what = "reload"
      PROVE  reload'[wire'[i].n] = "sent" /\ (wire'[k] = wire'[i] => k = i)
  <2>1. /\ i + 1 \in 1..Len(wire) /\ k + 1 \in 1..Len(wire) /\ i + 1 # 1
        /\ wire'[i] = wire[i + 1] /\ wire'[k] = wire[k + 1] /\ (k + 1 = i + 1 => k = i)
    BY <1>1
  <2>2. /\ reload[wire[i + 1].n] = "sent" /\ wire[1] # wire[i + 1]
        /\ wire[k + 1] = wire[i + 1] => k + 1 = i + 1
    BY <1>1, <1>2, <2>1 DEF Told
  <2>3. wire[i + 1].n \in Reloads /\ wire[i + 1] = Command("reload", wire[i + 1].n)
    BY <1>1, <1>2, <2>1, CommandKinds
  <2>4. reload'[wire[i + 1].n] = reload[wire[i + 1].n]
    BY <1>1, <2>2, <2>3
  <2>. QED
    BY <2>1, <2>2, <2>4
<1>. QED
  BY <1>1, <1>2

\* The calls of a provider with one more.
LEMMA QueueGrows ==
  ASSUME TypeOK, Told, NEW c \in Commands,
         queue' = [queue EXCEPT ![provider] = Append(queue[provider], c)],
         \A p \in Providers : \A i \in 1..Len(queue[p]) : c.what = "reload" => queue[p][i] # c,
         \A j \in Reloads : reload[j] = "destroying" => reload'[j] = "destroying",
         c.what = "reload" => reload'[c.n] = "destroying"
  PROVE  /\ queue' \in [Providers -> Seq(Commands)]
         /\ \A p, q \in Providers : \A i \in 1..Len(queue'[p]), k \in 1..Len(queue'[q]) :
              queue'[p][i].what = "reload" => /\ reload'[queue'[p][i].n] = "destroying"
                                              /\ queue'[q][k] = queue'[p][i] => q = p /\ k = i
<1>1. /\ provider \in Providers /\ queue[provider] \in Seq(Commands)
      /\ \A p \in Providers : p # provider => queue'[p] = queue[p]
      /\ queue'[provider] = Append(queue[provider], c)
  BY DEF TypeOK
<1>2. /\ queue'[provider] \in Seq(Commands) /\ Len(queue[provider]) \in Nat
      /\ Len(queue'[provider]) = Len(queue[provider]) + 1
      /\ \A k \in 1..(Len(queue[provider]) + 1) :
           queue'[provider][k] = IF k = Len(queue[provider]) + 1 THEN c ELSE queue[provider][k]
  BY <1>1, Appended
<1>3. queue' \in [Providers -> Seq(Commands)]
  BY <1>1, <1>2 DEF TypeOK
<1>4. ASSUME NEW p \in Providers, NEW i \in 1..Len(queue'[p])
      PROVE  \/ i \in 1..Len(queue[p]) /\ queue'[p][i] = queue[p][i]
             \/ p = provider /\ i = Len(queue[provider]) + 1 /\ queue'[p][i] = c
  BY <1>1, <1>2, <1>4
<1>5. ASSUME NEW p \in Providers, NEW i \in 1..Len(queue[p]), queue[p][i].what = "reload"
      PROVE  queue[p][i].n \in Reloads /\ queue[p][i] \in Commands
  BY <1>5, QueueCommands, CommandKinds
<1>6. ASSUME NEW p \in Providers, NEW q \in Providers,
             NEW i \in 1..Len(queue'[p]), NEW k \in 1..Len(queue'[q]), queue'[p][i].what = "reload"
      PROVE  reload'[queue'[p][i].n] = "destroying" /\ (queue'[q][k] = queue'[p][i] => q = p /\ k = i)
  <2>1. CASE i \in 1..Len(queue[p]) /\ queue'[p][i] = queue[p][i]
    <3>1. reload'[queue'[p][i].n] = "destroying"
      BY <1>5, <1>6, <2>1 DEF Told
    <3>2. CASE k \in 1..Len(queue[q]) /\ queue'[q][k] = queue[q][k]
      BY <1>6, <2>1, <3>1, <3>2 DEF Told
    <3>3. CASE queue'[q][k] = c
      BY <1>6, <2>1, <3>1, <3>3
    <3>. QED
      BY <1>4, <3>2, <3>3
  <2>2. CASE p = provider /\ i = Len(queue[provider]) + 1 /\ queue'[p][i] = c
    <3>1. reload'[queue'[p][i].n] = "destroying"
      BY <1>6, <2>2
    <3>. QED
      BY <1>4, <1>6, <2>2, <3>1
  <2>. QED
    BY <1>4, <2>1, <2>2
<1>. QED
  BY <1>3, <1>6

LEMMA ReceiveTypes == TypeInv /\ Receive => TypeInv'
<1>. SUFFICES ASSUME TypeInv, Receive PROVE TypeInv'
  OBVIOUS
<1>1. /\ wire # <<>> /\ wire' = Tail(wire) /\ Head(wire) \in Commands
      /\ UNCHANGED <<agentVars, wanted, retries, provider, config, entry, active, made, open, kind,
                     replies, mishaps>>
  BY ReceiveCases DEF TypeInv
<1>2. Awaits'
  BY <1>1 DEF TypeInv, Awaits, agentVars
<1>3. CASE /\ Head(wire).what = "reload" /\ Head(wire).n \in Reloads
           /\ reload' = [reload EXCEPT ![Head(wire).n] = "reading"]
           /\ reads' = [reads EXCEPT ![Head(wire).n] = wanted]
           /\ queue' = queue
  <2>. DEFINE j == Head(wire).n
  <2>1. /\ Head(wire) = Command("reload", j) /\ reload[j] = "sent"
    <3>1. 1 \in 1..Len(wire) /\ Head(wire) = wire[1]
      BY <1>1, TakenOff DEF TypeInv, TypeOK
    <3>. QED
      BY <1>1, <1>3, <3>1, CommandKinds DEF TypeInv, Told
  <2>2. /\ reload' \in [Reloads -> {"none", "due", "sent", "reading", "destroying", "done", "failed"}]
        /\ \A m \in Reloads : m # j => reload'[m] = reload[m]
        /\ reads' \in [Reloads -> 0..MaxChanges]
    BY <1>3 DEF TypeInv, TypeOK
  <2>. HIDE DEF j
  <2>3. /\ wire' \in Seq(Commands)
        /\ \A i, k \in 1..Len(wire') :
              wire'[i].what = "reload" => /\ reload'[wire'[i].n] = "sent"
                                          /\ wire'[k] = wire'[i] => k = i
    BY <1>1, <2>1, <2>2, ToldTaken DEF TypeInv
  <2>4. \A p \in Providers : \A i \in 1..Len(queue[p]) :
          queue[p][i].what = "reload" => reload'[queue[p][i].n] = "destroying"
    BY <2>1, <2>2, QueueCommands, CommandKinds DEF TypeInv, Told
  <2>5. Told'
    BY <1>3, <2>3, <2>4 DEF TypeInv, Told
  <2>6. Untold'
    BY <1>1, <2>1, <2>2, PlacesUntold DEF TypeInv, agentVars
  <2>7. Counted'
    <3>1. Done \subseteq Done'
      BY <2>1, <2>2 DEF Done
    <3>. QED
      BY <1>1, <3>1, SameProvider, QueueCommands DEF TypeInv
  <2>. QED
    BY <1>1, <1>2, <1>3, <2>2, <2>3, <2>5, <2>6, <2>7 DEF TypeInv, TypeOK, agentVars
<1>4. CASE /\ Head(wire).what \in Asks
           /\ queue' = [queue EXCEPT ![provider] = Append(queue[provider], Head(wire))]
           /\ UNCHANGED <<reload, reads>>
  <2>1. Head(wire).what # "reload"
    BY <1>4, CommandKinds
  <2>2. /\ wire' \in Seq(Commands)
        /\ \A i, k \in 1..Len(wire') :
              wire'[i].what = "reload" => /\ reload'[wire'[i].n] = "sent"
                                          /\ wire'[k] = wire'[i] => k = i
    BY <1>1, <1>4, ToldTaken DEF TypeInv
  <2>3. /\ queue' \in [Providers -> Seq(Commands)]
        /\ \A p, q \in Providers : \A i \in 1..Len(queue'[p]), k \in 1..Len(queue'[q]) :
              queue'[p][i].what = "reload" => /\ reload'[queue'[p][i].n] = "destroying"
                                              /\ queue'[q][k] = queue'[p][i] => q = p /\ k = i
    BY <1>1, <1>4, <2>1, QueueGrows DEF TypeInv
  <2>4. Told'
    BY <2>2, <2>3 DEF Told
  <2>5. Untold'
    BY <1>1, <1>4, PlacesUntold DEF TypeInv, agentVars
  <2>6. Counted'
    <3>1. Done' = Done
      BY <1>4 DEF Done
    <3>. QED
      BY <1>1, <3>1 DEF TypeInv, Counted
  <2>. QED
    BY <1>1, <1>2, <1>4, <2>2, <2>3, <2>4, <2>5, <2>6 DEF TypeInv, TypeOK, agentVars
<1>. QED
  BY <1>3, <1>4, ReceiveCases DEF TypeInv

\* A reload comes to its destroy, or to its end.
LEMMA DestroyTypes ==
  ASSUME TypeInv, NEW j \in Reloads, DestroyActive(j)
  PROVE  TypeInv'
<1>1. /\ reload[j] = "reading" /\ active' = FALSE
      /\ UNCHANGED <<agentVars, wanted, reads, retries, entry, made, open, kind, wire, replies, mishaps>>
  BY DEF DestroyActive
<1>2. Awaits'
  BY <1>1 DEF TypeInv, Awaits, agentVars
<1>. DEFINE c == Command("reload", j)
<1>3. c \in Commands /\ c.what = "reload" /\ c.n = j
  BY CommandKinds
<1>4. CASE /\ active
           /\ reload' = [reload EXCEPT ![j] = "destroying"]
           /\ queue' = [queue EXCEPT ![provider] = Append(queue[provider], c)]
           /\ UNCHANGED <<provider, config>>
  <2>. HIDE DEF c
  <2>1. /\ reload' \in [Reloads -> {"none", "due", "sent", "reading", "destroying", "done", "failed"}]
        /\ \A m \in Reloads : m # j => reload'[m] = reload[m]
        /\ reload'[j] = "destroying"
    BY <1>4 DEF TypeInv, TypeOK
  <2>2. \A p \in Providers : \A i \in 1..Len(queue[p]) : queue[p][i] # c
    BY <1>1, <1>3 DEF TypeInv, Told
  <2>3. /\ queue' \in [Providers -> Seq(Commands)]
        /\ \A p, q \in Providers : \A i \in 1..Len(queue'[p]), k \in 1..Len(queue'[q]) :
              queue'[p][i].what = "reload" => /\ reload'[queue'[p][i].n] = "destroying"
                                              /\ queue'[q][k] = queue'[p][i] => q = p /\ k = i
    <3>1. \A m \in Reloads : reload[m] = "destroying" => reload'[m] = "destroying"
      BY <1>1, <2>1
    <3>2. \A p \in Providers : \A i \in 1..Len(queue[p]) : c.what = "reload" => queue[p][i] # c
      BY <2>2
    <3>3. c.what = "reload" => reload'[c.n] = "destroying"
      BY <1>3, <2>1
    <3>4. queue' = [queue EXCEPT ![provider] = Append(queue[provider], c)] /\ TypeOK /\ Told /\ c \in Commands
      BY <1>3, <1>4 DEF TypeInv
    <3>. QED
      BY <3>1, <3>2, <3>3, <3>4, QueueGrows
  <2>4. Told'
    <3>1. \A i \in 1..Len(wire) : wire[i].what = "reload" => reload'[wire[i].n] = "sent"
      BY <1>1, <2>1, QueueCommands, CommandKinds DEF TypeInv, Told
    <3>. QED
      BY <1>1, <2>3, <3>1 DEF TypeInv, Told
  <2>5. Untold'
    BY <1>1, <2>1, PlacesUntold DEF TypeInv, agentVars
  <2>6. Counted'
    <3>1. Done \subseteq Done'
      BY <1>1, <2>1 DEF Done
    <3>. QED
      BY <1>1, <1>4, <3>1, SameProvider, QueueCommands DEF TypeInv
  <2>. QED
    BY <1>1, <1>2, <1>4, <2>1, <2>3, <2>4, <2>5, <2>6 DEF TypeInv, TypeOK, agentVars
<1>5. CASE NewProvider(j) /\ queue' = queue
  <2>1. /\ Counted' /\ provider' \in Providers
        /\ reload' = [reload EXCEPT ![j] = "done"]
        /\ config' \in [Providers -> 0..MaxChanges]
    BY <1>1, <1>5, NextProvider DEF TypeInv
  <2>2. /\ reload' \in [Reloads -> {"none", "due", "sent", "reading", "destroying", "done", "failed"}]
        /\ \A m \in Reloads : m # j => reload'[m] = reload[m]
        /\ reload'[j] = "done"
    BY <2>1 DEF TypeInv, TypeOK
  <2>3. Told'
    <3>1. \A i \in 1..Len(wire) : wire[i].what = "reload" => reload'[wire[i].n] = "sent"
      BY <1>1, <2>2, QueueCommands, CommandKinds DEF TypeInv, Told
    <3>2. \A p \in Providers : \A i \in 1..Len(queue[p]) :
            queue[p][i].what = "reload" => reload'[queue[p][i].n] = "destroying"
      BY <1>1, <2>2, QueueCommands, CommandKinds DEF TypeInv, Told
    <3>. QED
      BY <1>1, <1>5, <3>1, <3>2 DEF TypeInv, Told
  <2>4. Untold'
    BY <1>1, <2>2, PlacesUntold DEF TypeInv, agentVars
  <2>. QED
    BY <1>1, <1>2, <1>5, <2>1, <2>2, <2>3, <2>4 DEF TypeInv, TypeOK, agentVars
<1>. QED
  BY <1>4, <1>5 DEF DestroyActive

\* The calls of a provider without the first.
LEMMA QueueShrinks ==
  ASSUME TypeOK, Told, NEW p \in Providers, queue[p] # <<>>,
         queue' = [queue EXCEPT ![p] = Tail(queue[p])],
         \A j \in Reloads : reload'[j] = reload[j] \/ Head(queue[p]) = Command("reload", j)
  PROVE  /\ queue' \in [Providers -> Seq(Commands)]
         /\ \A q, r \in Providers : \A i \in 1..Len(queue'[q]), k \in 1..Len(queue'[r]) :
              queue'[q][i].what = "reload" => /\ reload'[queue'[q][i].n] = "destroying"
                                              /\ queue'[r][k] = queue'[q][i] => r = q /\ k = i
<1>1. /\ queue'[p] = Tail(queue[p]) /\ \A q \in Providers : q # p => queue'[q] = queue[q]
      /\ queue[p] \in Seq(Commands)
  BY DEF TypeOK
<1>2. /\ queue'[p] \in Seq(Commands) /\ Len(queue[p]) \in Nat /\ 1 \in 1..Len(queue[p])
      /\ Len(queue'[p]) = Len(queue[p]) - 1
      /\ \A k \in 1..(Len(queue[p]) - 1) : queue'[p][k] = queue[p][k + 1] /\ k + 1 \in 1..Len(queue[p])
      /\ Head(queue[p]) = queue[p][1]
  BY <1>1, TakenOff
<1>3. queue' \in [Providers -> Seq(Commands)]
  BY <1>1, <1>2 DEF TypeOK
<1>. DEFINE at(q, i) == IF q = p THEN i + 1 ELSE i
<1>4. ASSUME NEW q \in Providers, NEW i \in 1..Len(queue'[q])
      PROVE  /\ at(q, i) \in 1..Len(queue[q]) /\ queue'[q][i] = queue[q][at(q, i)]
             /\ q = p => at(q, i) # 1
             /\ i \in Int
  BY <1>1, <1>2, <1>4
<1>5. ASSUME NEW q \in Providers, NEW r \in Providers,
             NEW i \in 1..Len(queue'[q]), NEW k \in 1..Len(queue'[r]), queue'[q][i].what = "reload"
      PROVE  reload'[queue'[q][i].n] = "destroying" /\ (queue'[r][k] = queue'[q][i] => r = q /\ k = i)
  <2>1. PICK m \in 1..Len(queue[q]) : m = at(q, i)
    BY <1>4
  <2>2. PICK n \in 1..Len(queue[r]) : n = at(r, k)
    BY <1>4
  <2>3. r = q /\ n = m => k = i
    BY <1>4, <2>1, <2>2
  <2>4. queue'[q][i] = queue[q][m] /\ queue'[r][k] = queue[r][n] /\ (q = p => m # 1)
    BY <1>4, <2>1, <2>2
  <2>. HIDE DEF at
  <2>5. /\ reload[queue[q][m].n] = "destroying"
        /\ queue[r][n] = queue[q][m] => r = q /\ n = m
        /\ queue[p][1] = queue[q][m] => p = q /\ 1 = m
    BY <1>2, <1>5, <2>4 DEF Told
  <2>6. queue[q][m].n \in Reloads /\ queue[q][m] = Command("reload", queue[q][m].n)
    BY <1>5, <2>4, QueueCommands, CommandKinds
  <2>7. reload'[queue[q][m].n] = reload[queue[q][m].n]
    BY <1>2, <2>4, <2>5, <2>6
  <2>. QED
    BY <2>3, <2>4, <2>5, <2>7
<1>. QED
  BY <1>3, <1>5

\* The end of a call, but for the queue it leaves.
LEMMA CompletesCases ==
  ASSUME TypeInv, NEW p \in Providers, NEW c, Completes(p, c)
  PROVE  /\ queue[p] # <<>> /\ c = Head(queue[p]) /\ c \in Commands
         /\ queue' = [queue EXCEPT ![p] = Tail(queue[p])]
         /\ UNCHANGED <<agentVars, wanted, reads, retries, made, open, kind, wire, mishaps>>
         /\ active' \in BOOLEAN
         /\ entry' \in [Providers -> {"absent", "live", "parked"}]
         /\ \A q \in Providers : q # p => entry'[q] = entry[q]
         /\ entry'[p] = "absent" => entry[p] = "absent" \/ c.what \in {"destroy", "reload"}
         /\ c.what \in {"create", "recreate"} => entry'[p] # "absent"
         /\ \/ /\ c.what = "reload" /\ c.n \in Reloads /\ c = Command("reload", c.n)
               /\ reload[c.n] = "destroying" /\ NewProvider(c.n) /\ replies' = replies
            \/ /\ c.what \in Asks /\ c.n \in Calls /\ UNCHANGED <<reload, provider, config>>
               /\ replies' = replies \cup {[n |-> c.n, ok |-> c.what # "resume" \/ entry[p] # "absent"]}
<1>1. /\ queue[p] # <<>> /\ c = Head(queue[p]) /\ queue' = [queue EXCEPT ![p] = Tail(queue[p])]
      /\ UNCHANGED <<agentVars, wanted, reads, retries, made, open, kind, wire, mishaps>>
      /\ active' = (c.what \in {"create", "recreate"} \/ (active /\ c.what # "destroy"))
  BY DEF Completes
<1>2. queue[p] \in Seq(Commands) /\ 1 \in 1..Len(queue[p]) /\ c = queue[p][1] /\ c \in Commands
  BY <1>1, TakenOff DEF TypeInv, TypeOK
<1>3. active' \in BOOLEAN
  BY <1>1
<1>. DEFINE e == CASE c.what \in {"create", "recreate"} -> "live"
                   [] c.what = "resume" -> IF entry[p] = "absent" THEN "absent" ELSE "live"
                   [] c.what = "park" -> IF entry[p] = "live" THEN "parked" ELSE entry[p]
                   [] c.what \in {"destroy", "reload"} -> "absent"
<1>4. entry' = [entry EXCEPT ![p] = e]
  BY DEF Completes
<1>5. c.what \in {"create", "resume", "recreate", "park", "destroy", "reload"}
  BY <1>2, CommandKinds DEF Asks
<1>6. entry[p] \in {"absent", "live", "parked"}
  BY DEF TypeInv, TypeOK
<1>7. /\ e \in {"absent", "live", "parked"}
      /\ e = "absent" => entry[p] = "absent" \/ c.what \in {"destroy", "reload"}
      /\ c.what \in {"create", "recreate"} => e # "absent"
  <2>1. CASE c.what \in {"create", "recreate"}
    <3>1. e = "live"
      BY <2>1
    <3>. QED
      BY <3>1
  <2>2. CASE c.what = "resume"
    <3>1. e = IF entry[p] = "absent" THEN "absent" ELSE "live"
      BY <2>2
    <3>. HIDE DEF e
    <3>. QED
      BY <2>2, <3>1
  <2>3. CASE c.what = "park"
    <3>1. e = IF entry[p] = "live" THEN "parked" ELSE entry[p]
      BY <2>3
    <3>. HIDE DEF e
    <3>. QED
      BY <1>6, <2>3, <3>1
  <2>4. CASE c.what \in {"destroy", "reload"}
    <3>1. e = "absent"
      BY <2>4
    <3>. HIDE DEF e
    <3>. QED
      BY <2>4, <3>1
  <2>. QED
    BY <1>5, <2>1, <2>2, <2>3, <2>4
<1>. HIDE DEF e
<1>8. /\ entry' \in [Providers -> {"absent", "live", "parked"}] /\ entry'[p] = e
      /\ \A q \in Providers : q # p => entry'[q] = entry[q]
  BY <1>4, <1>7 DEF TypeInv, TypeOK
<1>9. CASE c.what = "reload"
  <2>1. NewProvider(c.n) /\ replies' = replies
    BY <1>9 DEF Completes
  <2>2. c.n \in Reloads /\ c = Command("reload", c.n)
    BY <1>2, <1>9, CommandKinds
  <2>3. reload[c.n] = "destroying"
    BY <1>2, <1>9 DEF TypeInv, Told
  <2>. QED
    BY <1>1, <1>2, <1>3, <1>7, <1>8, <1>9, <2>1, <2>2, <2>3
<1>10. CASE c.what # "reload"
  <2>1. /\ UNCHANGED <<reload, provider, config>>
        /\ replies' = replies \cup {[n |-> c.n, ok |-> c.what # "resume" \/ entry[p] # "absent"]}
    BY <1>10 DEF Completes
  <2>2. c.what \in Asks /\ c.n \in Calls
    BY <1>2, <1>10, CommandKinds
  <2>. QED
    BY <1>1, <1>2, <1>3, <1>7, <1>8, <2>1, <2>2
<1>. QED
  BY <1>9, <1>10

LEMMA CompletesTypes ==
  ASSUME TypeInv, NEW p \in Providers, NEW c, Completes(p, c)
  PROVE  TypeInv'
<1>1. /\ queue[p] # <<>> /\ c = Head(queue[p])
      /\ queue' = [queue EXCEPT ![p] = Tail(queue[p])]
      /\ UNCHANGED <<agentVars, wanted, reads, retries, made, open, kind, wire, mishaps>>
      /\ active' \in BOOLEAN
      /\ entry' \in [Providers -> {"absent", "live", "parked"}]
  BY CompletesCases
<1>2. Awaits'
  BY <1>1 DEF TypeInv, Awaits, agentVars
<1>3. CASE /\ c.what = "reload" /\ c.n \in Reloads /\ c = Command("reload", c.n)
           /\ reload[c.n] = "destroying" /\ NewProvider(c.n) /\ replies' = replies
  <2>1. /\ Counted' /\ provider' \in Providers
        /\ reload' = [reload EXCEPT ![c.n] = "done"]
        /\ config' \in [Providers -> 0..MaxChanges]
    BY <1>1, <1>3, NextProvider DEF TypeInv
  <2>2. /\ reload' \in [Reloads -> {"none", "due", "sent", "reading", "destroying", "done", "failed"}]
        /\ \A m \in Reloads : m # c.n => reload'[m] = reload[m]
    BY <2>1 DEF TypeInv, TypeOK
  <2>3. Told' /\ queue' \in [Providers -> Seq(Commands)]
    <3>1. \A i \in 1..Len(wire) : wire[i].what = "reload" => reload'[wire[i].n] = "sent"
      BY <1>3, <2>2, QueueCommands, CommandKinds DEF TypeInv, Told
    <3>2. \A j \in Reloads : reload'[j] = reload[j] \/ Head(queue[p]) = Command("reload", j)
      BY <1>1, <1>3, <2>2
    <3>3. /\ queue' \in [Providers -> Seq(Commands)]
          /\ \A q, r \in Providers : \A i \in 1..Len(queue'[q]), k \in 1..Len(queue'[r]) :
               queue'[q][i].what = "reload" => /\ reload'[queue'[q][i].n] = "destroying"
                                               /\ queue'[r][k] = queue'[q][i] => r = q /\ k = i
      BY <1>1, <3>2, QueueShrinks DEF TypeInv
    <3>. QED
      BY <1>1, <3>1, <3>3 DEF TypeInv, Told
  <2>4. Untold'
    BY <1>1, <1>3, <2>2, PlacesUntold DEF TypeInv, agentVars
  <2>. QED
    BY <1>1, <1>2, <1>3, <2>1, <2>2, <2>3, <2>4 DEF TypeInv, TypeOK, agentVars
<1>4. CASE /\ c.what \in Asks /\ c.n \in Calls /\ UNCHANGED <<reload, provider, config>>
           /\ replies' = replies \cup {[n |-> c.n, ok |-> c.what # "resume" \/ entry[p] # "absent"]}
  <2>1. Told' /\ queue' \in [Providers -> Seq(Commands)]
    <3>1. /\ queue' \in [Providers -> Seq(Commands)]
          /\ \A q, r \in Providers : \A i \in 1..Len(queue'[q]), k \in 1..Len(queue'[r]) :
               queue'[q][i].what = "reload" => /\ reload'[queue'[q][i].n] = "destroying"
                                               /\ queue'[r][k] = queue'[q][i] => r = q /\ k = i
      BY <1>1, <1>4, QueueShrinks DEF TypeInv
    <3>2. \A i, k \in 1..Len(wire) : wire[i].what = "reload" => /\ reload[wire[i].n] = "sent"
                                                                /\ wire[k] = wire[i] => k = i
      BY DEF TypeInv, Told
    <3>3. UNCHANGED <<wire, reload>>
      BY <1>1, <1>4
    <3>. QED
      BY <3>1, <3>2, <3>3 DEF Told
  <2>2. Untold'
    BY <1>1, <1>4, PlacesUntold DEF TypeInv, agentVars
  <2>3. replies' \subseteq [n : Calls, ok : BOOLEAN]
    <3>. DEFINE said == (c.what # "resume" \/ entry[p] # "absent")
    <3>1. said \in BOOLEAN /\ replies' = replies \cup {[n |-> c.n, ok |-> said]} /\ c.n \in Calls
      BY <1>4
    <3>2. replies \subseteq [n : Calls, ok : BOOLEAN]
      BY DEF TypeInv, TypeOK
    <3>. HIDE DEF said
    <3>. QED
      BY <3>1, <3>2
  <2>4. Counted'
    <3>1. Done' = Done
      BY <1>4 DEF Done
    <3>. QED
      BY <1>1, <1>4, <3>1 DEF TypeInv, Counted
  <2>. QED
    BY <1>1, <1>2, <1>4, <2>1, <2>2, <2>3, <2>4 DEF TypeInv, TypeOK, agentVars
<1>. QED
  BY <1>3, <1>4, CompletesCases

LEMMA FailsTypes ==
  ASSUME TypeInv, NEW p \in Providers, NEW c, Fails(p, c)
  PROVE  TypeInv'
<1>1. /\ queue[p] # <<>> /\ c = Head(queue[p]) /\ Mishap(c.what)
      /\ c.what \in {"create", "resume", "recreate"}
      /\ queue' = [queue EXCEPT ![p] = Tail(queue[p])]
      /\ entry' = [entry EXCEPT ![p] = IF c.what = "recreate" THEN "absent" ELSE entry[p]]
      /\ replies' = replies \cup {[n |-> c.n, ok |-> FALSE]}
      /\ UNCHANGED <<agentVars, reloadVars, provider, config, active, made, open, kind, wire>>
  BY DEF Fails
<1>2. c \in Commands /\ c.n \in Calls
  BY <1>1, TakenOff, CommandKinds DEF TypeInv, TypeOK
<1>3. /\ queue' \in [Providers -> Seq(Commands)]
      /\ \A q, r \in Providers : \A i \in 1..Len(queue'[q]), k \in 1..Len(queue'[r]) :
           queue'[q][i].what = "reload" => /\ reload'[queue'[q][i].n] = "destroying"
                                           /\ queue'[r][k] = queue'[q][i] => r = q /\ k = i
  BY <1>1, QueueShrinks DEF TypeInv, reloadVars
<1>4. Told'
  BY <1>1, <1>3 DEF TypeInv, Told, reloadVars
<1>5. Awaits' /\ Untold'
  BY <1>1 DEF TypeInv, Awaits, Untold, agentVars, reloadVars
<1>6. /\ mishaps' \in Seq(Mishaps) /\ Len(mishaps') \in Nat /\ Len(mishaps') <= MaxMishaps
      /\ Len(mishaps') = Len(mishaps) + 1 /\ Len(mishaps) \in Nat
  BY <1>1, MishapCount DEF TypeInv
<1>7. Counted'
  <2>1. Done' = Done
    BY <1>1 DEF Done, reloadVars
  <2>. QED
    BY <1>1, <1>6, <2>1, SameProvider DEF TypeInv
<1>8. entry' \in [Providers -> {"absent", "live", "parked"}] /\ replies' \subseteq [n : Calls, ok : BOOLEAN]
  <2>1. entry' \in [Providers -> {"absent", "live", "parked"}]
    BY <1>1 DEF TypeInv, TypeOK
  <2>2. [n |-> c.n, ok |-> FALSE] \in [n : Calls, ok : BOOLEAN]
    BY <1>2
  <2>3. replies \subseteq [n : Calls, ok : BOOLEAN]
    BY DEF TypeInv, TypeOK
  <2>. QED
    BY <1>1, <2>1, <2>2, <2>3
<1>. QED
  BY <1>1, <1>3, <1>4, <1>5, <1>6, <1>7, <1>8 DEF TypeInv, TypeOK, agentVars, reloadVars

\* The wire without some of its commands.
LEMMA ToldThinned ==
  ASSUME TypeOK, Told, wire' \in Seq(Commands), NEW at, NEW m \in Nat,
         Len(wire') = m,
         \A k \in 1..m : at[k] \in 1..Len(wire) /\ wire'[k] = wire[at[k]],
         \A i, k \in 1..m : at[i] = at[k] => i = k,
         \A k \in 1..m : wire'[k].what = "reload" => reload'[wire'[k].n] = "sent"
  PROVE  \A i, k \in 1..Len(wire') :
              wire'[i].what = "reload" => /\ reload'[wire'[i].n] = "sent"
                                          /\ wire'[k] = wire'[i] => k = i
BY DEF Told

\* What RemoveAt and SubSeq take from the wire.
LEMMA Removed ==
  ASSUME NEW s \in Seq(Commands), NEW i \in 1..Len(s)
  PROVE  /\ RemoveAt(s, i) \in Seq(Commands) /\ Len(s) \in Nat /\ i \in Nat
         /\ Len(RemoveAt(s, i)) = Len(s) - 1
         /\ \A k \in 1..(Len(s) - 1) : RemoveAt(s, i)[k] = IF k < i THEN s[k] ELSE s[k + 1]
<1>. HIDE DEF Commands
<1>1. Len(s) \in Nat /\ i \in Nat /\ i >= 1 /\ i <= Len(s)
  OBVIOUS
<1>. DEFINE a == SubSeq(s, 1, i - 1)
            b == SubSeq(s, i + 1, Len(s))
<1>2. a \in Seq(Commands) /\ Len(a) = i - 1 /\ \A k \in 1..(i - 1) : a[k] = s[k]
  BY <1>1
<1>3. b \in Seq(Commands) /\ Len(b) = Len(s) - i /\ \A k \in 1..(Len(s) - i) : b[k] = s[i + k]
  BY <1>1
<1>4. RemoveAt(s, i) = a \o b
  BY DEF RemoveAt
<1>. HIDE DEF a, b
<1>5. a \o b \in Seq(Commands) /\ Len(a \o b) = Len(s) - 1
  <2>1. a \o b \in Seq(Commands) /\ Len(a \o b) = Len(a) + Len(b)
    BY <1>2, <1>3, ConcatProperties
  <2>. QED
    BY <1>1, <1>2, <1>3, <2>1
<1>6. ASSUME NEW k \in 1..(Len(s) - 1) PROVE (a \o b)[k] = IF k < i THEN s[k] ELSE s[k + 1]
  <2>1. (a \o b)[k] = IF k <= i - 1 THEN a[k] ELSE b[k - (i - 1)]
    BY <1>1, <1>2, <1>3, ConcatProperties
  <2>. QED
    BY <1>1, <1>2, <1>3, <2>1
<1>. QED
  BY <1>1, <1>4, <1>5, <1>6

LEMMA Suffix ==
  ASSUME NEW s \in Seq(Commands), NEW n \in 0..Len(s)
  PROVE  /\ SubSeq(s, n + 1, Len(s)) \in Seq(Commands) /\ Len(s) \in Nat /\ n \in Nat
         /\ Len(SubSeq(s, n + 1, Len(s))) = Len(s) - n
         /\ \A k \in 1..(Len(s) - n) : SubSeq(s, n + 1, Len(s))[k] = s[n + k]
<1>. HIDE DEF Commands
<1>. QED
  OBVIOUS

\* A call that is not sent.
LEMMA RefusedTypes ==
  ASSUME TypeInv, NEW n \in Calls, Refused(n)
  PROVE  TypeInv'
<1>1. /\ Mishap("refused")
      /\ UNCHANGED <<agentVars, workerVars, reloadVars, made, open, kind, replies>>
  BY DEF Refused
<1>2. PICK i \in 1..Len(wire) : wire' = RemoveAt(wire, i)
  BY DEF Refused
<1>3. /\ wire' \in Seq(Commands) /\ Len(wire) \in Nat /\ i \in Nat /\ Len(wire') = Len(wire) - 1
      /\ \A k \in 1..(Len(wire) - 1) : wire'[k] = IF k < i THEN wire[k] ELSE wire[k + 1]
  BY <1>2, Removed DEF TypeInv, TypeOK
<1>4. Told'
  <2>. DEFINE at == [k \in 1..(Len(wire) - 1) |-> IF k < i THEN k ELSE k + 1]
  <2>1. /\ \A k \in 1..(Len(wire) - 1) : at[k] \in 1..Len(wire) /\ wire'[k] = wire[at[k]]
        /\ \A k, m \in 1..(Len(wire) - 1) : at[k] = at[m] => k = m
    BY <1>3
  <2>. HIDE DEF at
  <2>2. \A k \in 1..(Len(wire) - 1) : wire'[k].what = "reload" => reload'[wire'[k].n] = "sent"
    BY <1>1, <2>1 DEF TypeInv, Told, reloadVars
  <2>3. Len(wire) - 1 \in Nat
    BY <1>3
  <2>4. \A a, k \in 1..Len(wire') :
              wire'[a].what = "reload" => /\ reload'[wire'[a].n] = "sent"
                                          /\ wire'[k] = wire'[a] => k = a
    BY <1>3, <2>1, <2>2, <2>3, ToldThinned DEF TypeInv
  <2>5. UNCHANGED <<queue, reload>>
    BY <1>1 DEF workerVars, reloadVars
  <2>. QED
    BY <2>4, <2>5 DEF TypeInv, Told
<1>5. Awaits' /\ Untold'
  BY <1>1 DEF TypeInv, Awaits, Untold, agentVars, reloadVars
<1>6. /\ mishaps' \in Seq(Mishaps) /\ Len(mishaps') \in Nat /\ Len(mishaps') <= MaxMishaps
      /\ Len(mishaps') = Len(mishaps) + 1 /\ Len(mishaps) \in Nat
  BY <1>1, MishapCount DEF TypeInv
<1>7. Counted'
  <2>1. Done' = Done /\ provider' = provider
    BY <1>1 DEF Done, reloadVars, workerVars
  <2>. QED
    BY <1>6, <2>1, SameProvider DEF TypeInv
<1>. QED
  BY <1>1, <1>3, <1>4, <1>5, <1>6, <1>7 DEF TypeInv, TypeOK, agentVars, workerVars, reloadVars

\* A reload that is nowhere fails.
LEMMA FailedTypes ==
  ASSUME TypeInv, NEW j \in Reloads, reload[j] \in {"none", "reading"}, Mishap("reload"),
         reload' = [reload EXCEPT ![j] = "failed"],
         agent' \in [Changes -> {"none", "due", "destroying", "done"}], Awaits', Untold',
         UNCHANGED <<state, hasId, ready, caller, on, destroying, stopping, workerVars, wanted, reads,
                     retries, made, open, kind, wire, replies>>
  PROVE  TypeInv'
<1>1. /\ reload' \in [Reloads -> {"none", "due", "sent", "reading", "destroying", "done", "failed"}]
      /\ \A m \in Reloads : m # j => reload'[m] = reload[m]
  BY DEF TypeInv, TypeOK
<1>2. Told'
  <2>1. \A i \in 1..Len(wire) : wire[i].what = "reload" => reload'[wire[i].n] = "sent"
    BY <1>1, QueueCommands, CommandKinds DEF TypeInv, Told
  <2>2. \A p \in Providers : \A i \in 1..Len(queue[p]) :
          queue[p][i].what = "reload" => reload'[queue[p][i].n] = "destroying"
    BY <1>1, QueueCommands, CommandKinds DEF TypeInv, Told
  <2>3. UNCHANGED <<wire, queue>>
    BY DEF workerVars
  <2>. QED
    BY <2>1, <2>2, <2>3 DEF TypeInv, Told
<1>3. /\ mishaps' \in Seq(Mishaps) /\ Len(mishaps') \in Nat /\ Len(mishaps') <= MaxMishaps
      /\ Len(mishaps') = Len(mishaps) + 1 /\ Len(mishaps) \in Nat
  BY MishapCount DEF TypeInv
<1>4. Counted'
  <2>1. Done \subseteq Done' /\ provider' = provider
    BY <1>1 DEF Done, workerVars
  <2>. QED
    BY <1>3, <2>1, SameProvider DEF TypeInv
<1>. QED
  BY <1>1, <1>2, <1>3, <1>4 DEF TypeInv, TypeOK, workerVars

LEMMA FailingTypes ==
  ASSUME TypeInv
  PROVE  /\ \A k \in Changes : AgentReloadFails(k) => TypeInv'
         /\ \A j \in Reloads : ReloadFails(j) => TypeInv'
<1>1. ASSUME NEW k \in Changes, AgentReloadFails(k) PROVE TypeInv'
  <2>. DEFINE w == AgentReload(k)
  <2>1. /\ agent[k] = "due" /\ Mishap("reload")
        /\ agent' = [agent EXCEPT ![k] = "done"] /\ reload' = [reload EXCEPT ![w] = "failed"]
        /\ UNCHANGED <<state, hasId, ready, caller, on, destroying, stopping, workerVars, wanted, reads,
                       retries, made, open, kind, wire, replies>>
    BY <1>1 DEF AgentReloadFails
  <2>2. w \in Reloads /\ reload[w] = "none"
    BY <2>1, ReloadIndex DEF TypeInv, Untold
  <2>3. \A m \in Changes : WebReload(m) \in Reloads \ {w} /\ (m # k => AgentReload(m) \in Reloads \ {w})
    BY ReloadIndex
  <2>4. \A r \in 1..MaxRetries : 2 * MaxChanges + r \in Reloads \ {w}
    BY ReloadIndex
  <2>. HIDE DEF w
  <2>5. /\ agent' \in [Changes -> {"none", "due", "destroying", "done"}] /\ agent'[k] = "done"
        /\ \A m \in Changes : m # k => agent'[m] = agent[m]
        /\ \A j \in Reloads : j # w => reload'[j] = reload[j]
    BY <2>1 DEF TypeInv, TypeOK
  <2>6. Awaits'
    <3>1. \A m \in Changes : destroying[m] \in open => m # k
      BY <2>1 DEF TypeInv, Awaits
    <3>. QED
      BY <2>1, <2>5, <3>1 DEF TypeInv, Awaits
  <2>7. Untold'
    <3>1. \A m \in Changes : m > wanted => m # k
      BY <2>1 DEF TypeInv, Untold
    <3>. QED
      BY <2>1, <2>3, <2>4, <2>5, <3>1 DEF TypeInv, Untold
  <2>. QED
    BY <2>1, <2>2, <2>5, <2>6, <2>7, FailedTypes
<1>2. ASSUME NEW j \in Reloads, ReloadFails(j) PROVE TypeInv'
  <2>1. /\ reload[j] = "reading" /\ Mishap("reload") /\ reload' = [reload EXCEPT ![j] = "failed"]
        /\ UNCHANGED <<agentVars, workerVars, wanted, reads, retries, made, open, kind, wire, replies>>
    BY <1>2 DEF ReloadFails
  <2>2. Awaits' /\ agent' \in [Changes -> {"none", "due", "destroying", "done"}]
    BY <2>1 DEF TypeInv, TypeOK, Awaits, agentVars
  <2>3. \A m \in Reloads : reload[m] = "none" => reload'[m] = "none"
    BY <2>1 DEF TypeInv, TypeOK
  <2>4. Untold'
    BY <2>1, <2>3, PlacesUntold DEF TypeInv, agentVars
  <2>. QED
    BY <2>1, <2>2, <2>4, FailedTypes DEF agentVars
<1>. QED
  BY <1>1, <1>2

\* A crash takes the first commands of the wire and what was behind calls, and is one more
\* provider.
LEMMA RestartTypes == TypeInv /\ WorkerRestarts => TypeInv'
<1>. SUFFICES ASSUME TypeInv, WorkerRestarts PROVE TypeInv'
  OBVIOUS
<1>1. /\ Mishap("crash") /\ queue' = [p \in Providers |-> <<>>]
      /\ provider' = provider + 1
      /\ config' = [config EXCEPT ![provider'] = wanted]
      /\ active' = FALSE
      /\ UNCHANGED <<agentVars, wanted, reads, retries, entry, made, open, kind, replies>>
  BY DEF WorkerRestarts
<1>10. PICK claimed \in 0..Len(wire) :
        /\ wire' = SubSeq(wire, claimed + 1, Len(wire))
        /\ reload' = [j \in Reloads |->
                IF \/ reload[j] \in {"reading", "destroying"}
                   \/ \E i \in 1..claimed : wire[i] = Command("reload", j)
                THEN "done" ELSE reload[j]]
  BY DEF WorkerRestarts
<1>2. /\ mishaps' \in Seq(Mishaps) /\ Len(mishaps') \in Nat /\ Len(mishaps') <= MaxMishaps
      /\ Len(mishaps') = Len(mishaps) + 1 /\ Len(mishaps) \in Nat
  BY <1>1, MishapCount DEF TypeInv
<1>11. /\ wire' \in Seq(Commands) /\ Len(wire) \in Nat /\ claimed \in Nat
      /\ Len(wire') = Len(wire) - claimed /\ Len(wire) - claimed \in Nat
      /\ \A k \in 1..(Len(wire) - claimed) : wire'[k] = wire[claimed + k] /\ claimed + k \in 1..Len(wire)
      /\ \A i \in 1..claimed : i \in 1..Len(wire)
  BY <1>10, Suffix DEF TypeInv, TypeOK
<1>3. /\ reload' \in [Reloads -> {"none", "due", "sent", "reading", "destroying", "done", "failed"}]
      /\ \A j \in Reloads : reload[j] \in {"none", "done"} => reload'[j] = reload[j]
  <2>1. \A j \in Reloads : \A i \in 1..claimed : wire[i] = Command("reload", j) => reload[j] = "sent"
    BY <1>11, CommandKinds DEF TypeInv, Told
  <2>. QED
    BY <1>10, <2>1 DEF TypeInv, TypeOK
<1>4. queue' \in [Providers -> Seq(Commands)]
  <2>. HIDE DEF Commands
  <2>. QED
    BY <1>1
<1>5. Told'
  <2>1. \A p \in Providers : Len(queue'[p]) = 0
    BY <1>1
  <2>. DEFINE at == [k \in 1..(Len(wire) - claimed) |-> claimed + k]
  <2>2. /\ \A k \in 1..(Len(wire) - claimed) : at[k] \in 1..Len(wire) /\ wire'[k] = wire[at[k]]
                                                /\ at[k] > claimed
        /\ \A k, m \in 1..(Len(wire) - claimed) : at[k] = at[m] => k = m
    BY <1>11
  <2>. HIDE DEF at
  <2>3. ASSUME NEW k \in 1..(Len(wire) - claimed), wire'[k].what = "reload"
        PROVE  reload'[wire'[k].n] = "sent"
    <3>1. /\ wire[at[k]] \in Commands /\ wire'[k] = wire[at[k]] /\ at[k] \in 1..Len(wire)
      BY <2>2, QueueCommands DEF TypeInv
    <3>2. PICK j \in Reloads : j = wire[at[k]].n /\ wire[at[k]] = Command("reload", j)
      BY <2>3, <3>1, CommandKinds
    <3>3. reload[j] = "sent"
      BY <2>3, <3>1, <3>2 DEF TypeInv, Told
    <3>4. ASSUME NEW i \in 1..claimed PROVE wire[i] # Command("reload", j)
      <4>1. i \in 1..Len(wire) /\ i <= claimed /\ i \in Nat
        BY <1>11
      <4>2. at[k] > claimed /\ at[k] \in 1..Len(wire)
        BY <2>2
      <4>3. i # at[k]
        BY <1>11, <4>1, <4>2
      <4>4. wire[at[k]].what = "reload"
        BY <2>3, <3>1
      <4>5. wire[i] # wire[at[k]]
        BY <4>1, <4>2, <4>3, <4>4 DEF TypeInv, Told
      <4>. QED
        BY <3>2, <4>5
    <3>5. reload'[j] = "sent"
      BY <1>10, <3>3, <3>4
    <3>. QED
      BY <3>1, <3>2, <3>5
  <2>4. \A i, k \in 1..Len(wire') :
              wire'[i].what = "reload" => /\ reload'[wire'[i].n] = "sent"
                                          /\ wire'[k] = wire'[i] => k = i
    BY <1>11, <2>2, <2>3, ToldThinned DEF TypeInv
  <2>. QED
    BY <2>1, <2>4 DEF Told
<1>6. Awaits'
  BY <1>1 DEF TypeInv, Awaits, agentVars
<1>7. Untold'
  BY <1>1, <1>3, PlacesUntold DEF TypeInv, agentVars
<1>8. Counted' /\ provider' \in Providers
  <2>1. Done \subseteq Done'
    BY <1>3 DEF Done
  <2>2. Cardinality(Done) <= Cardinality(Done')
    BY <2>1, DoneCountNext, FS_Subset
  <2>3. Counted'
    BY <1>1, <1>2, <2>2, DoneCount, DoneCountNext, QueueCommands DEF TypeInv, Counted
  <2>. QED
    BY <1>1, <1>2, <2>3, ProviderType, QueueCommands DEF TypeInv
<1>9. config' \in [Providers -> 0..MaxChanges]
  BY <1>1 DEF TypeInv, TypeOK
<1>. QED
  BY <1>1, <1>2, <1>3, <1>4, <1>5, <1>6, <1>7, <1>8, <1>9, <1>11 DEF TypeInv, TypeOK, agentVars

LEMMA TypeStep == TypeInv /\ [Next]_vars => TypeInv'
<1>. SUFFICES ASSUME TypeInv, [Next]_vars PROVE TypeInv'
  OBVIOUS
<1>1. ASSUME NEW r \in Runs, Ensure(r) PROVE TypeInv'
  BY <1>1, EnsureTypes
<1>2. CASE RefreshMounts \/ ParkAll \/ \E r \in Runs : RunEnds(r)
  BY <1>2, AgentTypes
<1>3. CASE ChangeSettings \/ RetrySetup
  BY <1>3, ChangeTypes, RetryTypes
<1>4. CASE AgentStep \/ \E n \in Calls : TimesOut(n) \/ Refused(n)
  BY <1>4, ReloadsTypes, AnswerTypes, RefusedTypes DEF AgentStep
<1>5. CASE WorkerStep
  BY <1>5, ReceiveTypes, SendTypes, DestroyTypes, CompletesTypes DEF WorkerStep
<1>6. ASSUME NEW p \in Providers, NEW c, Fails(p, c) PROVE TypeInv'
  BY <1>6, FailsTypes
<1>7. CASE \/ WorkerRestarts \/ \E k \in Changes : AgentReloadFails(k)
           \/ \E j \in Reloads : ReloadFails(j)
  BY <1>7, RestartTypes, FailingTypes
<1>8. CASE UNCHANGED vars
  <2>1. Told' /\ Awaits' /\ Untold' /\ Counted'
    BY <1>8, ReloadsKept DEF vars, agentVars
  <2>. QED
    BY <1>8, <2>1 DEF vars, agentVars, workerVars, reloadVars, TypeInv, TypeOK
<1>. QED
  BY <1>1, <1>2, <1>3, <1>4, <1>5, <1>6, <1>7, <1>8 DEF Next

LEMMA TypeInvariant == Spec => []TypeInv
BY InitTypes, TypeStep, PTL DEF Spec

\* What the agent believes, the commands between the processes and what the worker has
\* always have their types.  In particular each reload makes at most one provider: the
\* worker never has more of them than reloads and crashes.
THEOREM SandboxTyped == Spec => []TypeOK
BY TypeInvariant, PTL DEF TypeInv

-----------------------------------------------------------------------------
(* The agent is never left waiting or stuck.                                 *)

\* Who waits for the sandbox waits for a call that is awaited, and so would the next.
Waits ==
    /\ ready # NoCall => ready \in open /\ kind[ready] \in {"create", "resume"}
    /\ \A r \in Runs : caller[r] = "waiting" =>
         on[r] \in open /\ kind[on[r]] \in {"create", "resume"}

\* Before the shutdown nothing is parked or resumed, a live sandbox has its id, and a
\* sandbox that is starting is being created.
Restful ==
    /\ ~stopping => /\ state \in {"idle", "starting", "live"}
                    /\ state = "live" => hasId
                    /\ \A n \in open : kind[n] \notin {"resume", "park"}
    /\ state = "starting" => \E n \in open : kind[n] = "create"

AgentInv == Waits /\ Restful

LEMMA InitAgent == Init => AgentInv
BY DEF Init, AgentInv, Waits, Restful

\* Steps that leave the agent's view of the sandbox.
LEMMA AgentKept ==
  ASSUME AgentInv, UNCHANGED <<state, hasId, ready, caller, on, stopping, open, kind>>
  PROVE  AgentInv'
BY DEF AgentInv, Waits, Restful

\* A call goes out: what was asked before stays asked.
LEMMA CallKinds ==
  ASSUME TypeInv, NEW what \in Asks, Call(what)
  PROVE  /\ open' = open \cup {made'} /\ kind'[made'] = what /\ made' # NoCall
         /\ \A n \in open : kind'[n] = kind[n]
<1>1. /\ made' = made + 1 /\ made' \in Calls /\ open' = open \cup {made'} /\ made' \notin open
      /\ kind' = [kind EXCEPT ![made'] = what]
  BY CallFacts DEF TypeInv
<1>2. open \subseteq Calls /\ made' # NoCall
  BY <1>1, SandboxAssumption DEF TypeInv, TypeOK, Calls, NoCall
<1>. QED
  BY <1>1, <1>2 DEF TypeInv, TypeOK

LEMMA EnsureAgent ==
  ASSUME TypeInv, AgentInv, NEW r \in Runs, Ensure(r)
  PROVE  AgentInv'
<1>1. UNCHANGED <<hasId, stopping>>
  BY EnsureCases DEF TypeInv
<1>2. CASE /\ NoNewCall /\ UNCHANGED <<state, ready, on>>
           /\ \E v \in {"served", "failed"} : caller' = [caller EXCEPT ![r] = v]
  BY <1>1, <1>2 DEF NoNewCall, AgentInv, Waits, Restful, TypeInv, TypeOK
<1>3. CASE /\ NoNewCall /\ UNCHANGED <<state, ready>> /\ ready # NoCall
           /\ caller' = [caller EXCEPT ![r] = "waiting"] /\ on' = [on EXCEPT ![r] = ready]
  <2>1. Restful'
    BY <1>1, <1>3 DEF NoNewCall, AgentInv, Restful
  <2>2. Waits'
    BY <1>3 DEF NoNewCall, AgentInv, Waits, TypeInv, TypeOK
  <2>. QED
    BY <2>1, <2>2 DEF AgentInv
<1>4. ASSUME NEW what \in {"create", "resume"},
             Call(what), ready' = made',
             caller' = [caller EXCEPT ![r] = "waiting"], on' = [on EXCEPT ![r] = made'],
             what = "create" => state = "idle" /\ state' = "starting",
             what = "resume" => state = "parked" /\ state' = "resuming"
      PROVE  AgentInv'
  <2>1. /\ open' = open \cup {made'} /\ kind'[made'] = what
        /\ \A n \in open : kind'[n] = kind[n]
    BY <1>4, CallKinds DEF Asks
  <2>2. Waits'
    BY <1>4, <2>1 DEF AgentInv, Waits, TypeInv, TypeOK
  <2>3. Restful'
    BY <1>1, <1>4, <2>1 DEF AgentInv, Restful
  <2>. QED
    BY <2>2, <2>3 DEF AgentInv
<1>. QED
  BY <1>2, <1>3, <1>4, EnsureCases DEF TypeInv

\* Another command of the agent goes out.
LEMMA AskAgent ==
  ASSUME TypeInv, AgentInv, NEW what \in {"recreate", "park", "destroy"}, Call(what),
         UNCHANGED <<hasId, ready, caller, on>>,
         \/ what # "park" /\ UNCHANGED <<state, stopping>>
         \/ what = "park" /\ state' = "parking" /\ stopping'
  PROVE  AgentInv'
<1>1. /\ open' = open \cup {made'} /\ kind'[made'] = what
      /\ \A n \in open : kind'[n] = kind[n]
  BY CallKinds DEF Asks
<1>2. Waits'
  BY <1>1 DEF AgentInv, Waits
<1>3. Restful'
  BY <1>1 DEF AgentInv, Restful
<1>. QED
  BY <1>2, <1>3 DEF AgentInv

\* The agent forgets its sandbox.
LEMMA ForgetAgent ==
  ASSUME TypeInv, AgentInv, NEW k, ForgetAndTell(k), UNCHANGED <<caller, on, stopping, kind>>,
         \A n \in open : n \in open' \/ kind[n] \notin {"create", "resume"}, open' \subseteq open
  PROVE  AgentInv'
<1>1. hasId' = FALSE /\ state' = "idle" /\ ready' = NoCall
  BY DEF ForgetAndTell
<1>. QED
  BY <1>1 DEF AgentInv, Waits, Restful

LEMMA ReturnsAgent ==
  ASSUME TypeInv, AgentInv, NEW n \in open, NEW ok \in BOOLEAN, Returns(n, ok)
  PROVE  AgentInv'
<1>1. kind[n] \in Asks
  BY DEF TypeInv, Awaits
<1>2. open' = open \ {n} /\ UNCHANGED <<on, stopping, kind>>
  BY <1>1, ReturnsCases
<1>3. ASSUME NEW good, Settle(n, good) PROVE Waits'
  <2>1. ready' = NoCall /\ \A r \in Runs : caller'[r] = "waiting" => caller[r] = "waiting" /\ on[r] # n
    BY <1>3 DEF Settle
  <2>. QED
    BY <1>2, <2>1 DEF AgentInv, Waits
<1>4. CASE kind[n] = "create" /\ Settle(n, ok) /\ Created(ok)
  <2>1. (state' = "live" /\ hasId') \/ state' = "idle"
    BY <1>4 DEF Created
  <2>2. Restful'
    BY <1>2, <2>1 DEF AgentInv, Restful
  <2>. QED
    BY <1>3, <1>4, <2>2 DEF AgentInv
<1>5. CASE kind[n] = "resume" /\ Settle(n, ok /\ hasId) /\ state' = (IF ok THEN "live" ELSE "parked")
  <2>1. Restful'
    BY <1>2, <1>5 DEF AgentInv, Restful
  <2>. QED
    BY <1>3, <1>5, <2>1 DEF AgentInv
<1>6. CASE /\ kind[n] = "recreate" /\ hasId' = (ok \/ hasId)
           /\ UNCHANGED <<state, ready, caller>>
  <2>1. Waits'
    BY <1>2, <1>6 DEF AgentInv, Waits
  <2>2. hasId => hasId'
    BY <1>6
  <2>3. Restful'
    BY <1>2, <1>6, <2>2 DEF AgentInv, Restful
  <2>. QED
    BY <2>1, <2>3 DEF AgentInv
<1>7. CASE kind[n] = "park" /\ state' = (IF ok THEN "parked" ELSE "live") /\ UNCHANGED <<hasId, ready, caller>>
  <2>1. Waits'
    BY <1>2, <1>7 DEF AgentInv, Waits
  <2>2. Restful'
    BY <1>2, <1>7 DEF AgentInv, Restful
  <2>. QED
    BY <2>1, <2>2 DEF AgentInv
<1>8. ASSUME NEW k \in Changes, kind[n] = "destroy", UNCHANGED caller, ForgetAndTell(k)
      PROVE  AgentInv'
  BY <1>2, <1>8, ForgetAgent
<1>. QED
  BY <1>1, <1>4, <1>5, <1>6, <1>7, <1>8, ReturnsCases

LEMMA AgentStepKeeps == TypeInv /\ AgentInv /\ [Next]_vars => AgentInv'
<1>. SUFFICES ASSUME TypeInv, AgentInv, [Next]_vars PROVE AgentInv'
  OBVIOUS
<1>1. ASSUME NEW r \in Runs, Ensure(r) PROVE AgentInv'
  BY <1>1, EnsureAgent
<1>2. ASSUME NEW r \in Runs, RunEnds(r) PROVE AgentInv'
  BY <1>2 DEF RunEnds, AgentInv, Waits, Restful, TypeInv, TypeOK
<1>3. CASE RefreshMounts
  BY <1>3, AskAgent DEF RefreshMounts, agentVars
<1>4. CASE ParkAll
  <2>1. CASE state = "live" /\ hasId
    BY <1>4, <2>1, AskAgent DEF ParkAll
  <2>2. CASE ~(state = "live" /\ hasId)
    <3>1. stopping' /\ UNCHANGED <<state, hasId, ready, caller, on, open, kind>>
      BY <1>4, <2>2 DEF ParkAll, NoNewCall
    <3>. QED
      BY <3>1 DEF AgentInv, Waits, Restful
  <2>. QED
    BY <2>1, <2>2
<1>5. ASSUME NEW k \in Changes, AgentReloads(k) PROVE AgentInv'
  <2>1. UNCHANGED <<caller, on, stopping>>
    BY <1>5 DEF AgentReloads
  <2>2. CASE hasId /\ state \in {"live", "parked"}
    <3>1. Call("destroy") /\ UNCHANGED <<hasId, state, ready>>
      BY <1>5, <2>2 DEF AgentReloads
    <3>. QED
      BY <2>1, <3>1, AskAgent
  <2>3. CASE ~(hasId /\ state \in {"live", "parked"})
    <3>1. ForgetAndTell(k) /\ UNCHANGED <<made, open, kind>>
      BY <1>5, <2>3 DEF AgentReloads
    <3>. QED
      BY <2>1, <3>1, ForgetAgent
  <2>. QED
    BY <2>2, <2>3
<1>6. ASSUME NEW n \in Calls, Answered(n) PROVE AgentInv'
  <2>1. PICK reply \in replies :
             IF n \in open THEN Returns(n, reply.ok)
             ELSE UNCHANGED <<agentVars, workerVars, reloadVars, made, open, kind, wire>>
    BY <1>6 DEF Answered
  <2>2. reply.ok \in BOOLEAN
    BY DEF TypeInv, TypeOK
  <2>3. CASE n \in open
    BY <2>1, <2>2, <2>3, ReturnsAgent
  <2>4. CASE n \notin open
    BY <2>1, <2>4, AgentKept DEF agentVars
  <2>. QED
    BY <2>3, <2>4
<1>7. ASSUME NEW n \in Calls, LostTimesOut(n) \/ TimesOut(n) PROVE AgentInv'
  <2>1. n \in open /\ Returns(n, FALSE) /\ FALSE \in BOOLEAN
    BY <1>7 DEF LostTimesOut, TimesOut
  <2>. QED
    BY <2>1, ReturnsAgent
<1>8. CASE ChangeSettings
  BY <1>8, AgentKept DEF ChangeSettings
<1>9. CASE \/ RetrySetup \/ WorkerRestarts \/ WorkerStep
           \/ \E j \in Reloads : ReloadFails(j)
           \/ \E n \in Calls : Refused(n)
  <2>1. UNCHANGED <<agentVars, open, kind>>
    BY <1>9 DEF RetrySetup, WorkerRestarts, WorkerStep, Receive, SendReload, DestroyActive, Completes,
                ReloadFails, Refused
  <2>. QED
    BY <2>1, AgentKept DEF agentVars
<1>10. ASSUME NEW p \in Providers, NEW c, Fails(p, c) PROVE AgentInv'
  BY <1>10, AgentKept DEF Fails, agentVars
<1>11. CASE UNCHANGED vars
  BY <1>11, AgentKept DEF vars, agentVars
<1>12. ASSUME NEW k \in Changes, AgentReloadFails(k) PROVE AgentInv'
  BY <1>12, AgentKept DEF AgentReloadFails
<1>. QED
  BY <1>1, <1>2, <1>3, <1>4, <1>5, <1>6, <1>7, <1>8, <1>9, <1>10, <1>11, <1>12 DEF Next, AgentStep

LEMMA AgentInvariant == Spec => []AgentInv
BY InitAgent, AgentStepKeeps, TypeInvariant, PTL DEF Spec

\* When nothing is under way no run waits for the sandbox, although a reload forgets the
\* promise others would join: the runs that had joined it still hold it.
THEOREM RunsAreAnswered == Spec => []NobodyForgotten
<1>1. AgentInv => NobodyForgotten
  BY DEF AgentInv, Waits, NobodyForgotten, AtRest
<1>. QED
  BY <1>1, AgentInvariant, PTL

\* Before the shutdown the agent comes to rest with no sandbox, or with one it has the id
\* of: a start, a refresh or a reload that is overtaken or fails leaves no other state.
THEOREM AgentIsFree == Spec => []NeverStuck
<1>1. AgentInv => NeverStuck
  BY DEF AgentInv, Restful, NeverStuck, AtRest
<1>. QED
  BY <1>1, AgentInvariant, PTL

-----------------------------------------------------------------------------
(* The settings of the last change come into use.                             *)

Pending == {"due", "sent", "reading", "destroying"}
Latest == {WebReload(wanted), AgentReload(wanted)}

\* Nothing was read of the settings that is newer than they are.
NothingNewer ==
    /\ \A j \in Reloads : reads[j] <= wanted
    /\ \A p \in Providers : config[p] <= wanted

\* Of the two reloads of the last change the web's is under way or over, so is the agent's
\* unless the agent is at it; each reads the settings as they are, and once it is done they
\* have been in use.
Newest ==
    /\ NothingNewer
    /\ wanted # 0 =>
         /\ reload[WebReload(wanted)] # "none" /\ agent[wanted] # "none"
         /\ agent[wanted] = "done" => reload[AgentReload(wanted)] # "none"
         /\ \A j \in Latest : /\ reload[j] \in {"reading", "destroying"} => reads[j] = wanted
                              /\ reload[j] = "done" => Used

\* Before the first change and the first retry no reload is anywhere.
LEMMA NothingTold ==
  ASSUME TypeInv, wanted = 0, retries = 0
  PROVE  /\ \A j \in Reloads : reload[j] = "none"
         /\ \A k \in Changes : agent[k] = "none"
         /\ \A i \in 1..Len(wire) : wire[i].what \in Asks
         /\ \A p \in Providers : \A i \in 1..Len(queue[p]) : queue[p][i].what \in Asks
<1>1. \A k \in Changes : agent[k] = "none" /\ reload[WebReload(k)] = "none" /\ reload[AgentReload(k)] = "none"
  BY DEF TypeInv, Untold, Changes
<1>2. \A r \in 1..MaxRetries : reload[2 * MaxChanges + r] = "none"
  BY DEF TypeInv, Untold
<1>3. \A j \in Reloads : reload[j] = "none"
  BY <1>1, <1>2, ReloadIndex
<1>4. /\ \A i \in 1..Len(wire) : wire[i].what \in Asks
      /\ \A p \in Providers : \A i \in 1..Len(queue[p]) : queue[p][i].what \in Asks
  BY <1>3, QueueCommands, CommandKinds DEF TypeInv, Told
<1>. QED
  BY <1>1, <1>3, <1>4

LEMMA InitNewest == Init => Newest
<1>. SUFFICES ASSUME Init PROVE Newest
  OBVIOUS
<1>1. /\ wanted = 0 /\ \A j \in Reloads : reads[j] = 0
      /\ \A p \in Providers : config[p] = 0
  BY DEF Init
<1>. QED
  BY <1>1 DEF Newest, NothingNewer

\* Facts of the types the steps below use.
LEMMA NewestTypes ==
  ASSUME TypeOK
  PROVE  /\ provider \in Nat /\ provider \in Providers /\ wanted \in Nat /\ 0..provider \subseteq Providers
         /\ \A p \in Providers : config[p] \in Nat /\ p \in Nat
         /\ \A j \in Reloads : reads[j] \in Nat
         /\ wanted # 0 => wanted \in Changes /\ Latest \subseteq Reloads
<1>1. /\ MaxChanges \in Nat /\ MaxRetries \in Nat /\ MaxMishaps \in Nat
  BY SandboxAssumption
<1>2. wanted # 0 => wanted \in Changes
  BY <1>1 DEF TypeOK, Changes
<1>3. wanted # 0 => Latest \subseteq Reloads
  BY <1>2, ReloadIndex DEF Latest
<1>4. provider \in Nat /\ provider \in Providers /\ wanted \in Nat /\ 0..provider \subseteq Providers
  BY <1>1 DEF TypeOK, Providers
<1>5. \A p \in Providers : config[p] \in Nat /\ p \in Nat
  BY <1>1 DEF TypeOK, Providers
<1>6. \A j \in Reloads : reads[j] \in Nat
  BY <1>1 DEF TypeOK
<1>. QED
  BY <1>2, <1>3, <1>4, <1>5, <1>6

\* What has been in use stays so, with the same provider ...
LEMMA UsedKept ==
  ASSUME UNCHANGED <<wanted, provider, config>>
  PROVE  /\ Used => Used'
         /\ (\A p \in Providers : config[p] <= wanted) => \A p \in Providers : config'[p] <= wanted'
BY DEF Used

\* ... and when the next provider has settings that are no newer.
LEMMA UsedNext ==
  ASSUME TypeOK, NEW n \in Nat, n <= wanted, provider + 1 \in Providers, provider' = provider + 1,
         config' = [config EXCEPT ![provider'] = n], UNCHANGED wanted,
         \A p \in Providers : config[p] <= wanted
  PROVE  /\ Used => Used'
         /\ n = wanted => Used'
         /\ \A p \in Providers : config'[p] <= wanted'
<1>1. /\ provider \in Nat /\ provider \in Providers /\ wanted \in Nat /\ 0..provider \subseteq Providers
      /\ \A p \in Providers : config[p] \in Nat /\ p \in Nat
  BY NewestTypes
<1>2. /\ config'[provider + 1] = n
      /\ \A p \in Providers : p # provider + 1 => config'[p] = config[p]
  BY DEF TypeOK
<1>3. n = wanted => Used'
  BY <1>2 DEF Used
<1>4. ASSUME Used, n # wanted PROVE Used'
  <2>1. CASE config[provider] = wanted
    <3>1. provider \in 0..(provider' - 1) /\ config'[provider] = wanted' /\ config'[provider + 1] < wanted'
      BY <1>1, <1>2, <1>4, <2>1
    <3>. QED
      BY <3>1 DEF Used
  <2>2. CASE config[provider] # wanted
    <3>1. PICK p \in 0..(provider - 1) : config[p] = wanted /\ config[p + 1] < wanted
      BY <1>4, <2>2 DEF Used
    <3>2. /\ p \in 0..(provider' - 1) /\ p \in 0..provider /\ p + 1 \in 0..provider
          /\ p # provider + 1 /\ p + 1 # provider + 1
      BY <1>1, <3>1
    <3>3. config'[p] = wanted' /\ config'[p + 1] < wanted'
      BY <1>1, <1>2, <3>1, <3>2
    <3>. QED
      BY <3>2, <3>3 DEF Used
  <2>. QED
    BY <2>1, <2>2
<1>5. \A p \in Providers : config'[p] <= wanted'
  BY <1>2
<1>. QED
  BY <1>3, <1>4, <1>5

\* A reload goes a step on, and the provider stays.
LEMMA NewestPending ==
  ASSUME TypeInv, Newest, NEW j \in Reloads, NEW at \in Pending \cup {"failed"},
         reload' = [reload EXCEPT ![j] = at], UNCHANGED <<wanted, provider, config>>,
         \A k \in Changes : /\ agent[k] # "none" => agent'[k] # "none"
                            /\ agent'[k] = "done" => agent[k] = "done" \/ j = AgentReload(k),
         \A m \in Reloads : m # j => reads'[m] = reads[m],
         \/ reads'[j] = wanted
         \/ /\ reads'[j] = reads[j]
            /\ at \in {"reading", "destroying"} => reload[j] \in {"reading", "destroying"}
  PROVE  Newest'
<1>1. /\ reload'[j] = at /\ \A m \in Reloads : m # j => reload'[m] = reload[m]
      /\ at # "none" /\ at # "done"
  BY DEF TypeInv, TypeOK, Pending
<1>2. (Used => Used') /\ NothingNewer'
  BY UsedKept, NewestTypes DEF Newest, NothingNewer, TypeInv
<1>3. ASSUME wanted # 0
      PROVE  /\ reload'[WebReload(wanted)] # "none" /\ agent'[wanted] # "none"
             /\ agent'[wanted] = "done" => reload'[AgentReload(wanted)] # "none"
             /\ \A m \in Latest : /\ reload'[m] \in {"reading", "destroying"} => reads'[m] = wanted
                                  /\ reload'[m] = "done" => Used'
  <2>1. /\ wanted \in Changes /\ Latest \subseteq Reloads
        /\ WebReload(wanted) \in Reloads /\ AgentReload(wanted) \in Reloads
    BY <1>3, NewestTypes, ReloadIndex DEF TypeInv
  <2>2. /\ reload'[WebReload(wanted)] # "none" /\ agent'[wanted] # "none"
        /\ agent'[wanted] = "done" => reload'[AgentReload(wanted)] # "none"
    BY <1>1, <1>3, <2>1 DEF Newest
  <2>3. ASSUME NEW m \in Latest
        PROVE  /\ reload'[m] \in {"reading", "destroying"} => reads'[m] = wanted
               /\ reload'[m] = "done" => Used'
    BY <1>1, <1>2, <1>3, <2>1, <2>3 DEF Newest
  <2>. QED
    BY <2>2, <2>3
<1>. QED
  BY <1>2, <1>3 DEF Newest, Latest

\* A reload is done.
LEMMA NewestDone ==
  ASSUME TypeInv, Newest, NEW j \in Reloads, reload[j] \in {"reading", "destroying"},
         NewProvider(j), UNCHANGED <<agent, wanted, reads, mishaps>>
  PROVE  Newest'
<1>1. /\ provider' = provider + 1 /\ provider' \in Providers
      /\ reload' = [reload EXCEPT ![j] = "done"] /\ config' = [config EXCEPT ![provider'] = reads[j]]
  BY NextProvider DEF TypeInv
<1>2. /\ reload'[j] = "done" /\ \A m \in Reloads : m # j => reload'[m] = reload[m]
  BY <1>1 DEF TypeInv, TypeOK
<1>3. /\ Used => Used'
      /\ reads[j] = wanted => Used'
      /\ \A p \in Providers : config'[p] <= wanted'
  BY <1>1, UsedNext, NewestTypes DEF TypeInv, Newest, NothingNewer
<1>4. NothingNewer'
  BY <1>3 DEF Newest, NothingNewer
<1>5. ASSUME wanted # 0
      PROVE  /\ reload'[WebReload(wanted)] # "none" /\ agent[wanted] # "none"
             /\ agent[wanted] = "done" => reload'[AgentReload(wanted)] # "none"
             /\ \A m \in Latest : /\ reload'[m] \in {"reading", "destroying"} => reads[m] = wanted
                                  /\ reload'[m] = "done" => Used'
  <2>1. /\ wanted \in Changes /\ Latest \subseteq Reloads
        /\ WebReload(wanted) \in Reloads /\ AgentReload(wanted) \in Reloads
    BY <1>5, NewestTypes, ReloadIndex DEF TypeInv
  <2>2. /\ reload'[WebReload(wanted)] # "none" /\ agent[wanted] # "none"
        /\ agent[wanted] = "done" => reload'[AgentReload(wanted)] # "none"
    BY <1>2, <1>5, <2>1 DEF Newest
  <2>3. ASSUME NEW m \in Latest
        PROVE  /\ reload'[m] \in {"reading", "destroying"} => reads[m] = wanted
               /\ reload'[m] = "done" => Used'
    BY <1>2, <1>3, <1>5, <2>1, <2>3 DEF Newest
  <2>. QED
    BY <2>2, <2>3
<1>. QED
  BY <1>4, <1>5 DEF Newest, Latest

\* Steps that leave the reloads and the provider.
LEMMA NewestKept ==
  ASSUME Newest, UNCHANGED <<agent, wanted, reads, reload, provider, config>>
  PROVE  Newest'
BY UsedKept DEF Newest, NothingNewer, Latest

\* The agent tells the worker.
LEMMA NewestTold ==
  ASSUME TypeInv, Newest, NEW k \in Changes, ForgetAndTell(k),
         UNCHANGED <<wanted, reads, provider, config>>
  PROVE  Newest'
<1>1. /\ reload' = [reload EXCEPT ![AgentReload(k)] = "sent"] /\ AgentReload(k) \in Reloads
      /\ "sent" \in Pending \cup {"failed"} /\ agent' = [agent EXCEPT ![k] = "done"]
  BY ReloadIndex DEF ForgetAndTell, Pending
<1>2. \A m \in Changes : /\ agent[m] # "none" => agent'[m] # "none"
                         /\ agent'[m] = "done" => agent[m] = "done" \/ AgentReload(k) = AgentReload(m)
  BY <1>1 DEF TypeInv, TypeOK
<1>. QED
  BY <1>1, <1>2, NewestPending

LEMMA NewestReturns ==
  ASSUME TypeInv, Newest, NEW n \in open, NEW ok, Returns(n, ok)
  PROVE  Newest'
<1>1. kind[n] \in Asks
  BY DEF TypeInv, Awaits
<1>2. UNCHANGED <<workerVars, wanted, reads, retries>>
  BY <1>1, ReturnsCases
<1>3. CASE UNCHANGED <<agent, reload>>
  BY <1>2, <1>3, NewestKept DEF workerVars
<1>4. ASSUME NEW k \in Changes, ForgetAndTell(k) PROVE Newest'
  BY <1>2, <1>4, NewestTold DEF workerVars
<1>. QED
  BY <1>1, <1>3, <1>4, ReturnsCases

\* A change has its reloads before it.
LEMMA NewestChange == TypeInv /\ Newest /\ ChangeSettings => Newest'
<1>. SUFFICES ASSUME TypeInv, Newest, ChangeSettings PROVE Newest'
  OBVIOUS
<1>1. /\ wanted' = wanted + 1 /\ wanted \in Nat /\ wanted' \in Changes
      /\ agent' = [agent EXCEPT ![wanted'] = "due"]
      /\ reload' = [reload EXCEPT ![WebReload(wanted')] = "due"]
      /\ UNCHANGED <<reads, provider, config>>
  BY SandboxAssumption DEF ChangeSettings, TypeInv, TypeOK, Changes, workerVars
<1>. DEFINE k == wanted'
<1>2. /\ WebReload(k) \in Reloads /\ AgentReload(k) \in Reloads /\ AgentReload(k) # WebReload(k)
      /\ agent[k] = "none"
  BY <1>1, ReloadIndex DEF TypeInv, Untold
<1>3. reload[AgentReload(k)] = "none"
  BY <1>1, <1>2 DEF TypeInv, Untold
<1>4. reload'[WebReload(k)] = "due" /\ reload'[AgentReload(k)] = "none" /\ agent'[k] = "due"
  BY <1>1, <1>2, <1>3 DEF TypeInv, TypeOK
<1>5. NothingNewer'
  <2>1. \A j \in Reloads : reads[j] \in Nat /\ reads[j] <= wanted
    BY NewestTypes DEF TypeInv, Newest, NothingNewer
  <2>2. \A p \in Providers : config[p] \in Nat /\ config[p] <= wanted
    BY NewestTypes DEF TypeInv, Newest, NothingNewer
  <2>. QED
    BY <1>1, <2>1, <2>2 DEF NothingNewer
<1>. QED
  BY <1>4, <1>5 DEF Newest, Latest

LEMMA NewestStep == TypeInv /\ Newest /\ [Next]_vars => Newest'
<1>. SUFFICES ASSUME TypeInv, Newest, [Next]_vars PROVE Newest'
  OBVIOUS
<1>1. ASSUME NEW r \in Runs, Ensure(r) \/ RunEnds(r) PROVE Newest'
  BY <1>1, NewestKept DEF Ensure, RunEnds, workerVars, reloadVars
<1>2. CASE RefreshMounts \/ ParkAll
  BY <1>2, NewestKept DEF RefreshMounts, ParkAll, agentVars, workerVars, reloadVars
<1>3. CASE ChangeSettings
  BY <1>3, NewestChange
<1>4. CASE RetrySetup
  <2>. DEFINE w == 2 * MaxChanges + retries'
  <2>1. /\ retries' = retries + 1 /\ retries' \in 1..MaxRetries
        /\ UNCHANGED <<agent, wanted, reads, provider, config>>
    BY <1>4, SandboxAssumption DEF RetrySetup, TypeInv, TypeOK, agentVars, workerVars
  <2>2. reload' = [reload EXCEPT ![w] = "due"] /\ w \in Reloads /\ "due" \in Pending \cup {"failed"}
    BY <1>4, <2>1, ReloadIndex DEF RetrySetup, Pending
  <2>. HIDE DEF w
  <2>. QED
    BY <2>1, <2>2, NewestPending
<1>5. ASSUME NEW k \in Changes, AgentReloads(k) PROVE Newest'
  <2>1. UNCHANGED <<workerVars, wanted, reads, retries>>
    BY <1>5 DEF AgentReloads
  <2>2. CASE agent' = [agent EXCEPT ![k] = "destroying"] /\ UNCHANGED reload
    <3>1. /\ \A m \in Changes : m # k => agent'[m] = agent[m]
          /\ agent'[k] = "destroying"
      BY <2>2 DEF TypeInv, TypeOK
    <3>2. wanted # 0 => wanted \in Changes
      BY NewestTypes DEF TypeInv
    <3>3. (Used => Used') /\ NothingNewer' /\ Latest' = Latest
      BY <2>1, UsedKept DEF Newest, NothingNewer, Latest, workerVars
    <3>4. \A j \in Latest : /\ reload'[j] = reload[j] /\ reads'[j] = reads[j]
      BY <2>1, <2>2
    <3>. QED
      BY <2>1, <2>2, <3>1, <3>2, <3>3, <3>4 DEF Newest
  <2>3. CASE ForgetAndTell(k)
    BY <2>1, <2>3, NewestTold DEF workerVars
  <2>. QED
    BY <1>5, <2>2, <2>3 DEF AgentReloads
<1>6. ASSUME NEW n \in Calls, Answered(n) \/ LostTimesOut(n) \/ TimesOut(n) PROVE Newest'
  <2>1. \/ n \in open /\ \E ok : Returns(n, ok)
        \/ UNCHANGED <<agentVars, workerVars, reloadVars, made, open, kind, wire>>
    BY <1>6 DEF Answered, LostTimesOut, TimesOut
  <2>. QED
    BY <2>1, NewestReturns, NewestKept DEF agentVars, workerVars, reloadVars
<1>7. CASE Receive
  <2>1. UNCHANGED <<agent, wanted, retries, provider, config>>
    BY <1>7 DEF Receive, agentVars
  <2>2. CASE UNCHANGED <<reload, reads>>
    BY <2>1, <2>2, NewestKept
  <2>3. CASE /\ Head(wire).n \in Reloads
             /\ reload' = [reload EXCEPT ![Head(wire).n] = "reading"]
             /\ reads' = [reads EXCEPT ![Head(wire).n] = wanted]
    <3>1. /\ reads'[Head(wire).n] = wanted /\ "reading" \in Pending \cup {"failed"}
          /\ \A m \in Reloads : m # Head(wire).n => reads'[m] = reads[m]
      BY <2>3 DEF TypeInv, TypeOK, Pending
    <3>. QED
      BY <2>1, <2>3, <3>1, NewestPending
  <2>. QED
    BY <1>7, <2>2, <2>3, ReceiveCases DEF TypeInv
<1>8. ASSUME NEW j \in Reloads, SendReload(j) PROVE Newest'
  <2>1. /\ reload' = [reload EXCEPT ![j] = "sent"] /\ "sent" \in Pending \cup {"failed"}
        /\ UNCHANGED <<agent, wanted, reads, provider, config>>
    BY <1>8 DEF SendReload, Pending, agentVars, workerVars
  <2>. QED
    BY <2>1, NewestPending
<1>9. ASSUME NEW j \in Reloads, DestroyActive(j) PROVE Newest'
  <2>1. reload[j] = "reading" /\ UNCHANGED <<agent, wanted, reads, retries, mishaps>>
    BY <1>9 DEF DestroyActive, agentVars
  <2>2. CASE reload' = [reload EXCEPT ![j] = "destroying"] /\ UNCHANGED <<provider, config>>
    <3>1. "destroying" \in Pending \cup {"failed"}
      BY DEF Pending
    <3>. QED
      BY <2>1, <2>2, <3>1, NewestPending
  <2>3. CASE NewProvider(j)
    BY <2>1, <2>3, NewestDone
  <2>. QED
    BY <1>9, <2>2, <2>3 DEF DestroyActive
<1>10. ASSUME NEW p \in Providers, NEW c, Completes(p, c) PROVE Newest'
  <2>1. UNCHANGED <<agent, wanted, reads, retries, mishaps>>
    BY <1>10 DEF Completes, agentVars
  <2>2. CASE UNCHANGED <<reload, provider, config>>
    BY <2>1, <2>2, NewestKept
  <2>3. CASE c.n \in Reloads /\ reload[c.n] = "destroying" /\ NewProvider(c.n)
    BY <2>1, <2>3, NewestDone
  <2>. QED
    BY <1>10, <2>2, <2>3, CompletesCases
<1>11. ASSUME NEW p \in Providers, NEW c, Fails(p, c) PROVE Newest'
  BY <1>11, NewestKept DEF Fails, agentVars, reloadVars
<1>12. CASE WorkerRestarts
  <2>1. /\ \A j \in Reloads : /\ reload'[j] \in {reload[j], "done"}
                              /\ reload'[j] \notin {"reading", "destroying"}
        /\ provider' = provider + 1
        /\ config' = [config EXCEPT ![provider'] = wanted]
        /\ UNCHANGED <<agent, wanted, retries, reads>>
    BY <1>12 DEF WorkerRestarts, agentVars
  <2>2. provider' \in Providers
    BY <1>12, RestartTypes DEF TypeInv, TypeOK
  <2>3. wanted \in Nat /\ wanted <= wanted
    BY NewestTypes DEF TypeInv
  <2>4. Used' /\ \A p \in Providers : config'[p] <= wanted'
    BY <2>1, <2>2, <2>3, UsedNext DEF TypeInv, Newest, NothingNewer
  <2>5. NothingNewer' /\ Latest' = Latest
    BY <2>1, <2>4 DEF Newest, NothingNewer, Latest
  <2>6. wanted # 0 => /\ Latest \subseteq Reloads
                      /\ WebReload(wanted) \in Reloads /\ AgentReload(wanted) \in Reloads
    BY NewestTypes, ReloadIndex DEF TypeInv
  <2>. QED
    BY <2>1, <2>4, <2>5, <2>6 DEF Newest
<1>13. CASE UNCHANGED vars
  BY <1>13, NewestKept DEF vars, agentVars, workerVars, reloadVars
<1>14. ASSUME NEW n \in Calls, Refused(n) PROVE Newest'
  BY <1>14, NewestKept DEF Refused, agentVars, workerVars, reloadVars
<1>15. ASSUME NEW j \in Reloads, ReloadFails(j) PROVE Newest'
  <2>1. /\ reload' = [reload EXCEPT ![j] = "failed"] /\ "failed" \in Pending \cup {"failed"}
        /\ UNCHANGED <<agent, wanted, reads, provider, config>>
    BY <1>15 DEF ReloadFails, agentVars, workerVars
  <2>. QED
    BY <2>1, NewestPending
<1>16. ASSUME NEW k \in Changes, AgentReloadFails(k) PROVE Newest'
  <2>1. /\ reload' = [reload EXCEPT ![AgentReload(k)] = "failed"] /\ AgentReload(k) \in Reloads
        /\ "failed" \in Pending \cup {"failed"} /\ agent' = [agent EXCEPT ![k] = "done"]
        /\ UNCHANGED <<wanted, reads, provider, config>>
    BY <1>16, ReloadIndex DEF AgentReloadFails, workerVars
  <2>2. \A m \in Changes : /\ agent[m] # "none" => agent'[m] # "none"
                           /\ agent'[m] = "done" => agent[m] = "done" \/ AgentReload(k) = AgentReload(m)
    BY <2>1 DEF TypeInv, TypeOK
  <2>. QED
    BY <2>1, <2>2, NewestPending
<1>. QED
  BY <1>1, <1>2, <1>3, <1>4, <1>5, <1>6, <1>7, <1>8, <1>9, <1>10, <1>11, <1>12, <1>13, <1>14, <1>15,
     <1>16 DEF Next, AgentStep, WorkerStep

\* When the reloads have come to rest the settings of the last change have been in use,
\* however many reloads of changes and retries overlapped and whatever crashed between
\* them, unless both reloads of that change failed.
THEOREM SettingsAreUsed == Spec => []NewestSettingsUsed
<1>1. TypeInv /\ Newest => NewestSettingsUsed
  <2>. SUFFICES ASSUME TypeInv, Newest, AtRest, wanted # 0,
                       reload[WebReload(wanted)] # "failed" \/ reload[AgentReload(wanted)] # "failed"
                PROVE  Used
    BY DEF NewestSettingsUsed
  <2>1. wanted \in Changes /\ WebReload(wanted) \in Reloads /\ AgentReload(wanted) \in Reloads
    BY NewestTypes, ReloadIndex DEF TypeInv
  <2>2. agent[wanted] = "done" /\ reload[WebReload(wanted)] # "none" /\ reload[AgentReload(wanted)] # "none"
    BY <2>1 DEF Newest, AtRest
  <2>3. reload[WebReload(wanted)] = "done" \/ reload[AgentReload(wanted)] = "done"
    BY <2>1, <2>2 DEF AtRest
  <2>. QED
    BY <2>3 DEF Newest, Latest
<1>. QED
  BY <1>1, InitNewest, NewestStep, TypeInvariant, PTL DEF Spec

-----------------------------------------------------------------------------
(* The first provider of a worker has the sandbox the agent takes for live.   *)

\* Each change and each retry so far has its reload, each reload done its provider, and
\* each that failed its mishap.
Noted ==
    /\ \A k \in Changes : k <= wanted => reload[WebReload(k)] # "none"
    /\ \A r \in 1..MaxRetries : r <= retries => reload[2 * MaxChanges + r] # "none"
    /\ \A j \in Reloads : /\ reload[j] = "done" => provider # 0
                          /\ reload[j] = "failed" => \E i \in 1..Len(mishaps) : mishaps[i] = "reload"

\* The time of the first provider, before the first reload and with no failed refresh or
\* reload.
Early ==
    /\ provider = 0 /\ wanted = 0 /\ retries = 0
    /\ \A i \in 1..Len(mishaps) : mishaps[i] \notin {"recreate", "reload"}

Has == entry[0] # "absent"
Sound(what) == what \in {"none", "create"} \/ (what \in {"park", "resume", "recreate"} /\ Has)

\* Until the first provider has the sandbox the agent knows of none: all it has asked for
\* is to create one.
Known ==
    /\ state \in {"idle", "starting"} \/ Has
    /\ \A n \in Calls : Sound(kind[n])
    /\ \A i \in 1..Len(wire) : Sound(wire[i].what)
    /\ \A p \in Providers : \A i \in 1..Len(queue[p]) : p = 0 /\ Sound(queue[p][i].what)
    /\ \A reply \in replies : reply.ok => Has

FirstInv == Noted /\ (Early => Known)

\* Changes, retries, reloads, providers and mishaps only go forward.
Onward ==
    /\ \A j \in Reloads : /\ reload[j] # "none" => reload'[j] # "none"
                          /\ reload'[j] = "done" => reload[j] = "done" \/ provider' = provider + 1
                          /\ reload'[j] = "failed" => \/ reload[j] = "failed"
                                                      \/ mishaps' = Append(mishaps, "reload")
    /\ provider' \in {provider, provider + 1}
    /\ wanted' = wanted \/ (wanted' = wanted + 1 /\ reload'[WebReload(wanted')] = "due")
    /\ retries' = retries \/ (retries' = retries + 1 /\ reload'[2 * MaxChanges + retries'] = "due")
    /\ mishaps' = mishaps \/ \E m \in Mishaps : mishaps' = Append(mishaps, m)

\* Steps that leave the reloads and the provider, ...
LEMMA OnwardKept ==
  ASSUME UNCHANGED <<reload, provider, wanted, retries>>,
         mishaps' = mishaps \/ \E m \in Mishaps : mishaps' = Append(mishaps, m)
  PROVE  Onward
BY DEF Onward

\* ... and those that take one reload a step on.
LEMMA OnwardReload ==
  ASSUME TypeInv, NEW j \in Reloads, NEW at \in Pending \cup {"done"},
         reload' = [reload EXCEPT ![j] = at], UNCHANGED <<wanted, retries, mishaps>>,
         provider' = provider \/ provider' = provider + 1,
         at = "done" => provider' = provider + 1
  PROVE  Onward
<1>1. \A m \in Reloads : reload'[m] = IF m = j THEN at ELSE reload[m]
  BY DEF TypeInv, TypeOK
<1>2. at # "none" /\ at # "failed"
  BY DEF Pending
<1>. QED
  BY <1>1, <1>2 DEF Onward

\* A reload fails.
LEMMA OnwardFails ==
  ASSUME TypeInv, NEW j \in Reloads, reload' = [reload EXCEPT ![j] = "failed"],
         Mishap("reload"), UNCHANGED <<wanted, retries, provider>>
  PROVE  Onward
<1>1. \A m \in Reloads : reload'[m] = IF m = j THEN "failed" ELSE reload[m]
  BY DEF TypeInv, TypeOK
<1>2. "reload" \in Mishaps /\ mishaps' = Append(mishaps, "reload")
  BY DEF Mishap
<1>. QED
  BY <1>1, <1>2 DEF Onward

LEMMA ReturnsOnward ==
  ASSUME TypeInv, NEW n \in open, NEW ok, Returns(n, ok),
         mishaps' = mishaps \/ \E m \in Mishaps : mishaps' = Append(mishaps, m)
  PROVE  Onward
<1>1. kind[n] \in Asks
  BY DEF TypeInv, Awaits
<1>2. UNCHANGED <<workerVars, wanted, reads, retries>>
  BY <1>1, ReturnsCases
<1>3. CASE UNCHANGED reload
  BY <1>2, <1>3, OnwardKept DEF workerVars
<1>4. ASSUME NEW k \in Changes, ForgetAndTell(k) PROVE Onward
  <2>1. reload' = [reload EXCEPT ![AgentReload(k)] = "sent"] /\ AgentReload(k) \in Reloads
    BY <1>4, ReloadIndex DEF ForgetAndTell
  <2>2. \A m \in Reloads : reload'[m] = IF m = AgentReload(k) THEN "sent" ELSE reload[m]
    BY <2>1 DEF TypeInv, TypeOK
  <2>. QED
    BY <1>2, <2>2 DEF Onward, workerVars
<1>. QED
  BY <1>1, <1>3, <1>4, ReturnsCases

LEMMA StepsOnward == TypeInv /\ [Next]_vars => Onward
<1>. SUFFICES ASSUME TypeInv, [Next]_vars PROVE Onward
  OBVIOUS
<1>1. ASSUME NEW r \in Runs, Ensure(r) \/ RunEnds(r) PROVE Onward
  BY <1>1, OnwardKept DEF Ensure, RunEnds, workerVars, reloadVars
<1>2. CASE RefreshMounts \/ ParkAll
  BY <1>2, OnwardKept DEF RefreshMounts, ParkAll, workerVars, reloadVars
<1>3. CASE ChangeSettings
  <2>1. wanted' = wanted + 1 /\ wanted' \in Changes /\ UNCHANGED <<retries, mishaps, provider>>
    BY <1>3, SandboxAssumption DEF ChangeSettings, TypeInv, TypeOK, Changes, workerVars
  <2>2. reload' = [reload EXCEPT ![WebReload(wanted')] = "due"] /\ WebReload(wanted') \in Reloads
    BY <1>3, <2>1, ReloadIndex DEF ChangeSettings
  <2>3. \A m \in Reloads : reload'[m] = IF m = WebReload(wanted') THEN "due" ELSE reload[m]
    BY <2>2 DEF TypeInv, TypeOK
  <2>. QED
    BY <2>1, <2>2, <2>3 DEF Onward
<1>4. CASE RetrySetup
  <2>. DEFINE w == 2 * MaxChanges + retries'
  <2>1. retries' = retries + 1 /\ retries' \in 1..MaxRetries /\ UNCHANGED <<wanted, mishaps, provider>>
    BY <1>4, SandboxAssumption DEF RetrySetup, TypeInv, TypeOK, workerVars
  <2>2. reload' = [reload EXCEPT ![w] = "due"] /\ w \in Reloads
    BY <1>4, <2>1, ReloadIndex DEF RetrySetup
  <2>3. \A m \in Reloads : reload'[m] = IF m = w THEN "due" ELSE reload[m]
    BY <2>2 DEF TypeInv, TypeOK
  <2>. QED
    BY <2>1, <2>2, <2>3 DEF Onward
<1>5. ASSUME NEW k \in Changes, AgentReloads(k) PROVE Onward
  <2>1. UNCHANGED <<workerVars, wanted, retries, mishaps>>
    BY <1>5 DEF AgentReloads
  <2>2. CASE UNCHANGED reload
    BY <2>1, <2>2, OnwardKept DEF workerVars
  <2>3. CASE ForgetAndTell(k)
    <3>1. reload' = [reload EXCEPT ![AgentReload(k)] = "sent"] /\ AgentReload(k) \in Reloads
          /\ "sent" \in Pending \cup {"done"}
      BY <2>3, ReloadIndex DEF ForgetAndTell, Pending
    <3>2. provider' = provider
      BY <2>1 DEF workerVars
    <3>. QED
      BY <2>1, <3>1, <3>2, OnwardReload
  <2>. QED
    BY <1>5, <2>2, <2>3 DEF AgentReloads
<1>6. ASSUME NEW n \in Calls, Answered(n) \/ LostTimesOut(n) \/ TimesOut(n) PROVE Onward
  <2>1. mishaps' = mishaps \/ \E m \in Mishaps : mishaps' = Append(mishaps, m)
    BY <1>6 DEF Answered, LostTimesOut, TimesOut, Mishap
  <2>2. \/ n \in open /\ \E ok : Returns(n, ok)
        \/ UNCHANGED <<agentVars, workerVars, reloadVars, made, open, kind, wire>>
    BY <1>6 DEF Answered, LostTimesOut, TimesOut
  <2>. QED
    BY <2>1, <2>2, ReturnsOnward, OnwardKept DEF workerVars, reloadVars
<1>7. CASE Receive
  <2>1. UNCHANGED <<wanted, retries, provider, mishaps>>
    BY <1>7 DEF Receive
  <2>2. CASE UNCHANGED reload
    BY <2>1, <2>2, OnwardKept
  <2>3. CASE Head(wire).n \in Reloads /\ reload' = [reload EXCEPT ![Head(wire).n] = "reading"]
    <3>1. "reading" \in Pending \cup {"done"}
      BY DEF Pending
    <3>. QED
      BY <2>1, <2>3, <3>1, OnwardReload
  <2>. QED
    BY <1>7, <2>2, <2>3, ReceiveCases DEF TypeInv
<1>8. ASSUME NEW j \in Reloads, SendReload(j) PROVE Onward
  <2>1. /\ reload' = [reload EXCEPT ![j] = "sent"] /\ "sent" \in Pending \cup {"done"}
        /\ UNCHANGED <<wanted, retries, provider, mishaps>>
    BY <1>8 DEF SendReload, Pending, workerVars
  <2>. QED
    BY <2>1, OnwardReload
<1>9. ASSUME NEW j \in Reloads, NewProvider(j), UNCHANGED <<wanted, retries, mishaps>> PROVE Onward
  <2>1. reload' = [reload EXCEPT ![j] = "done"] /\ provider' = provider + 1
    BY <1>9 DEF NewProvider
  <2>. QED
    BY <1>9, <2>1, OnwardReload
<1>10. ASSUME NEW j \in Reloads, DestroyActive(j) PROVE Onward
  <2>1. UNCHANGED <<wanted, retries, mishaps>>
    BY <1>10 DEF DestroyActive
  <2>2. CASE reload' = [reload EXCEPT ![j] = "destroying"] /\ UNCHANGED provider
    <3>1. "destroying" \in Pending \cup {"done"}
      BY DEF Pending
    <3>. QED
      BY <2>1, <2>2, <3>1, OnwardReload
  <2>. QED
    BY <1>9, <1>10, <2>1, <2>2 DEF DestroyActive
<1>11. ASSUME NEW p \in Providers, NEW c, Completes(p, c) PROVE Onward
  <2>1. UNCHANGED <<wanted, retries, mishaps>>
    BY <1>11 DEF Completes
  <2>2. CASE UNCHANGED <<reload, provider>>
    BY <2>1, <2>2, OnwardKept
  <2>3. CASE c.n \in Reloads /\ NewProvider(c.n)
    BY <1>9, <2>1, <2>3
  <2>. QED
    BY <1>11, <2>2, <2>3, CompletesCases
<1>12. ASSUME NEW p \in Providers, NEW c, Fails(p, c) PROVE Onward
  BY <1>12, OnwardKept DEF Fails, reloadVars, Mishap
<1>13. CASE WorkerRestarts
  <2>1. /\ \A j \in Reloads : reload'[j] \in {reload[j], "done"}
        /\ UNCHANGED <<wanted, retries>> /\ provider' = provider + 1
        /\ "crash" \in Mishaps /\ mishaps' = Append(mishaps, "crash")
    BY <1>13 DEF WorkerRestarts, Mishap
  <2>. QED
    BY <2>1 DEF Onward
<1>14. CASE UNCHANGED vars
  BY <1>14, OnwardKept DEF vars, workerVars, reloadVars
<1>15. ASSUME NEW n \in Calls, Refused(n) PROVE Onward
  BY <1>15, OnwardKept DEF Refused, workerVars, reloadVars, Mishap
<1>16. ASSUME NEW j \in Reloads, ReloadFails(j) PROVE Onward
  BY <1>16, OnwardFails DEF ReloadFails, workerVars
<1>17. ASSUME NEW k \in Changes, AgentReloadFails(k) PROVE Onward
  BY <1>17, OnwardFails, ReloadIndex DEF AgentReloadFails, workerVars
<1>. QED
  BY <1>1, <1>2, <1>3, <1>4, <1>5, <1>6, <1>7, <1>8, <1>10, <1>11, <1>12, <1>13, <1>14, <1>15, <1>16,
     <1>17 DEF Next, AgentStep, WorkerStep

LEMMA NotedStep == TypeInv /\ Noted /\ [Next]_vars => Noted'
<1>. SUFFICES ASSUME TypeInv, Noted, Onward PROVE Noted'
  BY StepsOnward
<1>0. /\ provider \in Nat /\ wanted \in Nat /\ retries \in Nat
      /\ MaxChanges \in Nat /\ MaxRetries \in Nat
  BY QueueCommands, SandboxAssumption DEF TypeInv, TypeOK
<1>1. ASSUME NEW k \in Changes, k <= wanted' PROVE reload'[WebReload(k)] # "none"
  <2>1. WebReload(k) \in Reloads
    BY ReloadIndex
  <2>2. CASE k <= wanted
    BY <2>1, <2>2 DEF Noted, Onward
  <2>3. CASE ~(k <= wanted)
    <3>1. wanted' = wanted + 1 /\ k = wanted'
      BY <1>0, <1>1, <2>3 DEF Onward, Changes
    <3>. QED
      BY <1>0, <3>1 DEF Onward
  <2>. QED
    BY <2>2, <2>3
<1>2. ASSUME NEW r \in 1..MaxRetries, r <= retries' PROVE reload'[2 * MaxChanges + r] # "none"
  <2>1. 2 * MaxChanges + r \in Reloads
    BY ReloadIndex
  <2>2. CASE r <= retries
    BY <2>1, <2>2 DEF Noted, Onward
  <2>3. CASE ~(r <= retries)
    <3>1. retries' = retries + 1 /\ r = retries'
      BY <1>0, <1>2, <2>3 DEF Onward
    <3>. QED
      BY <1>0, <3>1 DEF Onward
  <2>. QED
    BY <2>2, <2>3
<1>3. \A j \in Reloads : reload'[j] = "done" => provider' # 0
  BY <1>0 DEF Noted, Onward
<1>4. ASSUME NEW m \in Mishaps, mishaps' = Append(mishaps, m)
      PROVE  /\ Len(mishaps) + 1 \in 1..Len(mishaps') /\ mishaps'[Len(mishaps) + 1] = m
             /\ \A i \in 1..Len(mishaps) : i \in 1..Len(mishaps') /\ mishaps'[i] = mishaps[i]
  <2>1. mishaps \in Seq(Mishaps)
    BY DEF TypeInv, TypeOK
  <2>. QED
    BY <1>4, <2>1
<1>5. ASSUME NEW j \in Reloads, reload'[j] = "failed"
      PROVE  \E i \in 1..Len(mishaps') : mishaps'[i] = "reload"
  <2>1. CASE mishaps' = Append(mishaps, "reload") /\ "reload" \in Mishaps
    BY <1>4, <2>1
  <2>2. CASE reload[j] = "failed"
    <3>1. PICK i \in 1..Len(mishaps) : mishaps[i] = "reload"
      BY <2>2 DEF Noted
    <3>. QED
      BY <1>4, <3>1 DEF Onward
  <2>3. "reload" \in Mishaps \/ mishaps' # Append(mishaps, "reload")
    <3>1. mishaps \in Seq(Mishaps) /\ Len(mishaps) \in Nat
      BY QueueCommands DEF TypeInv, TypeOK
    <3>2. ASSUME NEW m, mishaps' = Append(mishaps, m) PROVE mishaps'[Len(mishaps) + 1] = m
      BY <3>1, <3>2
    <3>3. CASE mishaps' = mishaps
      <4>1. Len(Append(mishaps, "reload")) = Len(mishaps) + 1
        BY <3>1
      <4>. QED
        BY <3>1, <3>3, <4>1
    <3>4. CASE \E m \in Mishaps : mishaps' = Append(mishaps, m)
      BY <3>2, <3>4
    <3>. QED
      BY <3>3, <3>4 DEF Onward
  <2>. QED
    BY <1>5, <2>1, <2>2, <2>3 DEF Onward
<1>. QED
  BY <1>1, <1>2, <1>3, <1>5 DEF Noted

\* What is no longer early never was, and no mishap of an early step is a failed refresh
\* or reload.
LEMMA EarlyBefore ==
  ASSUME TypeInv, Onward, Early'
  PROVE  Early /\ \A m \in Mishaps : mishaps' = Append(mishaps, m) => m \notin {"recreate", "reload"}
<1>0. /\ provider \in Nat /\ wanted \in Nat /\ retries \in Nat /\ mishaps \in Seq(Mishaps)
  BY QueueCommands, SandboxAssumption DEF TypeInv, TypeOK
<1>1. provider = 0 /\ wanted = 0 /\ retries = 0
  BY <1>0 DEF Onward, Early
<1>2. ASSUME NEW m \in Mishaps, mishaps' = Append(mishaps, m)
      PROVE  m \notin {"recreate", "reload"} /\ \A i \in 1..Len(mishaps) : mishaps[i] \notin {"recreate", "reload"}
  <2>1. /\ Len(mishaps') = Len(mishaps) + 1 /\ Len(mishaps) \in Nat
        /\ mishaps'[Len(mishaps) + 1] = m /\ \A i \in 1..Len(mishaps) : mishaps'[i] = mishaps[i]
    BY <1>0, <1>2
  <2>2. \A i \in 1..Len(mishaps) : i \in 1..Len(mishaps')
    BY <2>1
  <2>3. Len(mishaps) + 1 \in 1..Len(mishaps')
    BY <2>1
  <2>. QED
    BY <2>1, <2>2, <2>3 DEF Early
<1>3. CASE mishaps' = mishaps
  <2>1. ASSUME NEW m \in Mishaps PROVE mishaps' # Append(mishaps, m)
    <3>1. Len(Append(mishaps, m)) = Len(mishaps) + 1 /\ Len(mishaps) \in Nat
      BY <1>0
    <3>. QED
      BY <1>3, <3>1
  <2>. QED
    BY <1>1, <1>3, <2>1 DEF Early
<1>. QED
  BY <1>1, <1>2, <1>3 DEF Onward, Early

LEMMA InitFirst == Init => FirstInv
<1>. SUFFICES ASSUME Init PROVE FirstInv
  OBVIOUS
<1>1. Noted
  <2>1. \A j \in Reloads : reload[j] = "none"
    BY DEF Init
  <2>2. wanted = 0 /\ retries = 0 /\ MaxChanges \in Nat /\ MaxRetries \in Nat
    BY SandboxAssumption DEF Init
  <2>. QED
    BY <2>1, <2>2 DEF Noted, Changes
<1>2. Known
  BY DEF Init, Known, Sound
<1>. QED
  BY <1>1, <1>2 DEF FirstInv

\* Steps that leave what the worker has and what was asked.
LEMMA KnownKept ==
  ASSUME Known, UNCHANGED <<entry, queue, replies, kind, wire>>,
         state' \in {"idle", "starting"} \/ state' = state \/ Has
  PROVE  Known'
BY DEF Known, Has, Sound

\* A command goes out.
LEMMA KnownAsk ==
  ASSUME TypeInv, Known, NEW what \in Asks, Call(what), what # "destroy", what = "create" \/ Has,
         UNCHANGED <<workerVars, replies>>, state' \in {"idle", "starting"} \/ Has
  PROVE  Known'
<1>1. /\ kind' = [kind EXCEPT ![made'] = what] /\ made' \in Calls
      /\ wire' = Append(wire, Command(what, made')) /\ Command(what, made') \in Commands
  BY CallFacts DEF TypeInv
<1>2. Has' = Has /\ Sound(what) /\ \A x : Sound(x)' = Sound(x)
  BY DEF Has, Sound, workerVars, Asks
<1>3. \A n \in Calls : Sound(kind'[n])
  BY <1>1, <1>2 DEF Known, TypeInv, TypeOK
<1>4. \A i \in 1..Len(wire') : Sound(wire'[i].what)
  <2>1. /\ Len(wire') = Len(wire) + 1 /\ Len(wire) \in Nat
        /\ \A i \in 1..(Len(wire) + 1) :
             wire'[i] = IF i = Len(wire) + 1 THEN Command(what, made') ELSE wire[i]
    BY <1>1, Appended DEF TypeInv, TypeOK
  <2>2. Command(what, made').what = what
    BY CommandKinds
  <2>. QED
    BY <1>2, <2>1, <2>2 DEF Known
<1>. QED
  BY <1>2, <1>3, <1>4 DEF Known, Has, Sound, workerVars

\* A command returns; what succeeded is there.
LEMMA KnownReturns ==
  ASSUME TypeInv, Known, NEW n \in open, NEW ok \in BOOLEAN, ok => Has, Returns(n, ok),
         UNCHANGED entry, \A reply \in replies' : reply \in replies
  PROVE  Known'
<1>1. kind[n] \in Asks /\ n \in Calls
  BY SandboxAssumption DEF TypeInv, Awaits, TypeOK, Calls
<1>2. UNCHANGED <<queue, kind>>
  BY <1>1, ReturnsCases DEF workerVars
<1>3. kind[n] # "destroy" /\ (kind[n] # "create" => Has)
  BY <1>1 DEF Known, Sound, Asks
<1>4. UNCHANGED wire
  BY <1>1, <1>3, ReturnsCases
<1>5. state' \in {"idle", "starting"} \/ state' = state \/ Has
  BY <1>1, <1>3, ReturnsCases DEF Created
<1>. QED
  BY <1>2, <1>4, <1>5 DEF Known, Has, Sound

LEMMA KnownReceive ==
  ASSUME TypeInv, Known, Early, Receive
  PROVE  Known'
<1>1. /\ wire # <<>> /\ wire' = Tail(wire) /\ Head(wire) \in Commands /\ Head(wire) = wire[1]
      /\ 1 \in 1..Len(wire) /\ Len(wire') = Len(wire) - 1 /\ Len(wire) \in Nat
      /\ \A i \in 1..(Len(wire) - 1) : wire'[i] = wire[i + 1] /\ i + 1 \in 1..Len(wire)
  <2>1. wire # <<>> /\ wire' = Tail(wire) /\ Head(wire) \in Commands
    BY ReceiveCases DEF TypeInv
  <2>2. wire \in Seq(Commands)
    BY DEF TypeInv, TypeOK
  <2>. QED
    BY <2>1, <2>2, TakenOff
<1>2. UNCHANGED <<state, kind, entry, replies>>
  BY ReceiveCases DEF TypeInv, agentVars
<1>3. Sound(Head(wire).what)
  BY <1>1 DEF Known
<1>4. Head(wire).what # "reload"
  BY <1>3 DEF Sound
<1>5. queue' = [queue EXCEPT ![provider] = Append(queue[provider], Head(wire))]
  BY <1>4, ReceiveCases DEF TypeInv
<1>6. provider = 0 /\ provider \in Providers
  BY DEF Early, TypeInv, TypeOK
<1>7. \A x : Sound(x)' = Sound(x)
  BY <1>2 DEF Sound, Has
<1>8. \A i \in 1..Len(wire') : Sound(wire'[i].what)
  BY <1>1 DEF Known
<1>9. ASSUME NEW p \in Providers, NEW i \in 1..Len(queue'[p])
      PROVE  p = 0 /\ Sound(queue'[p][i].what)
  <2>1. CASE p = provider
    <3>1. queue'[p] = Append(queue[p], Head(wire)) /\ queue[p] \in Seq(Commands)
      BY <1>5, <1>6, <2>1 DEF TypeInv, TypeOK
    <3>2. /\ Len(queue'[p]) = Len(queue[p]) + 1 /\ Len(queue[p]) \in Nat
          /\ \A k \in 1..(Len(queue[p]) + 1) :
               queue'[p][k] = IF k = Len(queue[p]) + 1 THEN Head(wire) ELSE queue[p][k]
      BY <1>1, <3>1, Appended
    <3>3. i \in 1..(Len(queue[p]) + 1)
      BY <3>2
    <3>4. CASE i = Len(queue[p]) + 1
      BY <1>3, <1>6, <2>1, <3>2, <3>3, <3>4
    <3>5. CASE i # Len(queue[p]) + 1
      <4>1. i \in 1..Len(queue[p])
        BY <3>2, <3>3, <3>5
      <4>2. Sound(queue[p][i].what)
        BY <4>1 DEF Known
      <4>. QED
        BY <1>6, <2>1, <3>2, <3>3, <3>5, <4>2
    <3>. QED
      BY <3>4, <3>5
  <2>2. CASE p # provider
    <3>1. queue'[p] = queue[p]
      BY <1>5, <1>6, <2>2 DEF TypeInv, TypeOK
    <3>. QED
      BY <3>1 DEF Known
  <2>. QED
    BY <2>1, <2>2
<1>. QED
  BY <1>2, <1>7, <1>8, <1>9 DEF Known, Has

\* A provider comes to the end of its first call: what is there stays there.
LEMMA KnownHandled ==
  ASSUME TypeInv, Known, NEW p \in Providers, queue[p] # <<>>,
         queue' = [queue EXCEPT ![p] = Tail(queue[p])],
         UNCHANGED <<state, kind, wire>>, Has => Has',
         \A reply \in replies' : reply.ok => Has'
  PROVE  Known'
<1>1. \A x : Sound(x) => Sound(x)'
  BY DEF Sound
<1>2. ASSUME NEW q \in Providers, NEW i \in 1..Len(queue'[q])
      PROVE  q = 0 /\ Sound(queue'[q][i].what)
  <2>1. CASE q = p
    <3>1. queue'[q] = Tail(queue[q]) /\ queue[q] \in Seq(Commands) /\ queue[q] # <<>>
      BY <2>1 DEF TypeInv, TypeOK
    <3>2. /\ Len(queue'[q]) = Len(queue[q]) - 1 /\ Len(queue[q]) \in Nat
          /\ \A k \in 1..(Len(queue[q]) - 1) : queue'[q][k] = queue[q][k + 1] /\ k + 1 \in 1..Len(queue[q])
      BY <3>1, TakenOff
    <3>. QED
      BY <3>2 DEF Known
  <2>2. CASE q # p
    <3>1. queue'[q] = queue[q]
      BY <2>2 DEF TypeInv, TypeOK
    <3>. QED
      BY <3>1 DEF Known
  <2>. QED
    BY <2>1, <2>2
<1>. QED
  BY <1>1, <1>2 DEF Known

LEMMA KnownCompletes ==
  ASSUME TypeInv, Known, NEW p \in Providers, NEW c, Completes(p, c)
  PROVE  Known'
<1>1. /\ queue[p] # <<>> /\ c = Head(queue[p]) /\ queue' = [queue EXCEPT ![p] = Tail(queue[p])]
      /\ UNCHANGED <<state, kind, wire>>
  BY CompletesCases DEF agentVars
<1>2. c = queue[p][1] /\ 1 \in 1..Len(queue[p])
  BY <1>1, TakenOff DEF TypeInv, TypeOK
<1>3. p = 0 /\ Sound(c.what)
  BY <1>2 DEF Known
<1>4. c.what \notin {"destroy", "reload"} /\ (c.what # "create" => Has)
  <2>1. c.what # "none"
    BY CompletesCases, CommandKinds DEF Asks
  <2>. QED
    BY <1>3, <2>1 DEF Sound
<1>5. Has' /\ \A reply \in replies' : reply.ok => Has'
  <2>1. Has'
    BY <1>3, <1>4, CompletesCases DEF Has
  <2>. QED
    BY <2>1
<1>. QED
  BY <1>1, <1>5, KnownHandled

LEMMA KnownFails ==
  ASSUME TypeInv, Known, NEW p \in Providers, NEW c, Fails(p, c), c.what # "recreate"
  PROVE  Known'
<1>1. /\ queue[p] # <<>> /\ queue' = [queue EXCEPT ![p] = Tail(queue[p])]
      /\ replies' = replies \cup {[n |-> c.n, ok |-> FALSE]}
      /\ UNCHANGED <<state, kind, wire>>
  BY DEF Fails, agentVars
<1>2. entry' = entry
  <2>1. entry' = [entry EXCEPT ![p] = entry[p]]
    BY DEF Fails
  <2>. QED
    BY <2>1 DEF TypeInv, TypeOK
<1>3. Has' = Has
  BY <1>2 DEF Has
<1>4. \A reply \in replies' : reply.ok => Has'
  BY <1>1, <1>3 DEF Known
<1>. QED
  BY <1>1, <1>3, <1>4, KnownHandled

LEMMA KnownStep == TypeInv /\ Early /\ Early' /\ Onward /\ Known /\ [Next]_vars => Known'
<1>. SUFFICES ASSUME TypeInv, Early, Early', Onward, Known, [Next]_vars PROVE Known'
  OBVIOUS
<1>0. /\ wanted = 0 /\ retries = 0 /\ provider = 0
      /\ wanted' = 0 /\ retries' = 0 /\ provider' = 0
  BY DEF Early
<1>1. /\ \A j \in Reloads : reload[j] = "none"
      /\ \A k \in Changes : agent[k] = "none"
  BY <1>0, NothingTold
<1>2. ASSUME NEW r \in Runs, Ensure(r) PROVE Known'
  <2>1. UNCHANGED <<workerVars, replies>>
    BY <1>2, EnsureCases DEF TypeInv
  <2>2. CASE NoNewCall /\ UNCHANGED state
    BY <2>1, <2>2, KnownKept DEF NoNewCall, workerVars
  <2>3. CASE Call("create") /\ state' = "starting"
    <3>1. "create" \in Asks /\ "create" # "destroy"
      BY DEF Asks
    <3>. QED
      BY <2>1, <2>3, <3>1, KnownAsk
  <2>4. CASE Call("resume") /\ state = "parked"
    <3>1. "resume" \in Asks /\ "resume" # "destroy" /\ Has
      BY <2>4 DEF Asks, Known
    <3>. QED
      BY <2>1, <2>4, <3>1, KnownAsk
  <2>. QED
    BY <1>2, <2>2, <2>3, <2>4, EnsureCases DEF TypeInv
<1>3. ASSUME NEW r \in Runs, RunEnds(r) PROVE Known'
  BY <1>3, KnownKept DEF RunEnds, workerVars
<1>4. CASE RefreshMounts
  <2>1. /\ Call("recreate") /\ "recreate" \in Asks /\ "recreate" # "destroy" /\ Has
        /\ UNCHANGED <<workerVars, replies>>
    BY <1>4 DEF RefreshMounts, Asks, Known
  <2>. QED
    BY <2>1, KnownAsk
<1>5. CASE ParkAll
  <2>1. UNCHANGED <<workerVars, replies>>
    BY <1>5 DEF ParkAll
  <2>2. CASE state = "live" /\ hasId
    <3>1. Call("park") /\ "park" \in Asks /\ "park" # "destroy" /\ Has
      BY <1>5, <2>2 DEF ParkAll, Asks, Known
    <3>. QED
      BY <2>1, <3>1, KnownAsk
  <2>3. CASE ~(state = "live" /\ hasId)
    <3>1. NoNewCall /\ state' = state
      BY <1>5, <2>3 DEF ParkAll
    <3>. QED
      BY <2>1, <3>1, KnownKept DEF NoNewCall, workerVars
  <2>. QED
    BY <2>2, <2>3
<1>6. CASE ChangeSettings \/ RetrySetup
  <2>1. wanted' = wanted + 1 \/ retries' = retries + 1
    BY <1>6 DEF ChangeSettings, RetrySetup
  <2>. QED
    BY <1>0, <2>1
<1>7. \A k \in Changes : ~AgentReloads(k)
  BY <1>1 DEF AgentReloads
<1>8. ASSUME NEW n \in Calls, Answered(n) PROVE Known'
  <2>1. PICK reply \in replies :
             /\ replies' = replies \ {reply}
             /\ IF n \in open THEN Returns(n, reply.ok)
                ELSE UNCHANGED <<agentVars, workerVars, reloadVars, made, open, kind, wire>>
    BY <1>8 DEF Answered
  <2>2. reply.ok \in BOOLEAN /\ (reply.ok => Has)
    BY DEF TypeInv, TypeOK, Known
  <2>3. CASE n \in open
    <3>1. Returns(n, reply.ok)
      BY <2>1, <2>3
    <3>2. UNCHANGED entry
      BY <3>1 DEF Returns, workerVars
    <3>3. \A other \in replies' : other \in replies
      BY <2>1
    <3>. QED
      BY <2>2, <2>3, <3>1, <3>2, <3>3, KnownReturns
  <2>4. CASE n \notin open
    <3>1. UNCHANGED <<state, entry, queue, kind, wire>>
      BY <2>1, <2>4 DEF agentVars, workerVars
    <3>. QED
      BY <2>1, <3>1 DEF Known, Sound, Has
  <2>. QED
    BY <2>3, <2>4
<1>9. ASSUME NEW n \in Calls, LostTimesOut(n) \/ TimesOut(n) PROVE Known'
  <2>1. n \in open /\ Returns(n, FALSE) /\ UNCHANGED replies
    BY <1>9 DEF LostTimesOut, TimesOut
  <2>2. UNCHANGED entry
    BY <2>1 DEF Returns, workerVars
  <2>. QED
    BY <2>1, <2>2, KnownReturns
<1>10. CASE Receive
  BY <1>10, KnownReceive
<1>11. \A j \in Reloads : ~SendReload(j) /\ ~DestroyActive(j)
  BY <1>1 DEF SendReload, DestroyActive
<1>12. ASSUME NEW p \in Providers, NEW c, Completes(p, c) PROVE Known'
  BY <1>12, KnownCompletes
<1>13. ASSUME NEW p \in Providers, NEW c, Fails(p, c) PROVE Known'
  <2>1. c.what \in Mishaps /\ mishaps' = Append(mishaps, c.what)
    BY <1>13 DEF Fails, Mishap
  <2>2. c.what # "recreate"
    BY <2>1, EarlyBefore
  <2>. QED
    BY <1>13, <2>2, KnownFails
<1>14. CASE WorkerRestarts
  <2>1. provider' = provider + 1
    BY <1>14 DEF WorkerRestarts
  <2>. QED
    BY <1>0, <2>1
<1>15. CASE UNCHANGED vars
  BY <1>15, KnownKept DEF vars, agentVars, workerVars
<1>16. ASSUME NEW n \in Calls, Refused(n) PROVE Known'
  <2>1. UNCHANGED <<state, entry, queue, kind, replies>>
    BY <1>16 DEF Refused, agentVars, workerVars
  <2>2. PICK i \in 1..Len(wire) : wire' = RemoveAt(wire, i)
    BY <1>16 DEF Refused
  <2>3. \A k \in 1..Len(wire') : \E m \in 1..Len(wire) : wire'[k] = wire[m]
    <3>1. /\ Len(wire) \in Nat /\ i \in Nat /\ Len(wire') = Len(wire) - 1
          /\ \A k \in 1..(Len(wire) - 1) : wire'[k] = IF k < i THEN wire[k] ELSE wire[k + 1]
      BY <2>2, Removed DEF TypeInv, TypeOK
    <3>2. \A k \in 1..(Len(wire) - 1) : k \in 1..Len(wire) /\ k + 1 \in 1..Len(wire)
      BY <3>1
    <3>. QED
      BY <3>1, <3>2
  <2>. QED
    BY <2>1, <2>3 DEF Known, Has, Sound
<1>17. \A k \in Changes : ~AgentReloadFails(k)
  BY <1>1 DEF AgentReloadFails
<1>18. \A j \in Reloads : ~ReloadFails(j)
  BY <1>1 DEF ReloadFails
<1>. QED
  BY <1>2, <1>3, <1>4, <1>5, <1>6, <1>7, <1>8, <1>9, <1>10, <1>11, <1>12, <1>13, <1>14, <1>15, <1>16,
     <1>17, <1>18 DEF Next, AgentStep, WorkerStep

LEMMA FirstStep == TypeInv /\ FirstInv /\ [Next]_vars => FirstInv'
<1>. SUFFICES ASSUME TypeInv, FirstInv, [Next]_vars PROVE FirstInv'
  OBVIOUS
<1>1. Noted'
  BY NotedStep DEF FirstInv
<1>2. ASSUME Early' PROVE Known'
  <2>1. Onward
    BY StepsOnward
  <2>2. Early
    BY <1>2, <2>1, EarlyBefore
  <2>. QED
    BY <1>2, <2>1, <2>2, KnownStep DEF FirstInv
<1>. QED
  BY <1>1, <1>2 DEF FirstInv

\* With its first provider and no failed mount refresh or reload, the worker has the sandbox whenever
\* the agent, at rest, takes it for live: of starts, parks, resumes and refreshes that
\* fail, come late or are given up, none makes the agent believe in a machine never made.
THEOREM FirstIsKnown == Spec => []FirstProviderKnown
<1>1. ASSUME TypeInv, FirstInv, AtRest, provider = 0, \A i \in DOMAIN mishaps : mishaps[i] \notin {"recreate", "reload"},
             state = "live"
      PROVE  entry[provider] # "absent"
  <2>0. \A i \in 1..Len(mishaps) : mishaps[i] \notin {"recreate", "reload"}
    <3>1. mishaps \in Seq(Mishaps)
      BY <1>1 DEF TypeInv, TypeOK
    <3>2. DOMAIN mishaps = 1..Len(mishaps)
      BY <3>1
    <3>. QED
      BY <1>1, <3>2
  <2>1. \A j \in Reloads : reload[j] = "none"
    BY <1>1, <2>0 DEF FirstInv, Noted, AtRest
  <2>2. /\ wanted \in 0..MaxChanges /\ retries \in 0..MaxRetries
        /\ MaxChanges \in Nat /\ MaxRetries \in Nat
    BY <1>1, SandboxAssumption DEF TypeInv, TypeOK
  <2>3. wanted = 0
    <3>1. wanted # 0 => wanted \in Changes
      BY <2>2 DEF Changes
    <3>2. wanted # 0 => WebReload(wanted) \in Reloads /\ reload[WebReload(wanted)] # "none"
      BY <1>1, <2>2, <3>1, ReloadIndex DEF FirstInv, Noted
    <3>. QED
      BY <2>1, <3>2
  <2>4. retries = 0
    <3>1. retries # 0 => retries \in 1..MaxRetries
      BY <2>2
    <3>2. retries # 0 => /\ 2 * MaxChanges + retries \in Reloads
                         /\ reload[2 * MaxChanges + retries] # "none"
      BY <1>1, <2>2, <3>1, ReloadIndex DEF FirstInv, Noted
    <3>. QED
      BY <2>1, <3>2
  <2>5. Known
    BY <1>1, <2>0, <2>3, <2>4 DEF Early, FirstInv
  <2>. QED
    BY <1>1, <2>5 DEF Known, Has
<1>2. TypeInv /\ FirstInv => FirstProviderKnown
  BY <1>1 DEF FirstProviderKnown, LiveIsKnown
<1>. QED
  BY <1>2, InitFirst, FirstStep, TypeInvariant, PTL DEF Spec

-----------------------------------------------------------------------------
(* The lock in front of each provider, for any number of calls: the promise       *)
(* chain of LifecycleLockedSandboxProvider excludes and keeps the order of the    *)
(* calls.                                                                         *)
(*                                                                                *)
(* The inductive invariant.  Neither property is inductive by itself: that a      *)
(* lifecycle call is alone rests on what the calls found in this.lifecycle when   *)
(* they were made, long before.                                                   *)

\* A call found the last lifecycle call made before it.
FoundLast ==
    /\ \A c \in LockCalls : c <= callsMade =>
        /\ after[c] < c
        /\ \A d \in LockCalls : d < c /\ isLife[d] => d <= after[c]
        /\ after[c] # None => isLife[after[c]]
    /\ \A d \in LockCalls : isLife[d] => d <= lifecycle
    /\ lifecycle # None => isLife[lifecycle]
    /\ \A d \in LockCalls : d > callsMade => ~isLife[d]

Begun(c) == phase[c] \in {"idleWait", "cleared", "running", "done"}

\* A call that has begun left the lifecycle calls before it ended, and a lifecycle
\* call whose turn has come let all operations made before it begin.
TurnsInOrder ==
    \A c, d \in LockCalls : d < c /\ Begun(c) =>
        /\ isLife[d] => phase[d] = "done"
        /\ isLife[c] => phase[d] # "awaiting"

\* activeOperations counts the operations that run; who waits for them to end is in
\* idleWaiters, and only while there are some; only lifecycle calls wait so.
OperationsCounted ==
    /\ \A c \in LockCalls : c \in activeOperations <=> ~isLife[c] /\ phase[c] = "running"
    /\ \A c \in LockCalls : c \in waiters <=> phase[c] = "idleWait"
    /\ waiters # {} => activeOperations # {}
    /\ \A c \in LockCalls : phase[c] \in {"idleWait", "cleared"} => isLife[c]
    /\ \A c \in LockCalls : Holding(c) => activeOperations = {}

LockInv == LockTypeOK /\ FoundLast /\ TurnsInOrder /\ OperationsCounted

-----------------------------------------------------------------------------

LEMMA InitHolds == LockInit => LockInv
<1> SUFFICES ASSUME LockInit PROVE LockInv
  OBVIOUS
<1>1. LockTypeOK
  BY LockAssumption DEF LockInit, LockTypeOK, LockCalls, None, Phases
<1>2. FoundLast
  BY LockAssumption DEF LockInit, FoundLast, LockCalls, None
<1>3. TurnsInOrder /\ OperationsCounted
  BY DEF LockInit, TurnsInOrder, OperationsCounted, Begun, Holding
<1> QED BY <1>1, <1>2, <1>3 DEF LockInv

\* A call is made: the facts about the other calls stay, and it has not begun.
LEMMA CallMade ==
  ASSUME LockInv, WithOperation \/ WithLifecycle
  PROVE  LockInv'
<1> DEFINE c == callsMade + 1
<1> USE LockAssumption
<1>1. c \in LockCalls /\ callsMade \in Nat /\ lifecycle \in Nat /\ lifecycle < c
  BY DEF LockInv, LockTypeOK, LockCalls, WithOperation, WithLifecycle
<1>2. /\ callsMade' = c
      /\ after' = [after EXCEPT ![c] = lifecycle]
      /\ phase' = [phase EXCEPT ![c] = "awaiting"]
      /\ activeOperations' = activeOperations /\ waiters' = waiters
      /\ \/ isLife' = isLife /\ lifecycle' = lifecycle
         \/ isLife' = [isLife EXCEPT ![c] = TRUE] /\ lifecycle' = c
  BY DEF WithOperation, WithLifecycle
<1>3. phase[c] = "uncalled" /\ ~isLife[c] /\ c \notin activeOperations /\ c \notin waiters
  BY <1>1 DEF LockInv, LockTypeOK, LockCalls, Phases, FoundLast, OperationsCounted
<1>4. LockTypeOK'
  <2>1. isLife' \in [LockCalls -> BOOLEAN]
    BY <1>1, <1>2 DEF LockInv, LockTypeOK
  <2>2. callsMade' \in 0..MaxLockCalls /\ lifecycle' \in 0..callsMade'
    BY <1>1, <1>2 DEF LockInv, LockTypeOK, LockCalls
  <2>3. after' \in [LockCalls -> 0..MaxLockCalls] /\ phase' \in [LockCalls -> Phases]
    BY <1>1, <1>2 DEF LockInv, LockTypeOK, LockCalls, Phases
  <2>4. \A d \in LockCalls : d > callsMade' <=> phase'[d] = "uncalled"
    BY <1>1, <1>2, <1>3 DEF LockInv, LockTypeOK, LockCalls, Phases
  <2> QED BY <1>2, <2>1, <2>2, <2>3, <2>4 DEF LockInv, LockTypeOK
<1>5. FoundLast'
  BY <1>1, <1>2 DEF LockInv, LockTypeOK, FoundLast, LockCalls, None
<1>6. TurnsInOrder'
  <2> SUFFICES ASSUME NEW e \in LockCalls, NEW d \in LockCalls, d < e, Begun(e)'
               PROVE  (isLife[d] => phase[d] = "done")' /\ (isLife[e] => phase[d] # "awaiting")'
    BY DEF TurnsInOrder
  <2>1. e # c /\ phase'[e] = phase[e] /\ Begun(e)
    BY <1>1, <1>2 DEF LockInv, LockTypeOK, Begun
  <2>2. e <= callsMade /\ d # c
    BY <1>1, <2>1 DEF LockInv, LockTypeOK, Begun, LockCalls
  <2>3. phase'[d] = phase[d] /\ isLife'[d] = isLife[d] /\ isLife'[e] = isLife[e]
    BY <1>1, <1>2, <2>1, <2>2 DEF LockInv, LockTypeOK
  <2> QED BY <2>1, <2>2, <2>3 DEF LockInv, TurnsInOrder
<1>7. OperationsCounted'
  BY <1>1, <1>2, <1>3 DEF LockInv, LockTypeOK, OperationsCounted, Holding
<1> QED BY <1>4, <1>5, <1>6, <1>7 DEF LockInv

\* What the steps of the calls leave alone.
LEMMA FoundLastStays ==
  ASSUME LockInv, UNCHANGED <<callsMade, lifecycle, isLife, after>>
  PROVE  FoundLast'
BY DEF LockInv, FoundLast

\* The calls made before one that is released, by the promise it awaited.
LEMMA ReleasedInOrder ==
  ASSUME LockInv, NEW c \in LockCalls, phase[c] # "uncalled", Released(c)
  PROVE  /\ \A d \in LockCalls : d < c /\ isLife[d] => phase[d] = "done"
         /\ \A d \in LockCalls : d < c /\ (d < after[c] \/ isLife[d]) => phase[d] # "awaiting"
<1> USE LockAssumption
<1>1. c <= callsMade /\ callsMade \in Nat
  BY DEF LockInv, LockTypeOK, LockCalls
<1>2. \A d \in LockCalls : d < c /\ isLife[d] => d <= after[c]
  BY <1>1 DEF LockInv, FoundLast
<1>3. CASE after[c] = None
  BY <1>2, <1>3 DEF LockCalls, None
<1>4. CASE after[c] \in LockCalls /\ phase[after[c]] = "done"
  <2>1. isLife[after[c]] /\ Begun(after[c])
    BY <1>1, <1>4 DEF LockInv, FoundLast, Begun, LockCalls, None
  <2>2. \A d \in LockCalls : d < after[c] => (isLife[d] => phase[d] = "done") /\ phase[d] # "awaiting"
    BY <1>4, <2>1 DEF LockInv, TurnsInOrder
  <2> QED BY <1>2, <1>4, <2>2 DEF LockCalls
<1> QED BY <1>3, <1>4 DEF Released

LEMMA OperationStartsHolds ==
  ASSUME LockInv, NEW c \in LockCalls, OperationStarts(c)
  PROVE  LockInv'
<1> USE LockAssumption
<1>1. /\ phase[c] = "awaiting" /\ ~isLife[c] /\ Released(c)
      /\ activeOperations' = activeOperations \cup {c} /\ phase' = [phase EXCEPT ![c] = "running"]
      /\ UNCHANGED <<callsMade, lifecycle, isLife, after, waiters>>
  BY DEF OperationStarts
<1>2. LockTypeOK'
  BY <1>1 DEF LockInv, LockTypeOK, Phases
<1>3. FoundLast'
  BY <1>1, FoundLastStays
<1>4. \A d \in LockCalls : d < c /\ isLife[d] => phase[d] = "done"
  BY <1>1, ReleasedInOrder
<1>5. TurnsInOrder'
  BY <1>1, <1>4 DEF LockInv, LockTypeOK, TurnsInOrder, Begun
<1>6. \A d \in LockCalls : ~Holding(d)
  <2> SUFFICES ASSUME NEW d \in LockCalls, Holding(d) PROVE FALSE
    OBVIOUS
  <2>1. isLife[d] /\ Begun(d) /\ phase[d] # "done" /\ d # c
    BY <1>1 DEF Holding, Begun
  <2>2. CASE d < c
    BY <1>4, <2>1, <2>2
  <2>3. CASE c < d
    BY <1>1, <2>1, <2>3 DEF LockInv, TurnsInOrder
  <2> QED BY <2>1, <2>2, <2>3 DEF LockCalls
<1>7. OperationsCounted'
  BY <1>1, <1>6 DEF LockInv, LockTypeOK, OperationsCounted, Holding
<1> QED BY <1>2, <1>3, <1>5, <1>7 DEF LockInv

LEMMA OperationEndsHolds ==
  ASSUME LockInv, NEW c \in LockCalls, OperationEnds(c)
  PROVE  LockInv'
<1> USE LockAssumption
<1>1. /\ phase[c] = "running" /\ ~isLife[c]
      /\ activeOperations' = activeOperations \ {c}
      /\ phase' = [d \in LockCalls |->
           IF d = c THEN "done"
           ELSE IF activeOperations = {c} /\ d \in waiters THEN "cleared" ELSE phase[d]]
      /\ waiters' = IF activeOperations = {c} THEN {} ELSE waiters
      /\ UNCHANGED <<callsMade, lifecycle, isLife, after>>
  BY DEF OperationEnds
<1>2. /\ c \in activeOperations /\ c \notin waiters
      /\ \A d \in waiters : phase[d] = "idleWait" /\ isLife[d]
  BY <1>1 DEF LockInv, LockTypeOK, OperationsCounted
<1>3. LockTypeOK'
  BY <1>1, <1>2 DEF LockInv, LockTypeOK, Phases
<1>4. FoundLast'
  BY <1>1, FoundLastStays
<1>5. \A d \in LockCalls : Begun(d)' <=> Begun(d)
  BY <1>1, <1>2 DEF Begun
<1>6. \A d \in LockCalls : /\ phase[d] = "done" => phase'[d] = "done"
                           /\ phase[d] # "awaiting" => phase'[d] # "awaiting"
  BY <1>1, <1>2
<1>7. TurnsInOrder'
  BY <1>1, <1>5, <1>6 DEF LockInv, TurnsInOrder
<1>8. OperationsCounted'
  BY <1>1, <1>2 DEF LockInv, LockTypeOK, OperationsCounted, Holding
<1> QED BY <1>3, <1>4, <1>7, <1>8 DEF LockInv

LEMMA WaitForIdleHolds ==
  ASSUME LockInv, NEW c \in LockCalls, WaitForIdle(c)
  PROVE  LockInv'
<1> USE LockAssumption
<1>1. /\ phase[c] = "awaiting" /\ isLife[c] /\ Released(c)
      /\ \A d \in LockCalls : d < c /\ ~isLife[d] /\ after[d] = after[c] => phase[d] # "awaiting"
      /\ phase' = [phase EXCEPT ![c] = IF activeOperations = {} THEN "cleared" ELSE "idleWait"]
      /\ waiters' = IF activeOperations = {} THEN waiters ELSE waiters \cup {c}
      /\ UNCHANGED <<callsMade, lifecycle, isLife, after, activeOperations>>
  BY DEF WaitForIdle
<1>2. LockTypeOK'
  BY <1>1 DEF LockInv, LockTypeOK, Phases
<1>3. FoundLast'
  BY <1>1, FoundLastStays
<1>4. \A d \in LockCalls : d < c => /\ isLife[d] => phase[d] = "done"
                                    /\ phase[d] # "awaiting"
  <2> SUFFICES ASSUME NEW d \in LockCalls, d < c, ~isLife[d] PROVE phase[d] # "awaiting"
    BY <1>1, ReleasedInOrder
  <2>1. d <= callsMade /\ c <= callsMade
    BY <1>1 DEF LockInv, LockTypeOK, LockCalls
  <2>2. after[d] = after[c] \/ d < after[c]
    <3>1. after[d] # None => isLife[after[d]] /\ after[d] \in LockCalls /\ after[d] < c
      BY <2>1 DEF LockInv, LockTypeOK, FoundLast, LockCalls, None
    <3>2. after[d] <= after[c]
      BY <2>1, <3>1 DEF LockInv, LockTypeOK, FoundLast, LockCalls, None
    <3>3. CASE after[c] # None
      <4>1. after[c] \in LockCalls /\ isLife[after[c]] /\ after[c] # d
        BY <2>1, <3>3 DEF LockInv, LockTypeOK, FoundLast, LockCalls, None
      <4>2. after[c] < d => after[c] <= after[d]
        BY <2>1, <4>1 DEF LockInv, FoundLast
      <4> QED BY <3>2, <4>1, <4>2 DEF LockInv, LockTypeOK, LockCalls
    <3>4. CASE after[c] = None
      BY <3>2, <3>4 DEF LockInv, LockTypeOK, None
    <3> QED BY <3>3, <3>4
  <2> QED BY <1>1, <2>2, ReleasedInOrder
<1>5. TurnsInOrder'
  BY <1>1, <1>4 DEF LockInv, LockTypeOK, TurnsInOrder, Begun
<1>6. OperationsCounted'
  BY <1>1 DEF LockInv, LockTypeOK, OperationsCounted, Holding
<1> QED BY <1>2, <1>3, <1>5, <1>6 DEF LockInv

LEMMA LifecycleRunsHolds ==
  ASSUME LockInv, NEW c \in LockCalls, LifecycleRuns(c) \/ LifecycleEnds(c)
  PROVE  LockInv'
<1> USE LockAssumption
<1>1. /\ phase[c] \in {"cleared", "running"} /\ isLife[c]
      /\ \/ phase[c] = "cleared" /\ phase' = [phase EXCEPT ![c] = "running"]
         \/ phase' = [phase EXCEPT ![c] = "done"]
      /\ UNCHANGED <<callsMade, lifecycle, isLife, after, activeOperations, waiters>>
  BY DEF LifecycleRuns, LifecycleEnds, LockInv, OperationsCounted
<1>2. LockTypeOK'
  BY <1>1 DEF LockInv, LockTypeOK, Phases
<1>3. FoundLast'
  BY <1>1, FoundLastStays
<1>4. TurnsInOrder'
  BY <1>1 DEF LockInv, LockTypeOK, TurnsInOrder, Begun
<1>5. OperationsCounted'
  BY <1>1 DEF LockInv, LockTypeOK, OperationsCounted, Holding
<1> QED BY <1>2, <1>3, <1>4, <1>5 DEF LockInv

LEMMA NextHolds == LockInv /\ [LockNext]_lockVars => LockInv'
<1> SUFFICES ASSUME LockInv, [LockNext]_lockVars PROVE LockInv'
  OBVIOUS
<1>1. CASE WithOperation \/ WithLifecycle
  BY <1>1, CallMade
<1>2. ASSUME NEW c \in LockCalls, OperationStarts(c) PROVE LockInv'
  BY <1>2, OperationStartsHolds
<1>3. ASSUME NEW c \in LockCalls, OperationEnds(c) PROVE LockInv'
  BY <1>3, OperationEndsHolds
<1>4. ASSUME NEW c \in LockCalls, WaitForIdle(c) PROVE LockInv'
  BY <1>4, WaitForIdleHolds
<1>5. ASSUME NEW c \in LockCalls, LifecycleRuns(c) \/ LifecycleEnds(c) PROVE LockInv'
  BY <1>5, LifecycleRunsHolds
<1>6. CASE UNCHANGED lockVars
  BY <1>6 DEF lockVars, LockInv, LockTypeOK, FoundLast, TurnsInOrder, OperationsCounted,
              Begun, Holding
<1> QED BY <1>1, <1>2, <1>3, <1>4, <1>5, <1>6 DEF LockNext, Progress

LEMMA InvariantHolds == LockSpec => []LockInv
<1> QED BY InitHolds, NextHolds, PTL DEF LockSpec

-----------------------------------------------------------------------------

\* Each variable of the lock keeps its type (withOperation, withLifecycle).
THEOREM LockTypes == LockSpec => []LockTypeOK
<1>1. LockInv => LockTypeOK
  BY DEF LockInv
<1> QED BY <1>1, InvariantHolds, PTL

\* However many calls are made and in whatever order they begin and end, a lifecycle
\* call of the provider runs alone.
THEOREM LifecycleAlone == LockSpec => []Exclusive
<1>1. LockInv => Exclusive
  <2> SUFFICES ASSUME LockInv, NEW c \in LockCalls, Holding(c)
               PROVE  /\ activeOperations = {}
                      /\ \A d \in LockCalls : ~isLife[d] => phase[d] # "running"
                      /\ \A d \in LockCalls : Holding(d) => d = c
    BY DEF Exclusive
  <2>1. activeOperations = {} /\ \A d \in LockCalls : ~isLife[d] => phase[d] # "running"
    BY DEF LockInv, OperationsCounted
  <2>2. \A d \in LockCalls : Holding(d) => d = c
    BY DEF LockInv, TurnsInOrder, Holding, Begun, LockCalls
  <2> QED BY <2>1, <2>2
<1> QED BY <1>1, InvariantHolds, PTL

\* The promise chain keeps the order of the calls around every lifecycle call.
THEOREM CallsInOrder == LockSpec => []InCallOrder
<1>1. LockInv => InCallOrder
  <2> SUFFICES ASSUME LockInv, NEW c \in LockCalls, NEW d \in LockCalls, Holding(c),
                      phase[d] # "uncalled"
               PROVE  (d < c => phase[d] = "done") /\ (d > c => phase[d] = "awaiting")
    BY DEF InCallOrder
  <2>1. phase[d] \in Phases /\ isLife[c] /\ Begun(c) /\ phase[c] # "done"
    BY DEF LockInv, LockTypeOK, Holding, Begun
  <2>2. ASSUME d < c PROVE phase[d] = "done"
    BY <2>1, <2>2 DEF LockInv, TurnsInOrder, OperationsCounted, Phases, Holding
  <2>3. ASSUME d > c PROVE phase[d] = "awaiting"
    BY <2>1, <2>3 DEF LockInv, TurnsInOrder, Phases, Begun, LockCalls
  <2> QED BY <2>2, <2>3
<1> QED BY <1>1, InvariantHolds, PTL
===============================================================================
