----------------------------- MODULE LifecycleLock -----------------------------
(* LifecycleLockedSandboxProvider: calls that use the sandbox (bash, read, write,  *)
(* edit) share it, calls that create, recreate, park, resume or destroy it have it *)
(* for themselves.  There is no lock object, only a chain of promises: a call      *)
(* awaits what this.lifecycle is when it is made.  Continuations of one promise    *)
(* run in the order they were attached.  Definitions X_y are faulty variants of X. *)
EXTENDS Integers

CONSTANT MaxLockCalls \* bound: calls made to the provider
ASSUME LockAssumption == MaxLockCalls \in Nat

LockCalls == 1..MaxLockCalls
None == 0 \* Promise.resolve(), which this.lifecycle is at first
Phases == {"uncalled", "awaiting", "idleWait", "cleared", "running", "done"}

VARIABLES
    callsMade,  \* calls made so far; a call is its number
    lifecycle,  \* this.lifecycle: the last lifecycle call, or None
    isLife,     \* [LockCalls -> BOOLEAN] the call is a lifecycle call
    after,      \* [LockCalls -> LockCalls or None] the this.lifecycle the call found
    phase,      \* [LockCalls -> Phases]
    activeOperations, \* the operations it counts
    waiters     \* the lifecycle calls in idleWaiters

lockVars == <<callsMade, lifecycle, isLife, after, phase, activeOperations, waiters>>

LockInit ==
    /\ callsMade = 0 /\ lifecycle = None
    /\ isLife = [c \in LockCalls |-> FALSE]
    /\ after = [c \in LockCalls |-> None]
    /\ phase = [c \in LockCalls |-> "uncalled"]
    /\ activeOperations = {} /\ waiters = {}

\* The promise c awaits has settled, whether the call behind it failed or not.
Released(c) == after[c] \in {None} \cup {d \in LockCalls : phase[d] = "done"}

WithOperation_late ==
    LET c == callsMade + 1 IN
    /\ c \in LockCalls
    /\ callsMade' = c
    /\ after' = [after EXCEPT ![c] = None]
    /\ phase' = [phase EXCEPT ![c] = "awaiting"]
    /\ UNCHANGED <<lifecycle, isLife, activeOperations, waiters>>

\* bash, read, write, edit
WithOperation ==
    LET c == callsMade + 1 IN
    /\ c \in LockCalls
    /\ callsMade' = c
    /\ after' = [after EXCEPT ![c] = lifecycle]
    /\ phase' = [phase EXCEPT ![c] = "awaiting"]
    /\ UNCHANGED <<lifecycle, isLife, activeOperations, waiters>>

\* createSession, recreate, park, resume, destroy
WithLifecycle ==
    LET c == callsMade + 1 IN
    /\ c \in LockCalls
    /\ callsMade' = c
    /\ lifecycle' = c
    /\ isLife' = [isLife EXCEPT ![c] = TRUE]
    /\ after' = [after EXCEPT ![c] = lifecycle]
    /\ phase' = [phase EXCEPT ![c] = "awaiting"]
    /\ UNCHANGED <<activeOperations, waiters>>

\* An operation goes on behind its await.
OperationStarts(c) ==
    /\ phase[c] = "awaiting" /\ ~isLife[c] /\ Released(c)
    /\ activeOperations' = activeOperations \cup {c}
    /\ phase' = [phase EXCEPT ![c] = "running"]
    /\ UNCHANGED <<callsMade, lifecycle, isLife, after, waiters>>

OperationEnds_keepsWaiters(c) ==
    /\ phase[c] = "running" /\ ~isLife[c]
    /\ activeOperations' = activeOperations \ {c}
    /\ phase' = [phase EXCEPT ![c] = "done"]
    /\ UNCHANGED <<callsMade, lifecycle, isLife, after, waiters>>

\* An operation returns or throws; the last one resolves the idle waiters.
OperationEnds(c) ==
    /\ phase[c] = "running" /\ ~isLife[c]
    /\ activeOperations' = activeOperations \ {c}
    /\ phase' = [d \in LockCalls |->
         IF d = c THEN "done"
         ELSE IF activeOperations = {c} /\ d \in waiters THEN "cleared" ELSE phase[d]]
    /\ waiters' = IF activeOperations = {c} THEN {} ELSE waiters
    /\ UNCHANGED <<callsMade, lifecycle, isLife, after>>

WaitForIdle_never(c) ==
    /\ phase[c] = "awaiting" /\ isLife[c] /\ Released(c)
    /\ \A d \in LockCalls : d < c /\ ~isLife[d] /\ after[d] = after[c] => phase[d] # "awaiting"
    /\ phase' = [phase EXCEPT ![c] = "cleared"]
    /\ UNCHANGED <<callsMade, lifecycle, isLife, after, activeOperations, waiters>>

\* The turn of a lifecycle call: behind the operations that await the same promise,
\* for they attached to it before.
WaitForIdle(c) ==
    /\ phase[c] = "awaiting" /\ isLife[c] /\ Released(c)
    /\ \A d \in LockCalls : d < c /\ ~isLife[d] /\ after[d] = after[c] => phase[d] # "awaiting"
    /\ phase' = [phase EXCEPT ![c] = IF activeOperations = {} THEN "cleared" ELSE "idleWait"]
    /\ waiters' = IF activeOperations = {} THEN waiters ELSE waiters \cup {c}
    /\ UNCHANGED <<callsMade, lifecycle, isLife, after, activeOperations>>

LifecycleRuns(c) ==
    /\ phase[c] = "cleared"
    /\ phase' = [phase EXCEPT ![c] = "running"]
    /\ UNCHANGED <<callsMade, lifecycle, isLife, after, activeOperations, waiters>>

LifecycleEnds(c) ==
    /\ phase[c] = "running" /\ isLife[c]
    /\ phase' = [phase EXCEPT ![c] = "done"]
    /\ UNCHANGED <<callsMade, lifecycle, isLife, after, activeOperations, waiters>>

Progress(c) ==
    \/ OperationStarts(c) \/ OperationEnds(c)
    \/ WaitForIdle(c) \/ LifecycleRuns(c) \/ LifecycleEnds(c)

LockNext ==
    \/ WithOperation \/ WithLifecycle
    \/ \E c \in LockCalls : Progress(c)

LockSpec == LockInit /\ [][LockNext]_lockVars

\* Continuations run, and the inner provider's calls come to an end (its commands
\* have timeouts).
LockFairness == \A c \in LockCalls : WF_lockVars(Progress(c))
FairLockSpec == LockSpec /\ LockFairness

-----------------------------------------------------------------------------
(* Properties.                                                               *)

\* Each variable keeps its type, and only calls that were made have a phase.
LockTypeOK ==
    /\ callsMade \in 0..MaxLockCalls /\ lifecycle \in 0..callsMade
    /\ isLife \in [LockCalls -> BOOLEAN]
    /\ after \in [LockCalls -> 0..MaxLockCalls]
    /\ phase \in [LockCalls -> Phases]
    /\ activeOperations \subseteq LockCalls /\ waiters \subseteq LockCalls
    /\ \A c \in LockCalls : c > callsMade <=> phase[c] = "uncalled"

Holding(c) == isLife[c] /\ phase[c] \in {"cleared", "running"}

\* A lifecycle call of the inner provider runs alone: no bash, read, write or edit is
\* under way while the machine is created, parked, resumed or destroyed, and no two
\* such calls overlap, not even in the turn between being let through and running.
Exclusive ==
    \A c \in LockCalls : Holding(c) =>
        /\ activeOperations = {}
        /\ \A d \in LockCalls : ~isLife[d] => phase[d] # "running"
        /\ \A d \in LockCalls : Holding(d) => d = c

\* The promises make a queue: when a lifecycle call is let through, every call made
\* before it has ended, and no call made after it has begun.
InCallOrder ==
    \A c, d \in LockCalls :
        /\ Holding(c) /\ phase[d] # "uncalled"
        => (d < c => phase[d] = "done") /\ (d > c => phase[d] = "awaiting")

\* Nobody waits for ever: each call that is made comes to an end, whatever is called
\* behind it (a stream of operations cannot starve a lifecycle call).
EveryCallEnds == \A c \in LockCalls : phase[c] = "awaiting" ~> phase[c] = "done"
=============================================================================
