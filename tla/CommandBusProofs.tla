--------------------------- MODULE CommandBusProofs ---------------------------
(***************************************************************************)
(* Proofs about CommandBus, for any number of commands, connections, beats *)
(* and restarts.                                                           *)
(***************************************************************************)
EXTENDS CommandBus, TLAPS

(* What the head of a frame queue is made of. *)
LEMMA FrameTypes ==
  /\ Hello \in Frame
  /\ \A s \in States, req \in BOOLEAN : Beat(s, req) \in Frame
  /\ \A c \in Commands, ok \in BOOLEAN : Completion(c, ok) \in Frame
  /\ \A f \in Frame : f.type = "status" => f.state \in States /\ f.required \in BOOLEAN
  /\ \A f \in Frame : f.type = "complete" => f.command \in Commands /\ f.ok \in BOOLEAN
BY DEF Frame, Hello, Beat, Completion, States

LEMMA InitTypeOK == Init => TypeOK
<1>. SUFFICES ASSUME Init PROVE TypeOK
  OBVIOUS
<1>1. Unknown \in Status
  BY DEF Unknown, Status, States
<1>2. services \in [Roles -> Status] /\ workers \in [Roles -> Conns \cup {None}]
  BY <1>1 DEF Init
<1>3. toWorker \in [Conns -> Seq(Commands)] /\ toQueue \in [Conns -> Seq(Frame)]
  BY DEF Init
<1>4. running \in [Conns -> SUBSET Commands] /\ awaiting \in [Conns -> SUBSET Commands]
  BY DEF Init
<1>5. /\ link \in [Conns -> {"none", "open", "gone", "dead", "closed"}]
      /\ handler \in [Conns -> BOOLEAN]
  BY DEF Init
<1>6. /\ db \in [Commands -> {"none", "pending", "claimed", "completed", "failed"}]
      /\ pendingCommands \in [Commands -> {"absent", "pending", "claimed"}]
      /\ waiters \in [Commands -> {"none", "waiting", "ok", "failed", "timeout"}]
      /\ runs \in [Commands -> Nat]
      /\ ended \in [Commands -> {"no", "ok", "error"}]
  BY DEF Init
<1>7. /\ up \in BOOLEAN /\ todo \in SUBSET Commands /\ publishing \in BOOLEAN
      /\ beats \in Nat /\ restarts \in Nat
  BY DEF Init
<1>. QED  BY <1>2, <1>3, <1>4, <1>5, <1>6, <1>7 DEF TypeOK

(* A frame sent on a connection leaves the queues well typed. *)
LEMMA SendType ==
  ASSUME TypeOK, NEW k \in Conns, NEW f \in Frame, Send(k, f)
  PROVE  toQueue' \in [Conns -> Seq(Frame)]
BY DEF Send, TypeOK

(* Receiving takes a frame off its connection. *)
LEMMA ReceiveType ==
  ASSUME TypeOK, NEW k \in Conns, NEW t, Receiving(k, t)
  PROVE  /\ toQueue' \in [Conns -> Seq(Frame)]
         /\ Head(toQueue[k]) \in Frame
         /\ Head(toQueue[k]).type = t
<1>1. toQueue[k] \in Seq(Frame) /\ toQueue[k] # <<>>
  BY DEF TypeOK, Receiving
<1>2. Head(toQueue[k]) \in Frame /\ Tail(toQueue[k]) \in Seq(Frame)
  BY <1>1
<1>3. toQueue' \in [Conns -> Seq(Frame)]
  BY <1>2 DEF TypeOK, Receiving
<1>. QED  BY <1>2, <1>3 DEF Receiving

(* Dispatching, claimed or not, leaves the rows and the wire well typed. *)
LEMMA DispatchType ==
  ASSUME TypeOK, NEW c \in Commands, Dispatchable(c), dispatch(c)
  PROVE  /\ db' \in [Commands -> {"none", "pending", "claimed", "completed", "failed"}]
         /\ pendingCommands' \in [Commands -> {"absent", "pending", "claimed"}]
         /\ toWorker' \in [Conns -> Seq(Commands)]
<1>. DEFINE k == workers[Target[c]]
<1>1. k \in Conns
  BY BusAssumption DEF TypeOK, Dispatchable
<1>2. claimCommand(db[c]) \in {"none", "pending", "claimed", "completed", "failed"}
  BY DEF TypeOK, claimCommand
<1>3. db' = [db EXCEPT ![c] = claimCommand(db[c])]
  BY DEF dispatch
<1>4. CASE claimCommand(db[c]) = "claimed"
  <2>1. pendingCommands' = [pendingCommands EXCEPT ![c] = "claimed"]
    BY <1>4 DEF dispatch
  <2>2. toWorker' = [toWorker EXCEPT ![k] = IF link[k] = "open" THEN Append(@, c) ELSE @]
    BY <1>4 DEF dispatch
  <2>3. toWorker[k] \in Seq(Commands) /\ Append(toWorker[k], c) \in Seq(Commands)
    BY <1>1 DEF TypeOK
  <2>4. toWorker' \in [Conns -> Seq(Commands)]
    BY <2>2, <2>3 DEF TypeOK
  <2>. QED  BY <1>2, <1>3, <2>1, <2>4 DEF TypeOK
<1>5. CASE claimCommand(db[c]) # "claimed"
  BY <1>2, <1>3, <1>5 DEF dispatch, TypeOK
<1>. QED  BY <1>4, <1>5

LEMMA QueueStepTypeOK == TypeOK /\ QueueNext => TypeOK'
<1>. SUFFICES ASSUME TypeOK, QueueNext PROVE TypeOK'
  OBVIOUS
<1>. USE DEF DispatchAll, Rows, SetService, counters, clientVars, queueVars
<1>1. CASE \E c \in Commands : enqueueCommand(c)
  BY <1>1 DEF TypeOK, enqueueCommand
<1>2. CASE \E c \in Commands : InvokeTimeout(c)
  BY <1>2 DEF TypeOK, InvokeTimeout
<1>3. CASE \E c \in Commands : Visit(c)
  <2>1. PICK c \in Commands : Visit(c)
    BY <1>3
  <2>2. CASE ~Dispatchable(c)
    BY <2>1, <2>2 DEF TypeOK, Visit
  <2>3. CASE Dispatchable(c)
    <3>1. dispatch(c)
      BY <2>1, <2>3 DEF Visit
    <3>2. /\ db' \in [Commands -> {"none", "pending", "claimed", "completed", "failed"}]
          /\ pendingCommands' \in [Commands -> {"absent", "pending", "claimed"}]
          /\ toWorker' \in [Conns -> Seq(Commands)]
      BY <2>3, <3>1, DispatchType
    <3>. QED  BY <2>1, <3>2 DEF TypeOK, Visit
  <2>. QED  BY <2>2, <2>3
<1>4. CASE publishChatQueueStatus
  BY <1>4 DEF TypeOK, publishChatQueueStatus
<1>5. CASE \E k \in Conns : ReceiveHello(k)
  <2>1. PICK k \in Conns : ReceiveHello(k)
    BY <1>5
  <2>2. toQueue' \in [Conns -> Seq(Frame)]
    BY <2>1, ReceiveType DEF ReceiveHello
  <2>3. RoleOf[k] \in Roles
    BY BusAssumption
  <2>4. services' \in [Roles -> Status] /\ workers' \in [Roles -> Conns \cup {None}]
    BY <2>1, <2>3 DEF TypeOK, ReceiveHello, Status, States
  <2>5. todo' \in SUBSET Commands /\ publishing' \in BOOLEAN
    BY <2>1 DEF ReceiveHello
  <2>. QED  BY <2>1, <2>2, <2>4, <2>5 DEF TypeOK, ReceiveHello
<1>6. CASE \E k \in Conns : ReceiveStatus(k)
  <2>1. PICK k \in Conns : ReceiveStatus(k)
    BY <1>6
  <2>2. /\ toQueue' \in [Conns -> Seq(Frame)]
        /\ Head(toQueue[k]).state \in States
        /\ Head(toQueue[k]).required \in BOOLEAN
    BY <2>1, ReceiveType, FrameTypes DEF ReceiveStatus
  <2>3. RoleOf[k] \in Roles
    BY BusAssumption
  <2>4. services' \in [Roles -> Status]
    BY <2>1, <2>2, <2>3 DEF TypeOK, ReceiveStatus, Status
  <2>5. todo' \in SUBSET Commands /\ publishing' \in BOOLEAN
    BY <2>1 DEF ReceiveStatus, TypeOK
  <2>. QED  BY <2>1, <2>2, <2>4, <2>5 DEF TypeOK, ReceiveStatus
<1>7. CASE \E k \in Conns : completeCommand(k)
  <2>1. PICK k \in Conns : completeCommand(k)
    BY <1>7
  <2>2. /\ toQueue' \in [Conns -> Seq(Frame)]
        /\ Head(toQueue[k]).command \in Commands
        /\ Head(toQueue[k]).ok \in BOOLEAN
    BY <2>1, ReceiveType, FrameTypes DEF completeCommand
  <2>. QED  BY <2>1, <2>2 DEF TypeOK, completeCommand
<1>8. CASE \E k \in Conns : closeSocket(k)
  <2>1. PICK k \in Conns : closeSocket(k)
    BY <1>8
  <2>2. RoleOf[k] \in Roles
    BY BusAssumption
  <2>3. link' \in [Conns -> {"none", "open", "gone", "dead", "closed"}]
    BY <2>1 DEF TypeOK, closeSocket
  <2>4. toQueue' \in [Conns -> Seq(Frame)]
    BY <2>1 DEF TypeOK, closeSocket
  <2>5. Disconnected \in Status
    BY DEF Disconnected, Status, States
  <2>7. services' \in [Roles -> Status] /\ workers' \in [Roles -> Conns \cup {None}]
    <3>1. CASE workers[RoleOf[k]] = k
      <4>1. /\ services' = [services EXCEPT ![RoleOf[k]] = Disconnected]
            /\ workers' = [workers EXCEPT ![RoleOf[k]] = None]
        BY <2>1, <3>1 DEF closeSocket
      <4>. QED  BY <2>2, <2>5, <4>1 DEF TypeOK
    <3>2. CASE workers[RoleOf[k]] # k
      BY <2>1, <3>2 DEF TypeOK, closeSocket
    <3>. QED  BY <3>1, <3>2
  <2>6. todo' \in SUBSET Commands /\ publishing' \in BOOLEAN
    BY <2>1 DEF closeSocket, TypeOK
  <2>. QED  BY <2>1, <2>3, <2>4, <2>6, <2>7 DEF TypeOK, closeSocket
<1>9. CASE \E r \in Roles, s \in {"starting", "failed"} : SupervisorStatus(r, s)
  <2>1. PICK r \in Roles, s \in {"starting", "failed"} : SupervisorStatus(r, s)
    BY <1>9
  <2>2. services' \in [Roles -> Status]
    BY <2>1 DEF TypeOK, SupervisorStatus, Status, States
  <2>3. todo' \in SUBSET Commands /\ publishing' \in BOOLEAN
    BY <2>1 DEF SupervisorStatus, TypeOK
  <2>. QED  BY <2>1, <2>2, <2>3 DEF TypeOK, SupervisorStatus
<1>10. CASE stop
  <2>1. services' \in [Roles -> Status]
    BY <1>10 DEF stop, Unknown, Status, States
  <2>2. link' \in [Conns -> {"none", "open", "gone", "dead", "closed"}]
    BY <1>10 DEF TypeOK, stop
  <2>3. toQueue' \in [Conns -> Seq(Frame)] /\ awaiting' \in [Conns -> SUBSET Commands]
    BY <1>10 DEF stop
  <2>4. /\ pendingCommands' \in [Commands -> {"absent", "pending", "claimed"}]
        /\ workers' \in [Roles -> Conns \cup {None}]
    BY <1>10 DEF stop
  <2>6. waiters' \in [Commands -> {"none", "waiting", "ok", "failed", "timeout"}]
    <3>1. waiters \in [Commands -> {"none", "waiting", "ok", "failed", "timeout"}]
      BY DEF TypeOK
    <3>2. waiters' = [c \in Commands |->
                        IF waiters[c] = "waiting" THEN "failed" ELSE waiters[c]]
      BY <1>10 DEF stop
    <3>. QED  BY <3>1, <3>2
  <2>5. todo' \in SUBSET Commands /\ publishing' \in BOOLEAN /\ up' \in BOOLEAN
    BY <1>10 DEF stop
  <2>7. restarts' \in Nat
    BY <1>10 DEF TypeOK, stop
  <2>. QED  BY <1>10, <2>1, <2>2, <2>3, <2>4, <2>5, <2>6, <2>7 DEF TypeOK, stop
<1>11. CASE create
  BY <1>11 DEF TypeOK, create, Interrupted, Reloaded
<1>. QED
  BY <1>1, <1>2, <1>3, <1>4, <1>5, <1>6, <1>7, <1>8, <1>9, <1>10, <1>11 DEF QueueNext

LEMMA ClientStepTypeOK == TypeOK /\ ClientNext => TypeOK'
<1>. SUFFICES ASSUME TypeOK, NEW k \in Conns,
                     \/ connect(k)
                     \/ \E required \in BOOLEAN : start(k, required)
                     \/ \E required \in BOOLEAN, s \in {"starting", "ready"} :
                          heartbeat(k, s, required)
                     \/ handleCommand(k)
                     \/ \E c \in Commands, ok \in BOOLEAN : HandlerEnds(k, c, ok)
                     \/ \E c \in Commands : handleResponse(k, c) \/ RequestTimeout(k, c)
                     \/ Exit(k)
              PROVE  TypeOK'
  BY DEF ClientNext
<1>. USE DEF counters, clientVars, queueVars
<1>1. CASE connect(k)
  <2>1. <<Hello>> \in Seq(Frame)
    BY FrameTypes
  <2>. QED  BY <1>1, <2>1 DEF TypeOK, connect
<1>2. CASE \E required \in BOOLEAN : start(k, required)
  <2>1. toQueue' \in [Conns -> Seq(Frame)]
    BY <1>2, SendType, FrameTypes DEF start, States
  <2>. QED  BY <1>2, <2>1 DEF TypeOK, start
<1>3. CASE \E required \in BOOLEAN, s \in {"starting", "ready"} : heartbeat(k, s, required)
  <2>1. toQueue' \in [Conns -> Seq(Frame)]
    BY <1>3, SendType, FrameTypes DEF heartbeat, States
  <2>. QED  BY <1>3, <2>1 DEF TypeOK, heartbeat
<1>4. CASE handleCommand(k)
  <2>1. toWorker[k] \in Seq(Commands) /\ toWorker[k] # <<>>
    BY <1>4 DEF TypeOK, handleCommand
  <2>2. Head(toWorker[k]) \in Commands /\ Tail(toWorker[k]) \in Seq(Commands)
    BY <2>1
  <2>3. toWorker' \in [Conns -> Seq(Commands)]
    BY <1>4, <2>2 DEF TypeOK, handleCommand
  <2>4. CASE handler[k]
    <3>. DEFINE c == Head(toWorker[k])
    <3>1. /\ runs' = [runs EXCEPT ![c] = @ + 1]
          /\ running' = [running EXCEPT ![k] = @ \cup {c}]
          /\ UNCHANGED toQueue
      BY <1>4, <2>4 DEF handleCommand
    <3>2. runs[c] + 1 \in Nat
      BY <2>2 DEF TypeOK
    <3>3. runs' \in [Commands -> Nat]
      BY <3>1, <3>2 DEF TypeOK
    <3>4. running' \in [Conns -> SUBSET Commands]
      BY <2>2, <3>1 DEF TypeOK
    <3>. QED  BY <1>4, <2>3, <3>1, <3>3, <3>4 DEF TypeOK, handleCommand
  <2>5. CASE ~handler[k]
    <3>1. toQueue' \in [Conns -> Seq(Frame)]
      BY <1>4, <2>2, <2>5, SendType, FrameTypes DEF handleCommand, NoHandler
    <3>. QED  BY <1>4, <2>3, <2>5, <3>1 DEF TypeOK, handleCommand
  <2>. QED  BY <2>4, <2>5
<1>5. CASE \E c \in Commands, ok \in BOOLEAN : HandlerEnds(k, c, ok)
  <2>1. PICK c \in Commands, ok \in BOOLEAN : HandlerEnds(k, c, ok)
    BY <1>5
  <2>2. toQueue' \in [Conns -> Seq(Frame)]
    BY <2>1, SendType, FrameTypes DEF HandlerEnds
  <2>. QED  BY <2>1, <2>2 DEF TypeOK, HandlerEnds
<1>6. CASE \E c \in Commands : handleResponse(k, c)
  BY <1>6 DEF TypeOK, handleResponse
<1>7. CASE \E c \in Commands : RequestTimeout(k, c)
  <2>1. PICK c \in Commands : RequestTimeout(k, c)
    BY <1>7
  <2>2. toQueue' \in [Conns -> Seq(Frame)]
    BY <2>1, SendType, FrameTypes DEF RequestTimeout
  <2>. QED  BY <2>1, <2>2 DEF TypeOK, RequestTimeout
<1>8. CASE Exit(k)
  BY <1>8 DEF TypeOK, Exit
<1>. QED
  BY <1>1, <1>2, <1>3, <1>4, <1>5, <1>6, <1>7, <1>8

(* Every variable of the bus stays in its range. *)
THEOREM TypeCorrect == Spec => []TypeOK
<1>1. TypeOK /\ UNCHANGED vars => TypeOK'
  BY DEF TypeOK, vars, queueVars, clientVars, counters
<1>2. TypeOK /\ [Next]_vars => TypeOK'
  BY <1>1, QueueStepTypeOK, ClientStepTypeOK DEF Next
<1>. QED  BY InitTypeOK, <1>2, PTL DEF Spec
-----------------------------------------------------------------------------
(***************************************************************************)
(* A handler is started at most once.  claimCommand does not tell a row it *)
(* has just claimed from one claimed before, so dispatch relies on the     *)
(* remembered row: the invariant needs RowsMatchTable, that a command not  *)
(* yet claimed is on no wire, that no command is on the wires twice, and   *)
(* that what is on a wire has not been started.                            *)
(***************************************************************************)
Waiting(c) == db[c] \in {"none", "pending"}

OnWire(k, i, c) == i \in 1..Len(toWorker[k]) /\ toWorker[k][i] = c

WaitingNotSent ==
  \A c \in Commands : Waiting(c) => runs[c] = 0 /\ \A k \in Conns, i \in Nat : ~OnWire(k, i, c)

SentOnce ==
  \A c \in Commands, k1, k2 \in Conns, i1, i2 \in Nat :
    OnWire(k1, i1, c) /\ OnWire(k2, i2, c) => k1 = k2 /\ i1 = i2

SentNotStarted ==
  \A c \in Commands, k \in Conns, i \in Nat : OnWire(k, i, c) => runs[c] = 0

OnceInv ==
  /\ RowsMatchTable
  /\ WaitingNotSent
  /\ SentOnce
  /\ SentNotStarted
  /\ StartedAtMostOnce

LEMMA InitOnce == Init => OnceInv
BY DEF Init, OnceInv, RowsMatchTable, WaitingNotSent, SentOnce, SentNotStarted, StartedAtMostOnce,
       OnWire

(* A step that starts nothing and sends nothing, and moves rows only       *)
(* forward, with the memory following the table.                           *)
LEMMA RowsOnly ==
  ASSUME OnceInv, UNCHANGED <<toWorker, runs>>, RowsMatchTable',
         \A c \in Commands : Waiting(c)' => Waiting(c)
  PROVE  OnceInv'
BY DEF OnceInv, WaitingNotSent, SentOnce, SentNotStarted, StartedAtMostOnce, OnWire

LEMMA QueueStepOnce == TypeOK /\ OnceInv /\ QueueNext => OnceInv'
<1>. SUFFICES ASSUME TypeOK, OnceInv, QueueNext PROVE OnceInv'
  OBVIOUS
<1>. USE DEF counters, clientVars, queueVars
<1>1. CASE \E c \in Commands : enqueueCommand(c)
  <2>1. PICK c \in Commands : enqueueCommand(c)
    BY <1>1
  <2>2. RowsMatchTable'
    BY <2>1 DEF enqueueCommand, OnceInv, RowsMatchTable, TypeOK
  <2>3. \A b \in Commands : Waiting(b)' => Waiting(b)
    BY <2>1 DEF enqueueCommand, Waiting, TypeOK
  <2>. QED  BY <2>1, <2>2, <2>3, RowsOnly DEF enqueueCommand
<1>2. CASE \E c \in Commands : Visit(c)
  <2>1. PICK c \in Commands : Visit(c)
    BY <1>2
  <2>2. CASE ~Dispatchable(c)
    BY <2>1, <2>2, RowsOnly DEF Visit, Waiting, OnceInv, RowsMatchTable
  <2>3. CASE Dispatchable(c)
    <3>. DEFINE k == workers[Target[c]]
    <3>1. up /\ UNCHANGED <<up, runs>> /\ dispatch(c)
      BY <2>1, <2>3 DEF Visit
    <3>2. pendingCommands[c] = "pending" /\ k \in Conns
      BY <2>3, BusAssumption DEF Dispatchable, TypeOK
    <3>3. db[c] = "pending"
      BY <3>1, <3>2 DEF OnceInv, RowsMatchTable, TypeOK
    <3>4. /\ db' = [db EXCEPT ![c] = "claimed"]
          /\ pendingCommands' = [pendingCommands EXCEPT ![c] = "claimed"]
          /\ toWorker' = [toWorker EXCEPT ![k] = IF link[k] = "open" THEN Append(@, c) ELSE @]
      BY <3>1, <3>3 DEF dispatch, claimCommand
    <3>5. RowsMatchTable'
      BY <3>1, <3>4 DEF OnceInv, RowsMatchTable, TypeOK
    <3>6. runs[c] = 0 /\ \A j \in Conns, i \in Nat : ~OnWire(j, i, c)
      BY <3>3 DEF OnceInv, WaitingNotSent, Waiting
    <3>7. \A j \in Conns, i \in Nat, b \in Commands :
            OnWire(j, i, b)' => OnWire(j, i, b) \/ (j = k /\ b = c /\ i = Len(toWorker[k]) + 1)
      <4>. SUFFICES ASSUME NEW j \in Conns, NEW i \in Nat, NEW b \in Commands, OnWire(j, i, b)'
                    PROVE  OnWire(j, i, b) \/ (j = k /\ b = c /\ i = Len(toWorker[k]) + 1)
        OBVIOUS
      <4>1. toWorker[k] \in Seq(Commands)
        BY <3>2 DEF TypeOK
      <4>2. CASE j # k \/ link[k] # "open"
        <5>1. toWorker'[j] = toWorker[j]
          BY <3>2, <3>4, <4>2 DEF TypeOK
        <5>. QED  BY <5>1 DEF OnWire
      <4>3. CASE j = k /\ link[k] = "open"
        <5>1. toWorker'[j] = Append(toWorker[k], c)
          BY <3>2, <3>4, <4>3 DEF TypeOK
        <5>. QED  BY <4>1, <4>3, <5>1 DEF OnWire
      <4>. QED  BY <4>2, <4>3
    <3>8. WaitingNotSent'
      BY <3>1, <3>4, <3>7 DEF OnceInv, WaitingNotSent, Waiting, TypeOK
    <3>9. SentOnce'
      BY <3>6, <3>7 DEF OnceInv, SentOnce
    <3>10. SentNotStarted'
      BY <3>1, <3>6, <3>7 DEF OnceInv, SentNotStarted
    <3>. QED  BY <3>1, <3>5, <3>8, <3>9, <3>10 DEF OnceInv, StartedAtMostOnce
  <2>. QED  BY <2>2, <2>3
<1>3. CASE \E k \in Conns : completeCommand(k)
  <2>1. PICK k \in Conns : completeCommand(k)
    BY <1>3
  <2>. DEFINE c == Head(toQueue[k]).command
  <2>2. c \in Commands
    BY <2>1, ReceiveType, FrameTypes DEF completeCommand
  <2>3. /\ db' = [db EXCEPT ![c] = IF Head(toQueue[k]).ok THEN "completed" ELSE "failed"]
        /\ pendingCommands' = [pendingCommands EXCEPT ![c] = "absent"]
        /\ UNCHANGED <<up, toWorker, runs>>
    BY <2>1 DEF completeCommand
  <2>4. RowsMatchTable'
    BY <2>2, <2>3 DEF OnceInv, RowsMatchTable, TypeOK
  <2>5. \A b \in Commands : Waiting(b)' => Waiting(b)
    BY <2>2, <2>3 DEF Waiting, TypeOK
  <2>. QED  BY <2>3, <2>4, <2>5, RowsOnly
<1>4. CASE create
  <2>1. /\ db' = [c \in Commands |-> Interrupted(db[c])]
        /\ pendingCommands' = [c \in Commands |-> Reloaded(db[c])]
        /\ UNCHANGED <<toWorker, runs>>
    BY <1>4 DEF create
  <2>2. RowsMatchTable'
    BY <2>1 DEF RowsMatchTable, Interrupted, Reloaded, TypeOK
  <2>3. \A b \in Commands : Waiting(b)' => Waiting(b)
    BY <2>1 DEF Waiting, Interrupted, TypeOK
  <2>. QED  BY <2>1, <2>2, <2>3, RowsOnly
<1>5. CASE stop
  <2>1. ~up' /\ UNCHANGED <<db, toWorker, runs>>
    BY <1>5 DEF stop
  <2>2. RowsMatchTable' /\ \A b \in Commands : Waiting(b)' => Waiting(b)
    BY <2>1 DEF RowsMatchTable, Waiting
  <2>. QED  BY <2>1, <2>2, RowsOnly
<1>6. ASSUME UNCHANGED <<db, up, pendingCommands, toWorker, runs>> PROVE OnceInv'
  BY <1>6, RowsOnly DEF OnceInv, RowsMatchTable, Waiting
<1>7. CASE \/ \E c \in Commands : InvokeTimeout(c)
           \/ publishChatQueueStatus
           \/ \E k \in Conns : ReceiveHello(k) \/ ReceiveStatus(k) \/ closeSocket(k)
           \/ \E r \in Roles, s \in {"starting", "failed"} : SupervisorStatus(r, s)
  BY <1>6, <1>7 DEF InvokeTimeout, publishChatQueueStatus, ReceiveHello, ReceiveStatus,
                    closeSocket, SupervisorStatus
<1>. QED  BY <1>1, <1>2, <1>3, <1>4, <1>5, <1>7 DEF QueueNext

LEMMA ClientStepOnce == TypeOK /\ OnceInv /\ ClientNext => OnceInv'
<1>. SUFFICES ASSUME TypeOK, OnceInv, ClientNext PROVE OnceInv'
  OBVIOUS
<1>. USE DEF counters, clientVars, queueVars
<1>1. PICK k \in Conns :
        \/ connect(k)
        \/ \E required \in BOOLEAN : start(k, required)
        \/ \E required \in BOOLEAN, s \in {"starting", "ready"} : heartbeat(k, s, required)
        \/ handleCommand(k)
        \/ \E c \in Commands, ok \in BOOLEAN : HandlerEnds(k, c, ok)
        \/ \E c \in Commands : handleResponse(k, c) \/ RequestTimeout(k, c)
        \/ Exit(k)
  BY DEF ClientNext
<1>2. UNCHANGED <<db, up, pendingCommands>>
  BY <1>1 DEF connect, start, heartbeat, handleCommand, HandlerEnds, handleResponse,
              RequestTimeout, Exit
<1>3. RowsMatchTable' /\ \A b \in Commands : Waiting(b)' <=> Waiting(b)
  BY <1>2 DEF OnceInv, RowsMatchTable, Waiting
<1>4. CASE handleCommand(k)
  <2>1. toWorker[k] \in Seq(Commands) /\ toWorker[k] # <<>>
    BY <1>4 DEF TypeOK, handleCommand
  <2>. PICK c \in Commands : c = Head(toWorker[k])
    BY <2>1
  <2>2. OnWire(k, 1, c)
    BY <2>1 DEF OnWire
  <2>3. toWorker' = [toWorker EXCEPT ![k] = Tail(toWorker[k])]
    BY <1>4 DEF handleCommand
  <2>4. \A j \in Conns, i \in Nat, b \in Commands :
          OnWire(j, i, b)' => IF j = k THEN OnWire(k, i + 1, b) /\ i + 1 # 1 ELSE OnWire(j, i, b)
    BY <2>1, <2>3 DEF OnWire, TypeOK
  <2>5. \A j \in Conns, i \in Nat : ~OnWire(j, i, c)'
    <3>. SUFFICES ASSUME NEW j \in Conns, NEW i \in Nat, OnWire(j, i, c)' PROVE FALSE
      OBVIOUS
    <3>1. CASE j = k
      <4>1. OnWire(k, i + 1, c) /\ i + 1 # 1 /\ i + 1 \in Nat
        BY <2>2, <2>4, <3>1
      <4>. QED  BY <2>2, <4>1 DEF OnceInv, SentOnce
    <3>2. CASE j # k
      <4>1. OnWire(j, i, c)
        BY <2>2, <2>4, <3>2
      <4>. QED  BY <2>2, <3>2, <4>1 DEF OnceInv, SentOnce
    <3>. QED  BY <3>1, <3>2
  <2>6. ~Waiting(c) /\ runs[c] = 0
    BY <2>2 DEF OnceInv, WaitingNotSent, SentNotStarted
  <2>7. runs' = runs \/ runs' = [runs EXCEPT ![c] = @ + 1]
    BY <1>4 DEF handleCommand
  <2>8. runs'[c] <= 1 /\ \A b \in Commands : b # c => runs'[b] = runs[b]
    BY <2>2, <2>6, <2>7 DEF TypeOK
  <2>9. WaitingNotSent'
    <3>. SUFFICES ASSUME NEW b \in Commands, Waiting(b)'
                  PROVE  runs'[b] = 0 /\ \A j \in Conns, i \in Nat : ~OnWire(j, i, b)'
      BY DEF WaitingNotSent
    <3>1. Waiting(b) /\ b # c
      BY <1>3, <2>6
    <3>2. runs[b] = 0 /\ \A j \in Conns, i \in Nat : ~OnWire(j, i, b)
      BY <3>1 DEF OnceInv, WaitingNotSent
    <3>. QED  BY <2>4, <2>8, <3>1, <3>2
  <2>10. SentOnce'
    BY <2>4 DEF OnceInv, SentOnce
  <2>11. SentNotStarted'
    <3>. SUFFICES ASSUME NEW b \in Commands, NEW j \in Conns, NEW i \in Nat, OnWire(j, i, b)'
                  PROVE  runs'[b] = 0
      BY DEF SentNotStarted
    <3>1. b # c
      BY <2>5
    <3>2. OnWire(k, i + 1, b) \/ OnWire(j, i, b)
      BY <2>4
    <3>3. runs[b] = 0
      BY <3>2 DEF OnceInv, SentNotStarted
    <3>. QED  BY <2>8, <3>1, <3>3
  <2>12. StartedAtMostOnce'
    BY <2>8 DEF OnceInv, StartedAtMostOnce
  <2>. QED  BY <1>3, <2>9, <2>10, <2>11, <2>12 DEF OnceInv
<1>5. CASE Exit(k)
  <2>1. toWorker' = [toWorker EXCEPT ![k] = <<>>] /\ UNCHANGED runs
    BY <1>5 DEF Exit
  <2>2. \A j \in Conns, i \in Nat, b \in Commands : OnWire(j, i, b)' => OnWire(j, i, b)
    BY <2>1 DEF OnWire, TypeOK
  <2>. QED  BY <1>3, <2>1, <2>2 DEF OnceInv, WaitingNotSent, SentOnce, SentNotStarted,
                                    StartedAtMostOnce
<1>6. ASSUME UNCHANGED <<toWorker, runs>> PROVE OnceInv'
  BY <1>3, <1>6, RowsOnly
<1>7. CASE \/ connect(k)
           \/ \E required \in BOOLEAN : start(k, required)
           \/ \E required \in BOOLEAN, s \in {"starting", "ready"} : heartbeat(k, s, required)
           \/ \E c \in Commands, ok \in BOOLEAN : HandlerEnds(k, c, ok)
           \/ \E c \in Commands : handleResponse(k, c) \/ RequestTimeout(k, c)
  BY <1>6, <1>7 DEF connect, start, heartbeat, HandlerEnds, handleResponse, RequestTimeout
<1>. QED  BY <1>1, <1>4, <1>5, <1>7

LEMMA OnceInvariant == Spec => []OnceInv
<1>1. TypeOK /\ OnceInv /\ UNCHANGED vars => OnceInv'
  BY DEF vars, queueVars, clientVars, OnceInv, RowsMatchTable, WaitingNotSent, SentOnce,
         SentNotStarted, StartedAtMostOnce, OnWire, Waiting
<1>2. TypeOK /\ OnceInv /\ [Next]_vars => OnceInv'
  BY <1>1, QueueStepOnce, ClientStepOnce DEF Next
<1>. QED  BY InitOnce, <1>2, TypeCorrect, PTL DEF Spec

(* The handler of a command is started at most once, through any number of *)
(* workers, lost connections and restarts of queue-service.                *)
THEOREM AtMostOnce == Spec => []StartedAtMostOnce
<1>1. OnceInv => StartedAtMostOnce
  BY DEF OnceInv
<1>. QED  BY OnceInvariant, <1>1, PTL

(* What queue-service remembers of a command is what the table says. *)
THEOREM MemoryMatchesTable == Spec => []RowsMatchTable
<1>1. OnceInv => RowsMatchTable
  BY DEF OnceInv
<1>. QED  BY OnceInvariant, <1>1, PTL
-----------------------------------------------------------------------------
(***************************************************************************)
(* How the frames on the wires move.                                       *)
(***************************************************************************)

(* Sending a command puts it at the end of its wire, or nowhere. *)
LEMMA WireGrows ==
  ASSUME TypeOK, NEW k \in Conns, NEW c \in Commands,
         toWorker' = [toWorker EXCEPT ![k] = IF link[k] = "open" THEN Append(@, c) ELSE @]
  PROVE  \A j \in Conns, i \in Nat, b \in Commands :
           OnWire(j, i, b)' <=> \/ OnWire(j, i, b)
                                \/ link[k] = "open" /\ j = k /\ b = c /\ i = Len(toWorker[k]) + 1
<1>. SUFFICES ASSUME NEW j \in Conns, NEW i \in Nat, NEW b \in Commands
              PROVE  OnWire(j, i, b)' <=>
                       \/ OnWire(j, i, b)
                       \/ link[k] = "open" /\ j = k /\ b = c /\ i = Len(toWorker[k]) + 1
  OBVIOUS
<1>1. toWorker[k] \in Seq(Commands)
  BY DEF TypeOK
<1>2. CASE j # k \/ link[k] # "open"
  <2>1. toWorker'[j] = toWorker[j]
    BY <1>2 DEF TypeOK
  <2>. QED  BY <1>2, <2>1 DEF OnWire
<1>3. CASE j = k /\ link[k] = "open"
  <2>1. toWorker'[j] = Append(toWorker[k], c)
    BY <1>3 DEF TypeOK
  <2>. QED  BY <1>1, <1>3, <2>1 DEF OnWire
<1>. QED  BY <1>2, <1>3

LEMMA TailAt ==
  ASSUME NEW S, NEW s \in Seq(S), s # <<>>, NEW i \in Nat
  PROVE  /\ i \in 1..Len(Tail(s)) <=> i # 0 /\ i + 1 \in 1..Len(s)
         /\ i \in 1..Len(Tail(s)) => Tail(s)[i] = s[i + 1]
OBVIOUS

(* Taking the head off a wire moves the others one place up. *)
LEMMA WireShrinks ==
  ASSUME TypeOK, NEW k \in Conns, toWorker[k] # <<>>,
         toWorker' = [toWorker EXCEPT ![k] = Tail(@)]
  PROVE  \A j \in Conns, i \in Nat, b \in Commands :
           OnWire(j, i, b)' <=> IF j = k THEN i # 0 /\ OnWire(k, i + 1, b) ELSE OnWire(j, i, b)
<1>. SUFFICES ASSUME NEW j \in Conns, NEW i \in Nat, NEW b \in Commands
              PROVE  OnWire(j, i, b)' <=>
                       IF j = k THEN i # 0 /\ OnWire(k, i + 1, b) ELSE OnWire(j, i, b)
  OBVIOUS
<1>1. toWorker[k] \in Seq(Commands) /\ toWorker[k] # <<>>
  BY DEF TypeOK
<1>2. CASE j # k
  <2>1. toWorker'[j] = toWorker[j]
    BY <1>2 DEF TypeOK
  <2>. QED  BY <1>2, <2>1 DEF OnWire
<1>3. CASE j = k
  <2>1. toWorker'[j] = Tail(toWorker[k])
    BY <1>3 DEF TypeOK
  <2>2. /\ i \in 1..Len(Tail(toWorker[k])) <=> i # 0 /\ i + 1 \in 1..Len(toWorker[k])
        /\ i \in 1..Len(Tail(toWorker[k])) => Tail(toWorker[k])[i] = toWorker[k][i + 1]
    BY <1>1, TailAt
  <2>3. /\ i \in 1..Len(toWorker'[j]) <=> i # 0 /\ i + 1 \in 1..Len(toWorker[k])
        /\ i \in 1..Len(toWorker'[j]) => toWorker'[j][i] = toWorker[k][i + 1]
    BY <2>1, <2>2
  <2>. QED  BY <1>3, <2>3 DEF OnWire
<1>. QED  BY <1>2, <1>3

(* Frame i on its way from k says that c has ended, or ended well.         *)
Answer(k, i, c) ==
  i \in 1..Len(toQueue[k]) /\ toQueue[k][i].type = "complete" /\ toQueue[k][i].command = c
Success(k, i, c) == Answer(k, i, c) /\ toQueue[k][i].ok = TRUE

(* A frame sent over an open connection is the last of it. *)
LEMMA AnswersGrow ==
  ASSUME TypeOK, NEW k \in Conns, NEW f \in Frame, Send(k, f)
  PROVE  \A j \in Conns, i \in Nat, b \in Commands :
           /\ Answer(j, i, b)' <=>
                \/ Answer(j, i, b)
                \/ /\ link[k] = "open" /\ j = k /\ i = Len(toQueue[k]) + 1
                   /\ f.type = "complete" /\ f.command = b
           /\ Success(j, i, b)' <=>
                \/ Success(j, i, b)
                \/ /\ link[k] = "open" /\ j = k /\ i = Len(toQueue[k]) + 1
                   /\ f.type = "complete" /\ f.command = b /\ f.ok = TRUE
<1>. SUFFICES ASSUME NEW j \in Conns, NEW i \in Nat, NEW b \in Commands
              PROVE  /\ Answer(j, i, b)' <=>
                          \/ Answer(j, i, b)
                          \/ /\ link[k] = "open" /\ j = k /\ i = Len(toQueue[k]) + 1
                             /\ f.type = "complete" /\ f.command = b
                     /\ Success(j, i, b)' <=>
                          \/ Success(j, i, b)
                          \/ /\ link[k] = "open" /\ j = k /\ i = Len(toQueue[k]) + 1
                             /\ f.type = "complete" /\ f.command = b /\ f.ok = TRUE
  OBVIOUS
<1>1. toQueue[k] \in Seq(Frame) /\ Len(toQueue[k]) \in Nat
  BY DEF TypeOK
<1>2. CASE j # k \/ link[k] # "open"
  <2>1. toQueue'[j] = toQueue[j]
    BY <1>2 DEF TypeOK, Send
  <2>. QED  BY <1>2, <2>1 DEF Answer, Success
<1>3. CASE j = k /\ link[k] = "open"
  <2>1. toQueue'[j] = Append(toQueue[k], f)
    BY <1>3 DEF TypeOK, Send
  <2>2. Len(toQueue'[j]) = Len(toQueue[k]) + 1
    BY <1>1, <2>1
  <2>3. CASE i \in 1..Len(toQueue[k])
    <3>1. toQueue'[j][i] = toQueue[j][i]
      BY <1>1, <1>3, <2>1, <2>3
    <3>2. i \in 1..Len(toQueue[j]) /\ i \in 1..Len(toQueue'[j]) /\ i # Len(toQueue[k]) + 1
      BY <1>1, <1>3, <2>2, <2>3
    <3>. QED  BY <3>1, <3>2 DEF Answer, Success
  <2>4. CASE i = Len(toQueue[k]) + 1
    <3>1. toQueue'[j][i] = f
      BY <1>1, <2>1, <2>4
    <3>2. i \notin 1..Len(toQueue[j]) /\ i \in 1..Len(toQueue'[j])
      BY <1>1, <1>3, <2>2, <2>4
    <3>. QED  BY <1>3, <2>4, <3>1, <3>2 DEF Answer, Success
  <2>5. CASE i \notin 1..Len(toQueue[k]) /\ i # Len(toQueue[k]) + 1
    <3>1. i \notin 1..Len(toQueue[j]) /\ i \notin 1..Len(toQueue'[j])
      BY <1>1, <1>3, <2>2, <2>5
    <3>. QED  BY <2>5, <3>1 DEF Answer, Success
  <2>. QED  BY <2>3, <2>4, <2>5
<1>. QED  BY <1>2, <1>3

(* A beat is no answer. *)
LEMMA BeatsAnswerNothing ==
  ASSUME TypeOK, NEW k \in Conns, NEW s \in States, NEW required \in BOOLEAN,
         Send(k, Beat(s, required))
  PROVE  \A j \in Conns, i \in Nat, b \in Commands :
           (Answer(j, i, b)' <=> Answer(j, i, b)) /\ (Success(j, i, b)' <=> Success(j, i, b))
<1>1. Beat(s, required) \in Frame /\ Beat(s, required).type # "complete"
  BY FrameTypes DEF Beat
<1>. QED  BY <1>1, AnswersGrow

(* A completion is the last answer. *)
LEMMA CompletionAnswers ==
  ASSUME TypeOK, NEW k \in Conns, NEW c \in Commands, NEW ok \in BOOLEAN,
         Send(k, Completion(c, ok))
  PROVE  \A j \in Conns, i \in Nat, b \in Commands :
           /\ Answer(j, i, b)' <=>
                \/ Answer(j, i, b)
                \/ link[k] = "open" /\ j = k /\ i = Len(toQueue[k]) + 1 /\ c = b
           /\ Success(j, i, b)' <=>
                \/ Success(j, i, b)
                \/ link[k] = "open" /\ j = k /\ i = Len(toQueue[k]) + 1 /\ c = b /\ ok = TRUE
<1>1. Completion(c, ok) \in Frame
  BY FrameTypes
<1>2. /\ Completion(c, ok).type = "complete"
      /\ Completion(c, ok).command = c
      /\ Completion(c, ok).ok = ok
  BY DEF Completion
<1>. DEFINE f == Completion(c, ok)
<1>3. f.type = "complete" /\ f.command = c /\ f.ok = ok /\ f \in Frame /\ Send(k, f)
  BY <1>1, <1>2
<1>. HIDE DEF f
<1>. QED  BY <1>3, AnswersGrow

(* Receiving a frame moves the others one place up. *)
LEMMA AnswersShrink ==
  ASSUME TypeOK, NEW k \in Conns, NEW t, Receiving(k, t)
  PROVE  \A j \in Conns, i \in Nat, b \in Commands :
           /\ Answer(j, i, b)' <=> IF j = k THEN i # 0 /\ Answer(k, i + 1, b) ELSE Answer(j, i, b)
           /\ Success(j, i, b)' <=> IF j = k THEN i # 0 /\ Success(k, i + 1, b) ELSE Success(j, i, b)
<1>. SUFFICES ASSUME NEW j \in Conns, NEW i \in Nat, NEW b \in Commands
              PROVE  /\ Answer(j, i, b)' <=>
                          IF j = k THEN i # 0 /\ Answer(k, i + 1, b) ELSE Answer(j, i, b)
                     /\ Success(j, i, b)' <=>
                          IF j = k THEN i # 0 /\ Success(k, i + 1, b) ELSE Success(j, i, b)
  OBVIOUS
<1>1. toQueue[k] \in Seq(Frame) /\ toQueue[k] # <<>>
  BY DEF TypeOK, Receiving
<1>2. CASE j # k
  <2>1. toQueue'[j] = toQueue[j]
    BY <1>2 DEF TypeOK, Receiving
  <2>. QED  BY <1>2, <2>1 DEF Answer, Success
<1>3. CASE j = k
  <2>1. toQueue'[j] = Tail(toQueue[k])
    BY <1>3 DEF TypeOK, Receiving
  <2>2. /\ i \in 1..Len(Tail(toQueue[k])) <=> i # 0 /\ i + 1 \in 1..Len(toQueue[k])
        /\ i \in 1..Len(Tail(toQueue[k])) => Tail(toQueue[k])[i] = toQueue[k][i + 1]
    BY <1>1, TailAt
  <2>3. /\ i \in 1..Len(toQueue'[j]) <=> i # 0 /\ i + 1 \in 1..Len(toQueue[k])
        /\ i \in 1..Len(toQueue'[j]) => toQueue'[j][i] = toQueue[k][i + 1]
    BY <2>1, <2>2
  <2>. QED  BY <1>3, <2>3 DEF Answer, Success
<1>. QED  BY <1>2, <1>3

(* Answers depend on the connections to queue-service only. *)
LEMMA AnswersStay ==
  ASSUME UNCHANGED toQueue
  PROVE  \A j \in Conns, i \in Nat, b \in Commands :
           (Answer(j, i, b)' <=> Answer(j, i, b)) /\ (Success(j, i, b)' <=> Success(j, i, b))
BY DEF Answer, Success
-----------------------------------------------------------------------------
(***************************************************************************)
(* The life of a command.  What an answer says of a command must still fit *)
(* its row when it is taken: a success must find it claimed, with its      *)
(* handler returned.  So nothing may overtake a success: the invariant     *)
(* says where a command can be (on a wire or running, in one place), that  *)
(* nothing is said of it until its handler has ended, and that what is     *)
(* said then is one success at most, before any failure.                   *)
(***************************************************************************)

(* A connection that queue-service lost carries nothing to it, one whose   *)
(* worker is gone holds nothing of it, and commands are sent to            *)
(* connections of their role only.                                         *)
Links ==
  /\ ~up => \A k \in Conns : link[k] \notin {"open", "gone"}
  /\ \A k \in Conns : link[k] \notin {"open", "gone"} => toQueue[k] = <<>>
  /\ \A k \in Conns : link[k] \notin {"open", "dead"} =>
       toWorker[k] = <<>> /\ running[k] = {} /\ awaiting[k] = {}
  /\ \A r \in Roles : workers[r] # None =>
       RoleOf[workers[r]] = r /\ link[workers[r]] \in {"open", "gone"}

(* A command that was not submitted has no waiter, and a handler ends      *)
(* after its start.                                                        *)
NotYet ==
  \A c \in Commands :
    /\ db[c] = "none" => waiters[c] = "none"
    /\ runs[c] = 0 => ended[c] = "no"

(* A running handler was started and has not ended, and runs in one place. *)
RunsOnce ==
  \A k \in Conns, c \in Commands : c \in running[k] =>
    runs[c] = 1 /\ ended[c] = "no" /\ \A j \in Conns : c \in running[j] => j = k

Holds(k, c) == c \in running[k] \/ \E i \in Nat : OnWire(k, i, c)

(* As long as a worker has a command, nothing is said of it, and the table *)
(* has it as claimed or, after a restart, failed.                          *)
HeldIsClaimed ==
  \A k \in Conns, c \in Commands : Holds(k, c) =>
    /\ db[c] \in {"claimed", "failed"}
    /\ link[k] = "open" => db[c] = "claimed"
    /\ \A j \in Conns, i \in Nat : ~Answer(j, i, c)

AnsweredIsSent ==
  \A k \in Conns, c \in Commands, i \in Nat : Answer(k, i, c) => ~Waiting(c)

(* A success is said once, of a claimed command whose handler returned,    *)
(* and before any failure that follows it.                                 *)
SuccessFirst ==
  \A k \in Conns, c \in Commands, i \in Nat : Success(k, i, c) =>
    /\ db[c] = "claimed" /\ ended[c] = "ok"
    /\ \A j \in Conns, m \in Nat : Answer(j, m, c) =>
         j = k /\ m >= i /\ (Success(j, m, c) => m = i)

(* The worker that waits for an acknowledgement is the only one to answer. *)
AwaitedOnce ==
  \A k \in Conns, c \in Commands : c \in awaiting[k] =>
    /\ ended[c] = "ok"
    /\ \A j \in Conns : c \in awaiting[j] => j = k
    /\ \A j \in Conns, i \in Nat : Answer(j, i, c) => j = k

LifeInv ==
  /\ Links /\ NotYet
  /\ RunsOnce /\ HeldIsClaimed
  /\ AnsweredIsSent /\ SuccessFirst /\ AwaitedOnce

LEMMA InitLife == Init => LifeInv
<1>. SUFFICES ASSUME Init PROVE LifeInv
  OBVIOUS
<1>1. \A k \in Conns, c \in Commands : ~Holds(k, c)
  BY DEF Init, Holds, OnWire
<1>2. \A k \in Conns, c \in Commands, i \in Nat : ~Answer(k, i, c) /\ ~Success(k, i, c)
  BY DEF Init, Answer, Success
<1>3. Links /\ NotYet /\ RunsOnce /\ AwaitedOnce
  BY DEF Init, Links, NotYet, RunsOnce, AwaitedOnce
<1>. QED  BY <1>1, <1>2, <1>3 DEF LifeInv, HeldIsClaimed, AnsweredIsSent, SuccessFirst

(* A command that waits is with nobody, and nothing is said of it. *)
LEMMA WaitingIsNowhere ==
  ASSUME TypeOK, OnceInv, LifeInv, NEW c \in Commands, Waiting(c)
  PROVE  \A k \in Conns : /\ ~Holds(k, c) /\ c \notin awaiting[k]
                          /\ \A i \in Nat : ~Answer(k, i, c) /\ ~Success(k, i, c)
<1>1. db[c] \notin {"claimed", "failed"}
  BY DEF Waiting
<1>2. runs[c] = 0
  BY DEF OnceInv, WaitingNotSent
<1>3. ended[c] = "no"
  BY <1>2 DEF LifeInv, NotYet
<1>4. \A k \in Conns : ~Holds(k, c)
  BY <1>1 DEF LifeInv, HeldIsClaimed
<1>5. \A k \in Conns : c \notin awaiting[k]
  BY <1>3 DEF LifeInv, AwaitedOnce
<1>6. \A k \in Conns, i \in Nat : ~Answer(k, i, c)
  BY DEF LifeInv, AnsweredIsSent
<1>. QED  BY <1>4, <1>5, <1>6 DEF Success

LEMMA LifeEnqueue ==
  ASSUME TypeOK, OnceInv, LifeInv, NEW c \in Commands, enqueueCommand(c)
  PROVE  LifeInv'
<1>. USE DEF counters, clientVars, queueVars
<1>1. /\ UNCHANGED <<up, workers, link, toWorker, toQueue, running, awaiting, runs, ended>>
      /\ db[c] = "none"
      /\ db' = [db EXCEPT ![c] = "pending"]
      /\ \A b \in Commands : b # c => waiters'[b] = waiters[b]
  BY DEF enqueueCommand, TypeOK
<1>2. \A b \in Commands : b # c => db'[b] = db[b]
  BY <1>1 DEF TypeOK
<1>3. db'[c] = "pending"
  BY <1>1 DEF TypeOK
<1>4. \A k \in Conns : ~Holds(k, c) /\ \A i \in Nat : ~Answer(k, i, c) /\ ~Success(k, i, c)
  BY <1>1, WaitingIsNowhere DEF Waiting
<1>5. \A k \in Conns, b \in Commands : Holds(k, b)' <=> Holds(k, b)
  BY <1>1 DEF Holds, OnWire
<1>6. \A j \in Conns, i \in Nat, b \in Commands :
        (Answer(j, i, b)' <=> Answer(j, i, b)) /\ (Success(j, i, b)' <=> Success(j, i, b))
  BY <1>1, AnswersStay
<1>7. Links' /\ RunsOnce'
  BY <1>1 DEF LifeInv, Links, RunsOnce
<1>8. NotYet'
  BY <1>1, <1>2, <1>3 DEF LifeInv, NotYet
<1>9. HeldIsClaimed'
  BY <1>1, <1>2, <1>4, <1>5, <1>6 DEF LifeInv, HeldIsClaimed
<1>10. AnsweredIsSent'
  BY <1>2, <1>4, <1>6 DEF LifeInv, AnsweredIsSent, Waiting
<1>11. SuccessFirst'
  BY <1>1, <1>2, <1>4, <1>6 DEF LifeInv, SuccessFirst
<1>12. AwaitedOnce'
  BY <1>1, <1>6 DEF LifeInv, AwaitedOnce
<1>. QED  BY <1>7, <1>8, <1>9, <1>10, <1>11, <1>12 DEF LifeInv

(* What dispatch does to a row that can be sent. *)
LEMMA DispatchSends ==
  ASSUME TypeOK, OnceInv, NEW c \in Commands, Visit(c), Dispatchable(c)
  PROVE  /\ workers[Target[c]] \in Conns /\ up
         /\ db[c] = "pending"
         /\ db' = [db EXCEPT ![c] = "claimed"]
         /\ pendingCommands' = [pendingCommands EXCEPT ![c] = "claimed"]
         /\ toWorker' = [toWorker EXCEPT ![workers[Target[c]]] =
                           IF link[workers[Target[c]]] = "open" THEN Append(@, c) ELSE @]
<1>1. up /\ dispatch(c)
  BY DEF Visit
<1>2. pendingCommands[c] = "pending" /\ workers[Target[c]] \in Conns
  BY BusAssumption DEF Dispatchable, TypeOK
<1>3. db[c] = "pending"
  BY <1>1, <1>2 DEF OnceInv, RowsMatchTable, TypeOK
<1>. QED  BY <1>1, <1>2, <1>3 DEF dispatch, claimCommand

LEMMA LifeVisit ==
  ASSUME TypeOK, OnceInv, LifeInv, NEW c \in Commands, Visit(c)
  PROVE  LifeInv'
<1>. USE DEF counters, clientVars, queueVars
<1>1. UNCHANGED <<up, workers, waiters, link, toQueue, running, awaiting, runs, ended>>
  BY DEF Visit
<1>2. \A j \in Conns, i \in Nat, b \in Commands :
        (Answer(j, i, b)' <=> Answer(j, i, b)) /\ (Success(j, i, b)' <=> Success(j, i, b))
  BY <1>1, AnswersStay
<1>3. CASE ~Dispatchable(c)
  <2>1. UNCHANGED <<db, toWorker>>
    BY <1>3 DEF Visit
  <2>2. \A k \in Conns, b \in Commands : Holds(k, b)' <=> Holds(k, b)
    BY <1>1, <2>1 DEF Holds, OnWire
  <2>3. Links' /\ NotYet' /\ RunsOnce' /\ AwaitedOnce'
    BY <1>1, <1>2, <2>1 DEF LifeInv, Links, NotYet, RunsOnce, AwaitedOnce
  <2>4. HeldIsClaimed' /\ AnsweredIsSent' /\ SuccessFirst'
    BY <1>1, <1>2, <2>1, <2>2 DEF LifeInv, HeldIsClaimed, AnsweredIsSent, SuccessFirst, Waiting
  <2>. QED  BY <2>3, <2>4 DEF LifeInv
<1>4. CASE Dispatchable(c)
  <2>. DEFINE k == workers[Target[c]]
  <2>1. /\ k \in Conns
        /\ db[c] = "pending"
        /\ db' = [db EXCEPT ![c] = "claimed"]
        /\ toWorker' = [toWorker EXCEPT ![k] = IF link[k] = "open" THEN Append(@, c) ELSE @]
    BY <1>4, DispatchSends
  <2>. HIDE DEF k
  <2>2. \A b \in Commands : b # c => db'[b] = db[b]
    BY <2>1 DEF TypeOK
  <2>3. db'[c] = "claimed"
    BY <2>1 DEF TypeOK
  <2>4. \A j \in Conns : /\ ~Holds(j, c) /\ c \notin awaiting[j]
                         /\ \A i \in Nat : ~Answer(j, i, c) /\ ~Success(j, i, c)
    BY <2>1, WaitingIsNowhere DEF Waiting
  <2>5. \A j \in Conns, i \in Nat, b \in Commands :
          OnWire(j, i, b)' => OnWire(j, i, b) \/ b = c
    BY <2>1, WireGrows
  <2>6. \A j \in Conns, b \in Commands : Holds(j, b)' => Holds(j, b) \/ b = c
    BY <1>1, <2>5 DEF Holds
  <2>7. \A j \in Conns : j # k \/ link[j] # "open" => toWorker'[j] = toWorker[j]
    BY <2>1 DEF TypeOK
  <2>8. Links'
    BY <1>1, <2>7 DEF LifeInv, Links
  <2>9. NotYet' /\ RunsOnce' /\ AwaitedOnce'
    BY <1>1, <1>2, <2>2, <2>3 DEF LifeInv, NotYet, RunsOnce, AwaitedOnce
  <2>10. HeldIsClaimed'
    BY <1>1, <1>2, <2>2, <2>3, <2>4, <2>6 DEF LifeInv, HeldIsClaimed
  <2>11. AnsweredIsSent'
    BY <1>2, <2>2, <2>3 DEF LifeInv, AnsweredIsSent, Waiting
  <2>12. SuccessFirst'
    <3>1. \A j \in Conns, b \in Commands, i \in Nat : Success(j, i, b) => b # c
      BY <2>4
    <3>2. UNCHANGED ended
      BY <1>1
    <3>3. \A j \in Conns, b \in Commands, i \in Nat : Success(j, i, b) => db'[b] = db[b]
      BY <2>2, <3>1
    <3>. QED  BY <1>2, <3>2, <3>3 DEF LifeInv, SuccessFirst
  <2>. QED  BY <2>8, <2>9, <2>10, <2>11, <2>12 DEF LifeInv
<1>. QED  BY <1>3, <1>4

(* Receiving a frame that is no answer, on a connection that is now the    *)
(* worker of its role or not.                                              *)
LEMMA LifeReceive ==
  ASSUME TypeOK, LifeInv, NEW k \in Conns, NEW t, Receiving(k, t),
         workers' = workers \/ workers' = [workers EXCEPT ![RoleOf[k]] = k],
         UNCHANGED <<db, up, waiters, link, toWorker, running, awaiting, runs, ended>>
  PROVE  LifeInv'
<1>1. \A j \in Conns, i \in Nat, b \in Commands :
        /\ Answer(j, i, b)' <=> IF j = k THEN i # 0 /\ Answer(k, i + 1, b) ELSE Answer(j, i, b)
        /\ Success(j, i, b)' <=> IF j = k THEN i # 0 /\ Success(k, i + 1, b) ELSE Success(j, i, b)
  BY AnswersShrink
<1>2. \A j \in Conns, b \in Commands : Holds(j, b)' <=> Holds(j, b)
  BY DEF Holds, OnWire
<1>3. link[k] \in {"open", "gone"} /\ \A j \in Conns : j # k => toQueue'[j] = toQueue[j]
  BY DEF Receiving, TypeOK
<1>4. Links'
  <2>1. RoleOf[k] \in Roles /\ k # None
    BY BusAssumption
  <2>2. \A r \in Roles : workers'[r] = workers[r] \/ (r = RoleOf[k] /\ workers'[r] = k)
    BY <2>1 DEF TypeOK
  <2>. QED  BY <1>3, <2>1, <2>2 DEF LifeInv, Links
<1>5. NotYet' /\ RunsOnce'
  BY DEF LifeInv, NotYet, RunsOnce
<1>6. HeldIsClaimed'
  BY <1>1, <1>2 DEF LifeInv, HeldIsClaimed
<1>7. AnsweredIsSent'
  BY <1>1 DEF LifeInv, AnsweredIsSent, Waiting
<1>8. SuccessFirst'
  BY <1>1 DEF LifeInv, SuccessFirst
<1>9. AwaitedOnce'
  BY <1>1 DEF LifeInv, AwaitedOnce
<1>. QED  BY <1>4, <1>5, <1>6, <1>7, <1>8, <1>9 DEF LifeInv

(* The answer that is taken is the first of its connection, and the only   *)
(* success of its command.                                                 *)
LEMMA HeadAnswers ==
  ASSUME TypeOK, NEW k \in Conns, completeCommand(k)
  PROVE  /\ Head(toQueue[k]).command \in Commands
         /\ Head(toQueue[k]).ok \in BOOLEAN
         /\ Answer(k, 1, Head(toQueue[k]).command)
         /\ Head(toQueue[k]).ok => Success(k, 1, Head(toQueue[k]).command)
<1>1. Receiving(k, "complete")
  BY DEF completeCommand
<1>2. Head(toQueue[k]) \in Frame /\ Head(toQueue[k]).type = "complete"
  BY <1>1, ReceiveType
<1>3. toQueue[k] \in Seq(Frame) /\ toQueue[k] # <<>>
  BY <1>1 DEF Receiving, TypeOK
<1>4. 1 \in 1..Len(toQueue[k]) /\ toQueue[k][1] = Head(toQueue[k])
  BY <1>3
<1>5. Head(toQueue[k]).command \in Commands /\ Head(toQueue[k]).ok \in BOOLEAN
  BY <1>2, FrameTypes
<1>. QED  BY <1>2, <1>4, <1>5, Zenon DEF Answer, Success

LEMMA LifeComplete ==
  ASSUME TypeOK, OnceInv, LifeInv, NEW k \in Conns, completeCommand(k)
  PROVE  LifeInv'
<1>. USE DEF counters, clientVars, queueVars
<1>. PICK c \in Commands, ok \in BOOLEAN : c = Head(toQueue[k]).command /\ ok = Head(toQueue[k]).ok
  BY HeadAnswers
<1>1. c \in Commands /\ ok \in BOOLEAN /\ Answer(k, 1, c) /\ (ok => Success(k, 1, c))
  BY HeadAnswers
<1>2. /\ db' = [db EXCEPT ![c] = IF ok THEN "completed" ELSE "failed"]
      /\ waiters' = [waiters EXCEPT ![c] =
                       IF @ = "waiting" THEN (IF ok THEN "ok" ELSE "failed") ELSE @]
      /\ UNCHANGED <<up, workers, link, toWorker, running, awaiting, runs, ended>>
      /\ Receiving(k, "complete")
  BY DEF completeCommand
<1>3. /\ \A b \in Commands : b # c => db'[b] = db[b] /\ waiters'[b] = waiters[b]
      /\ db'[c] \in {"completed", "failed"}
  BY <1>1, <1>2 DEF TypeOK
<1>4. \A j \in Conns, i \in Nat, b \in Commands :
        /\ Answer(j, i, b)' <=> IF j = k THEN i # 0 /\ Answer(k, i + 1, b) ELSE Answer(j, i, b)
        /\ Success(j, i, b)' <=> IF j = k THEN i # 0 /\ Success(k, i + 1, b) ELSE Success(j, i, b)
  BY <1>2, AnswersShrink
<1>5. \A j \in Conns, b \in Commands : Holds(j, b)' <=> Holds(j, b)
  BY <1>2 DEF Holds, OnWire
<1>6. \A j \in Conns : ~Holds(j, c)
  BY <1>1 DEF LifeInv, HeldIsClaimed
<1>7. \A j \in Conns, i \in Nat, b \in Commands : Success(j, i, b)' => b # c
  <2>. SUFFICES ASSUME NEW j \in Conns, NEW i \in Nat, Success(j, i, c)' PROVE FALSE
    OBVIOUS
  <2>1. CASE j = k
    <3>1. Success(k, i + 1, c) /\ i + 1 \in Nat /\ i # 0
      BY <1>1, <1>4, <2>1
    <3>2. 1 >= i + 1
      BY <1>1, <3>1 DEF LifeInv, SuccessFirst
    <3>. QED  BY <3>1, <3>2
  <2>2. CASE j # k
    <3>1. Success(j, i, c)
      BY <1>1, <1>4, <2>2
    <3>. QED  BY <1>1, <2>2, <3>1 DEF LifeInv, SuccessFirst
  <2>. QED  BY <2>1, <2>2
<1>8. Links'
  BY <1>2 DEF LifeInv, Links, Receiving, TypeOK
<1>9. NotYet' /\ RunsOnce'
  BY <1>2, <1>3 DEF LifeInv, NotYet, RunsOnce
<1>10. HeldIsClaimed'
  BY <1>2, <1>3, <1>4, <1>5, <1>6 DEF LifeInv, HeldIsClaimed
<1>11. AnsweredIsSent'
  BY <1>3, <1>4 DEF LifeInv, AnsweredIsSent, Waiting
<1>12. SuccessFirst'
  <2>1. \A j \in Conns, b \in Commands, i \in Nat : Success(j, i, b)' =>
          db'[b] = "claimed" /\ ended'[b] = "ok"
    BY <1>2, <1>3, <1>4, <1>7 DEF LifeInv, SuccessFirst
  <2>2. \A j \in Conns, b \in Commands, i \in Nat : Success(j, i, b)' =>
          \A n \in Conns, m \in Nat : Answer(n, m, b)' =>
            n = j /\ m >= i /\ (Success(n, m, b)' => m = i)
    <3>. SUFFICES ASSUME NEW j \in Conns, NEW b \in Commands, NEW i \in Nat, Success(j, i, b)',
                         NEW n \in Conns, NEW m \in Nat, Answer(n, m, b)'
                  PROVE  n = j /\ m >= i /\ (Success(n, m, b)' => m = i)
      OBVIOUS
    <3>1. Success(j, IF j = k THEN i + 1 ELSE i, b) /\ Answer(n, IF n = k THEN m + 1 ELSE m, b)
      BY <1>4
    <3>2. Success(n, m, b)' => Success(n, IF n = k THEN m + 1 ELSE m, b)
      BY <1>4
    <3>. QED  BY <3>1, <3>2 DEF LifeInv, SuccessFirst
  <2>. QED  BY <2>1, <2>2 DEF SuccessFirst
<1>13. AwaitedOnce'
  BY <1>2, <1>4 DEF LifeInv, AwaitedOnce
<1>. QED  BY <1>8, <1>9, <1>10, <1>11, <1>12, <1>13 DEF LifeInv

(* A step that empties connections, perhaps all, and takes nothing else    *)
(* from the workers than acknowledgements they wait for.                   *)
LEMMA LifeCut ==
  ASSUME TypeOK, LifeInv, Links', NotYet',
         \A j \in Conns : toQueue'[j] = toQueue[j] \/ toQueue'[j] = <<>>,
         \A j \in Conns : awaiting'[j] \subseteq awaiting[j],
         \A j \in Conns : link'[j] = "open" => link[j] = "open",
         UNCHANGED <<db, toWorker, running, runs, ended>>
  PROVE  LifeInv'
<1>1. \A j \in Conns, i \in Nat, b \in Commands :
        (Answer(j, i, b)' => Answer(j, i, b)) /\ (Success(j, i, b)' => Success(j, i, b))
  BY DEF Answer, Success
<1>2. \A j \in Conns, b \in Commands : Holds(j, b)' <=> Holds(j, b)
  BY DEF Holds, OnWire
<1>3. RunsOnce' /\ AwaitedOnce'
  BY <1>1 DEF LifeInv, RunsOnce, AwaitedOnce
<1>4. HeldIsClaimed'
  BY <1>1, <1>2 DEF LifeInv, HeldIsClaimed
<1>5. AnsweredIsSent'
  BY <1>1 DEF LifeInv, AnsweredIsSent, Waiting
<1>6. SuccessFirst'
  BY <1>1 DEF LifeInv, SuccessFirst
<1>. QED  BY <1>3, <1>4, <1>5, <1>6 DEF LifeInv

LEMMA LifeClose ==
  ASSUME TypeOK, LifeInv, NEW k \in Conns, closeSocket(k)
  PROVE  LifeInv'
<1>. USE DEF counters, clientVars, queueVars
<1>1. /\ link[k] = "gone"
      /\ link' = [link EXCEPT ![k] = "closed"]
      /\ toQueue' = [toQueue EXCEPT ![k] = <<>>]
      /\ IF workers[RoleOf[k]] = k THEN workers' = [workers EXCEPT ![RoleOf[k]] = None]
         ELSE UNCHANGED workers
      /\ UNCHANGED <<db, up, waiters, toWorker, running, awaiting, runs, ended>>
  BY DEF closeSocket
<1>2. RoleOf[k] \in Roles /\ None \notin Conns
  BY BusAssumption
<1>3. \A r \in Roles : workers'[r] = None \/ (workers'[r] = workers[r] /\ workers[r] # k)
  BY <1>1, <1>2 DEF TypeOK, LifeInv, Links
<1>4. Links'
  <2>1. ~up => \A j \in Conns : link'[j] \notin {"open", "gone"}
    BY <1>1 DEF LifeInv, Links, TypeOK
  <2>2. \A j \in Conns : link'[j] \notin {"open", "gone"} => toQueue'[j] = <<>>
    BY <1>1 DEF LifeInv, Links, TypeOK
  <2>3. \A j \in Conns : link'[j] \notin {"open", "dead"} =>
          toWorker'[j] = <<>> /\ running'[j] = {} /\ awaiting'[j] = {}
    BY <1>1 DEF LifeInv, Links, TypeOK
  <2>4. \A r \in Roles : workers'[r] # None =>
          RoleOf[workers'[r]] = r /\ link'[workers'[r]] \in {"open", "gone"}
    BY <1>1, <1>3 DEF LifeInv, Links, TypeOK
  <2>. QED  BY <1>1, <2>1, <2>2, <2>3, <2>4 DEF Links
<1>5. NotYet'
  BY <1>1 DEF LifeInv, NotYet
<1>6. \A j \in Conns : toQueue'[j] = toQueue[j] \/ toQueue'[j] = <<>>
  BY <1>1 DEF TypeOK
<1>7. \A j \in Conns : link'[j] = "open" => link[j] = "open"
  BY <1>1 DEF TypeOK
<1>. QED  BY <1>1, <1>4, <1>5, <1>6, <1>7, LifeCut

LEMMA LifeStop ==
  ASSUME TypeOK, LifeInv, stop
  PROVE  LifeInv'
<1>1. /\ UNCHANGED <<db, toWorker, running, runs, ended>>
      /\ ~up'
      /\ workers' = [r \in Roles |-> None]
      /\ waiters' = [c \in Commands |-> IF waiters[c] = "waiting" THEN "failed" ELSE waiters[c]]
      /\ link' = [k \in Conns |-> IF link[k] = "open" THEN "dead"
                                  ELSE IF link[k] = "gone" THEN "closed" ELSE link[k]]
      /\ toQueue' = [k \in Conns |-> <<>>]
      /\ awaiting' = [k \in Conns |-> {}]
  BY DEF stop
<1>2. Links'
  BY <1>1 DEF LifeInv, Links, TypeOK
<1>3. NotYet'
  BY <1>1 DEF LifeInv, NotYet
<1>4. \A j \in Conns : toQueue'[j] = <<>> /\ awaiting'[j] \subseteq awaiting[j]
  BY <1>1
<1>5. \A j \in Conns : link'[j] = "open" => link[j] = "open"
  BY <1>1
<1>. QED  BY <1>1, <1>2, <1>3, <1>4, <1>5, LifeCut

LEMMA LifeCreate ==
  ASSUME TypeOK, LifeInv, create
  PROVE  LifeInv'
<1>. USE DEF counters, clientVars, queueVars
<1>1. /\ ~up /\ up'
      /\ db' = [c \in Commands |-> Interrupted(db[c])]
      /\ UNCHANGED <<workers, waiters, link, toWorker, toQueue, running, awaiting, runs, ended>>
  BY DEF create
<1>2. \A k \in Conns : link[k] # "open" /\ toQueue[k] = <<>>
  BY <1>1 DEF LifeInv, Links
<1>3. \A j \in Conns, i \in Nat, b \in Commands : ~Answer(j, i, b)' /\ ~Success(j, i, b)'
  BY <1>1, <1>2 DEF Answer, Success
<1>4. \A j \in Conns, b \in Commands : Holds(j, b)' <=> Holds(j, b)
  BY <1>1 DEF Holds, OnWire
<1>5. \A c \in Commands : /\ db'[c] = "none" <=> db[c] = "none"
                          /\ db[c] \in {"claimed", "failed"} => db'[c] = "failed"
  BY <1>1 DEF Interrupted, TypeOK
<1>6. Links' /\ NotYet' /\ RunsOnce'
  <2>1. Links'
    BY <1>1 DEF LifeInv, Links
  <2>2. NotYet'
    BY <1>1, <1>5 DEF LifeInv, NotYet
  <2>3. RunsOnce'
    BY <1>1 DEF LifeInv, RunsOnce
  <2>. QED  BY <2>1, <2>2, <2>3
<1>7. HeldIsClaimed'
  <2>1. UNCHANGED link
    BY <1>1
  <2>. QED  BY <1>2, <1>3, <1>4, <1>5, <2>1 DEF LifeInv, HeldIsClaimed
<1>8. AnsweredIsSent' /\ SuccessFirst'
  BY <1>3 DEF AnsweredIsSent, SuccessFirst
<1>9. AwaitedOnce'
  BY <1>1, <1>3 DEF LifeInv, AwaitedOnce
<1>. QED  BY <1>6, <1>7, <1>8, <1>9 DEF LifeInv

LEMMA QueueStepLife == TypeOK /\ OnceInv /\ LifeInv /\ QueueNext => LifeInv'
<1>. SUFFICES ASSUME TypeOK, OnceInv, LifeInv, QueueNext PROVE LifeInv'
  OBVIOUS
<1>. USE DEF counters, clientVars, queueVars
<1>1. CASE \E c \in Commands : enqueueCommand(c)
  BY <1>1, LifeEnqueue
<1>2. CASE \E c \in Commands : Visit(c)
  BY <1>2, LifeVisit
<1>3. CASE \E k \in Conns : completeCommand(k)
  BY <1>3, LifeComplete
<1>4. CASE \E k \in Conns : closeSocket(k)
  BY <1>4, LifeClose
<1>5. CASE stop
  BY <1>5, LifeStop
<1>6. CASE create
  BY <1>6, LifeCreate
<1>7. CASE \E k \in Conns : ReceiveHello(k)
  BY <1>7, LifeReceive DEF ReceiveHello
<1>8. CASE \E k \in Conns : ReceiveStatus(k)
  BY <1>8, LifeReceive DEF ReceiveStatus
<1>9. ASSUME UNCHANGED <<db, up, workers, link, toWorker, toQueue, running, awaiting, runs, ended>>,
             \A c \in Commands : waiters'[c] = waiters[c] \/ waiters[c] = "waiting"
      PROVE  LifeInv'
  <2>1. Links'
    BY <1>9 DEF LifeInv, Links
  <2>2. NotYet'
    BY <1>9 DEF LifeInv, NotYet
  <2>. QED  BY <1>9, <2>1, <2>2, LifeCut
<1>10. CASE \E c \in Commands : InvokeTimeout(c)
  <2>1. PICK c \in Commands : InvokeTimeout(c)
    BY <1>10
  <2>2. \A b \in Commands : waiters'[b] = waiters[b] \/ waiters[b] = "waiting"
    BY <2>1 DEF InvokeTimeout, TimerRuns, TypeOK
  <2>. QED  BY <1>9, <2>1, <2>2 DEF InvokeTimeout
<1>11. CASE publishChatQueueStatus
  BY <1>9, <1>11 DEF publishChatQueueStatus
<1>12. CASE \E r \in Roles, s \in {"starting", "failed"} : SupervisorStatus(r, s)
  BY <1>9, <1>12 DEF SupervisorStatus
<1>. QED
  BY <1>1, <1>2, <1>3, <1>4, <1>5, <1>6, <1>7, <1>8, <1>10, <1>11, <1>12 DEF QueueNext

LEMMA LifeConnect ==
  ASSUME TypeOK, LifeInv, NEW k \in Conns, connect(k)
  PROVE  LifeInv'
<1>. USE DEF counters, clientVars, queueVars
<1>1. /\ up /\ link[k] = "none"
      /\ link' = [link EXCEPT ![k] = "open"]
      /\ toQueue' = [toQueue EXCEPT ![k] = <<Hello>>]
      /\ UNCHANGED <<db, up, workers, waiters, toWorker, running, awaiting, runs, ended>>
  BY DEF connect
<1>2. toQueue[k] = <<>> /\ toWorker[k] = <<>> /\ running[k] = {}
  BY <1>1 DEF LifeInv, Links
<1>3. \A j \in Conns, i \in Nat, b \in Commands :
        (Answer(j, i, b)' <=> Answer(j, i, b)) /\ (Success(j, i, b)' <=> Success(j, i, b))
  <2>. SUFFICES ASSUME NEW j \in Conns, NEW i \in Nat, NEW b \in Commands
                PROVE  (Answer(j, i, b)' <=> Answer(j, i, b)) /\ (Success(j, i, b)' <=> Success(j, i, b))
    OBVIOUS
  <2>1. CASE j # k
    <3>1. toQueue'[j] = toQueue[j]
      BY <1>1, <2>1 DEF TypeOK
    <3>. QED  BY <3>1 DEF Answer, Success
  <2>2. CASE j = k
    <3>1. toQueue'[j] = <<Hello>> /\ Hello.type # "complete" /\ toQueue[j] = <<>>
      BY <1>1, <1>2, <2>2 DEF TypeOK, Hello
    <3>2. ~Answer(j, i, b)
      BY <3>1 DEF Answer
    <3>3. ~Answer(j, i, b)'
      BY <3>1 DEF Answer
    <3>. QED  BY <3>2, <3>3 DEF Success
  <2>. QED  BY <2>1, <2>2
<1>4. \A j \in Conns, b \in Commands : (Holds(j, b)' <=> Holds(j, b)) /\ ~Holds(k, b)
  BY <1>1, <1>2 DEF Holds, OnWire
<1>5. \A j \in Conns : j # k => link'[j] = link[j] /\ toQueue'[j] = toQueue[j]
  BY <1>1 DEF TypeOK
<1>6. Links'
  BY <1>1, <1>5 DEF LifeInv, Links, TypeOK
<1>7. NotYet' /\ RunsOnce'
  BY <1>1 DEF LifeInv, NotYet, RunsOnce
<1>8. HeldIsClaimed'
  BY <1>1, <1>3, <1>4, <1>5 DEF LifeInv, HeldIsClaimed
<1>9. AnsweredIsSent'
  BY <1>1, <1>3 DEF LifeInv, AnsweredIsSent, Waiting
<1>10. SuccessFirst'
  BY <1>1, <1>3 DEF LifeInv, SuccessFirst
<1>11. AwaitedOnce'
  BY <1>1, <1>3 DEF LifeInv, AwaitedOnce
<1>. QED  BY <1>6, <1>7, <1>8, <1>9, <1>10, <1>11 DEF LifeInv

(* A client step that does not touch the connections' state or what runs,  *)
(* and says nothing new.                                                   *)
LEMMA LifeQuiet ==
  ASSUME TypeOK, LifeInv,
         \A j \in Conns, i \in Nat, b \in Commands :
           (Answer(j, i, b)' <=> Answer(j, i, b)) /\ (Success(j, i, b)' <=> Success(j, i, b)),
         \A j \in Conns : toQueue'[j] = toQueue[j] \/ link[j] = "open",
         \A j \in Conns : awaiting'[j] \subseteq awaiting[j],
         UNCHANGED <<db, up, workers, waiters, link, toWorker, running, runs, ended>>
  PROVE  LifeInv'
<1>1. \A j \in Conns, b \in Commands : Holds(j, b)' <=> Holds(j, b)
  BY DEF Holds, OnWire
<1>2. Links'
  BY DEF LifeInv, Links
<1>3. NotYet' /\ RunsOnce'
  BY DEF LifeInv, NotYet, RunsOnce
<1>4. HeldIsClaimed'
  BY <1>1 DEF LifeInv, HeldIsClaimed
<1>5. AnsweredIsSent'
  BY DEF LifeInv, AnsweredIsSent, Waiting
<1>6. SuccessFirst'
  BY DEF LifeInv, SuccessFirst
<1>7. AwaitedOnce'
  BY DEF LifeInv, AwaitedOnce
<1>. QED  BY <1>2, <1>3, <1>4, <1>5, <1>6, <1>7 DEF LifeInv

(* Sending changes no connection but an open one. *)
LEMMA SendsOnOpen ==
  ASSUME TypeOK, NEW k \in Conns, NEW f, Send(k, f)
  PROVE  \A j \in Conns : toQueue'[j] = toQueue[j] \/ (j = k /\ link[j] = "open")
BY DEF TypeOK, Send

LEMMA LifeBeat ==
  ASSUME TypeOK, LifeInv, NEW k \in Conns, NEW s \in States, NEW required \in BOOLEAN,
         Send(k, Beat(s, required)),
         UNCHANGED <<db, up, workers, waiters, link, toWorker, running, awaiting, runs, ended>>
  PROVE  LifeInv'
<1>1. \A j \in Conns, i \in Nat, b \in Commands :
        (Answer(j, i, b)' <=> Answer(j, i, b)) /\ (Success(j, i, b)' <=> Success(j, i, b))
  BY BeatsAnswerNothing
<1>2. \A j \in Conns : toQueue'[j] = toQueue[j] \/ link[j] = "open"
  BY SendsOnOpen
<1>. QED  BY <1>1, <1>2, LifeQuiet

(* The command a worker takes off its wire is nowhere else, was not        *)
(* started, and nothing is said of it.                                     *)
LEMMA HeadIsFresh ==
  ASSUME TypeOK, OnceInv, LifeInv, NEW k \in Conns, handleCommand(k)
  PROVE  \E c \in Commands :
           /\ c = Head(toWorker[k]) /\ OnWire(k, 1, c) /\ ~Waiting(c)
           /\ runs[c] = 0 /\ ended[c] = "no"
           /\ db[c] \in {"claimed", "failed"} /\ (link[k] = "open" => db[c] = "claimed")
           /\ \A j \in Conns : /\ c \notin running[j] /\ c \notin awaiting[j]
                               /\ \A i \in Nat : ~Answer(j, i, c) /\ ~Success(j, i, c)
           /\ \A j \in Conns, i \in Nat : OnWire(j, i, c) => j = k /\ i = 1
<1>1. toWorker[k] \in Seq(Commands) /\ toWorker[k] # <<>>
  BY DEF TypeOK, handleCommand
<1>2. PICK c \in Commands : c = Head(toWorker[k])
  BY <1>1
<1>3. OnWire(k, 1, c)
  BY <1>1, <1>2 DEF OnWire
<1>4. ~Waiting(c) /\ runs[c] = 0
  BY <1>3 DEF OnceInv, WaitingNotSent, SentNotStarted
<1>5. ended[c] = "no"
  BY <1>4 DEF LifeInv, NotYet
<1>6. Holds(k, c)
  BY <1>3 DEF Holds
<1>7. db[c] \in {"claimed", "failed"} /\ (link[k] = "open" => db[c] = "claimed")
  BY <1>6 DEF LifeInv, HeldIsClaimed
<1>8. \A j \in Conns : c \notin running[j] /\ c \notin awaiting[j]
  BY <1>4, <1>5 DEF LifeInv, RunsOnce, AwaitedOnce
<1>9. \A j \in Conns, i \in Nat : ~Answer(j, i, c) /\ ~Success(j, i, c)
  BY <1>6 DEF LifeInv, HeldIsClaimed, Success
<1>10. \A j \in Conns, i \in Nat : OnWire(j, i, c) => j = k /\ i = 1
  BY <1>3 DEF OnceInv, SentOnce
<1>. QED  BY <1>2, <1>3, <1>4, <1>5, <1>7, <1>8, <1>9, <1>10

LEMMA LifeHandle ==
  ASSUME TypeOK, OnceInv, LifeInv, NEW k \in Conns, handleCommand(k)
  PROVE  LifeInv'
<1>. USE DEF counters, clientVars, queueVars
<1>1. PICK c \in Commands :
        /\ c = Head(toWorker[k]) /\ OnWire(k, 1, c) /\ ~Waiting(c)
        /\ runs[c] = 0 /\ ended[c] = "no"
        /\ db[c] \in {"claimed", "failed"} /\ (link[k] = "open" => db[c] = "claimed")
        /\ \A j \in Conns : /\ c \notin running[j] /\ c \notin awaiting[j]
                            /\ \A i \in Nat : ~Answer(j, i, c) /\ ~Success(j, i, c)
        /\ \A j \in Conns, i \in Nat : OnWire(j, i, c) => j = k /\ i = 1
  BY HeadIsFresh
<1>2. /\ link[k] \in {"open", "dead"}
      /\ toWorker[k] # <<>>
      /\ toWorker' = [toWorker EXCEPT ![k] = Tail(@)]
      /\ UNCHANGED <<db, up, workers, waiters, link, awaiting, ended>>
  BY DEF handleCommand
<1>3. \A j \in Conns, i \in Nat, b \in Commands :
        OnWire(j, i, b)' <=> IF j = k THEN i # 0 /\ OnWire(k, i + 1, b) ELSE OnWire(j, i, b)
  BY <1>2, WireShrinks
<1>4. \A j \in Conns : j # k => toWorker'[j] = toWorker[j]
  BY <1>2 DEF TypeOK
<1>5. CASE handler[k]
  <2>1. /\ running' = [running EXCEPT ![k] = @ \cup {c}]
        /\ runs' = [runs EXCEPT ![c] = @ + 1]
        /\ UNCHANGED toQueue
    BY <1>1, <1>5 DEF handleCommand
  <2>2. \A j \in Conns, i \in Nat, b \in Commands :
          (Answer(j, i, b)' <=> Answer(j, i, b)) /\ (Success(j, i, b)' <=> Success(j, i, b))
    BY <2>1, AnswersStay
  <2>3. /\ runs'[c] = 1
        /\ \A b \in Commands : b # c => runs'[b] = runs[b]
        /\ \A j \in Conns, b \in Commands : b \in running'[j] <=> b \in running[j] \/ (j = k /\ b = c)
    BY <1>1, <2>1 DEF TypeOK
  <2>4. \A j \in Conns, b \in Commands : Holds(j, b)' => Holds(j, b)
    BY <1>1, <1>3, <2>3 DEF Holds
  <2>5. Links'
    BY <1>2, <1>4, <2>1 DEF LifeInv, Links, TypeOK
  <2>6. NotYet'
    BY <1>2, <2>3 DEF LifeInv, NotYet
  <2>7. RunsOnce'
    BY <1>1, <1>2, <2>3 DEF LifeInv, RunsOnce
  <2>8. HeldIsClaimed'
    BY <1>2, <2>2, <2>4 DEF LifeInv, HeldIsClaimed
  <2>9. AnsweredIsSent' /\ SuccessFirst' /\ AwaitedOnce'
    BY <1>2, <2>2 DEF LifeInv, AnsweredIsSent, SuccessFirst, AwaitedOnce, Waiting
  <2>. QED  BY <2>5, <2>6, <2>7, <2>8, <2>9 DEF LifeInv
<1>6. CASE ~handler[k]
  <2>1. Send(k, Completion(c, FALSE)) /\ UNCHANGED <<running, runs>>
    BY <1>1, <1>6 DEF handleCommand, NoHandler
  <2>2. \A j \in Conns, i \in Nat, b \in Commands :
          /\ Answer(j, i, b)' <=>
               \/ Answer(j, i, b)
               \/ link[k] = "open" /\ j = k /\ i = Len(toQueue[k]) + 1 /\ c = b
          /\ Success(j, i, b)' <=> Success(j, i, b)
    BY <2>1, CompletionAnswers
  <2>3. \A j \in Conns, b \in Commands : Holds(j, b)' => Holds(j, b) /\ b # c
    <3>. SUFFICES ASSUME NEW j \in Conns, NEW b \in Commands, Holds(j, b)'
                  PROVE  Holds(j, b) /\ b # c
      OBVIOUS
    <3>1. CASE b \in running'[j]
      BY <1>1, <2>1, <3>1 DEF Holds
    <3>2. CASE \E i \in Nat : OnWire(j, i, b)'
      BY <1>1, <1>3, <3>2 DEF Holds
    <3>. QED  BY <3>1, <3>2 DEF Holds
  <2>4. Links'
    BY <1>2, <1>4, <2>1, SendsOnOpen DEF LifeInv, Links, TypeOK
  <2>5. NotYet' /\ RunsOnce'
    BY <1>2, <2>1 DEF LifeInv, NotYet, RunsOnce
  <2>6. HeldIsClaimed'
    BY <1>2, <2>2, <2>3 DEF LifeInv, HeldIsClaimed
  <2>7. AnsweredIsSent'
    BY <1>1, <1>2, <2>2 DEF LifeInv, AnsweredIsSent, Waiting
  <2>8. SuccessFirst'
    <3>1. \A j \in Conns, b \in Commands, i \in Nat : Success(j, i, b)' => b # c
      BY <1>1, <2>2
    <3>. QED  BY <1>2, <2>2, <3>1 DEF LifeInv, SuccessFirst
  <2>9. AwaitedOnce'
    BY <1>1, <1>2, <2>2 DEF LifeInv, AwaitedOnce
  <2>. QED  BY <2>4, <2>5, <2>6, <2>7, <2>8, <2>9 DEF LifeInv
<1>. QED  BY <1>5, <1>6

(* A running command is on no wire, its row is claimed or failed, and      *)
(* nothing is said of it.                                                  *)
LEMMA RunningIsQuiet ==
  ASSUME TypeOK, OnceInv, LifeInv, NEW k \in Conns, NEW c \in Commands, c \in running[k]
  PROVE  /\ runs[c] = 1 /\ ended[c] = "no" /\ ~Waiting(c)
         /\ db[c] \in {"claimed", "failed"} /\ (link[k] = "open" => db[c] = "claimed")
         /\ \A j \in Conns : /\ (c \in running[j] => j = k) /\ c \notin awaiting[j]
                             /\ \A i \in Nat : ~Answer(j, i, c) /\ ~Success(j, i, c)
         /\ \A j \in Conns, i \in Nat : ~OnWire(j, i, c)
<1>1. runs[c] = 1 /\ ended[c] = "no" /\ \A j \in Conns : c \in running[j] => j = k
  BY DEF LifeInv, RunsOnce
<1>2. Holds(k, c)
  BY DEF Holds
<1>3. /\ db[c] \in {"claimed", "failed"} /\ (link[k] = "open" => db[c] = "claimed")
      /\ \A j \in Conns, i \in Nat : ~Answer(j, i, c)
  BY <1>2 DEF LifeInv, HeldIsClaimed
<1>4. \A j \in Conns : c \notin awaiting[j]
  BY <1>1 DEF LifeInv, AwaitedOnce
<1>5. \A j \in Conns, i \in Nat : ~OnWire(j, i, c)
  BY <1>1 DEF OnceInv, SentNotStarted
<1>6. ~Waiting(c)
  BY <1>3 DEF Waiting
<1>. QED  BY <1>1, <1>3, <1>4, <1>5, <1>6 DEF Success

LEMMA LifeEnds ==
  ASSUME TypeOK, OnceInv, LifeInv, NEW k \in Conns, NEW c \in Commands, NEW ok \in BOOLEAN,
         HandlerEnds(k, c, ok)
  PROVE  LifeInv'
<1>. USE DEF counters, clientVars, queueVars
<1>1. /\ link[k] \in {"open", "dead"}
      /\ c \in running[k]
      /\ running' = [running EXCEPT ![k] = @ \ {c}]
      /\ ended' = [ended EXCEPT ![c] = IF ok THEN "ok" ELSE "error"]
      /\ awaiting' = [awaiting EXCEPT ![k] = IF ok /\ link[k] = "open" THEN @ \cup {c} ELSE @]
      /\ Send(k, Completion(c, ok))
      /\ UNCHANGED <<db, up, workers, waiters, link, toWorker, runs>>
  BY DEF HandlerEnds
<1>2. /\ runs[c] = 1 /\ ended[c] = "no" /\ ~Waiting(c)
      /\ db[c] \in {"claimed", "failed"} /\ (link[k] = "open" => db[c] = "claimed")
      /\ \A j \in Conns : /\ (c \in running[j] => j = k) /\ c \notin awaiting[j]
                          /\ \A i \in Nat : ~Answer(j, i, c) /\ ~Success(j, i, c)
      /\ \A j \in Conns, i \in Nat : ~OnWire(j, i, c)
  BY <1>1, RunningIsQuiet
<1>3. \A j \in Conns, i \in Nat, b \in Commands :
        /\ Answer(j, i, b)' <=>
             \/ Answer(j, i, b)
             \/ link[k] = "open" /\ j = k /\ i = Len(toQueue[k]) + 1 /\ c = b
        /\ Success(j, i, b)' <=>
             \/ Success(j, i, b)
             \/ link[k] = "open" /\ j = k /\ i = Len(toQueue[k]) + 1 /\ c = b /\ ok = TRUE
  BY <1>1, CompletionAnswers
<1>4. /\ \A b \in Commands : b # c => ended'[b] = ended[b]
      /\ ended'[c] = IF ok THEN "ok" ELSE "error"
  BY <1>1 DEF TypeOK
<1>5. \A j \in Conns, b \in Commands : b \in running'[j] => b \in running[j] /\ b # c
  BY <1>1, <1>2 DEF TypeOK
<1>6. \A j \in Conns, b \in Commands : b \in awaiting'[j] =>
        b \in awaiting[j] \/ (b = c /\ j = k /\ ok /\ link[k] = "open")
  BY <1>1 DEF TypeOK
<1>7. \A j \in Conns, b \in Commands : Holds(j, b)' => Holds(j, b) /\ b # c
  BY <1>1, <1>2, <1>5 DEF Holds, OnWire
<1>8. Links'
  <2>1. \A j \in Conns : j # k => running'[j] = running[j] /\ awaiting'[j] = awaiting[j]
    BY <1>1 DEF TypeOK
  <2>2. \A j \in Conns : toQueue'[j] = toQueue[j] \/ (j = k /\ link[j] = "open")
    BY <1>1, SendsOnOpen
  <2>. QED  BY <1>1, <2>1, <2>2 DEF LifeInv, Links
<1>9. NotYet'
  BY <1>1, <1>2, <1>4 DEF LifeInv, NotYet
<1>10. RunsOnce'
  BY <1>1, <1>4, <1>5 DEF LifeInv, RunsOnce
<1>11. HeldIsClaimed'
  BY <1>1, <1>3, <1>7 DEF LifeInv, HeldIsClaimed
<1>12. AnsweredIsSent'
  BY <1>1, <1>2, <1>3 DEF LifeInv, AnsweredIsSent, Waiting
<1>13. SuccessFirst'
  <2>. SUFFICES ASSUME NEW j \in Conns, NEW b \in Commands, NEW i \in Nat, Success(j, i, b)'
                PROVE  /\ db'[b] = "claimed" /\ ended'[b] = "ok"
                       /\ \A n \in Conns, m \in Nat : Answer(n, m, b)' =>
                            n = j /\ m >= i /\ (Success(n, m, b)' => m = i)
    BY DEF SuccessFirst
  <2>1. CASE b = c
    <3>1. j = k /\ i = Len(toQueue[k]) + 1 /\ link[k] = "open" /\ ok
      BY <1>2, <1>3, <2>1
    <3>2. \A n \in Conns, m \in Nat : Answer(n, m, c)' => n = k /\ m = Len(toQueue[k]) + 1
      BY <1>2, <1>3
    <3>. QED  BY <1>1, <1>2, <1>4, <2>1, <3>1, <3>2
  <2>2. CASE b # c
    <3>1. Success(j, i, b)
      BY <1>3, <2>2
    <3>2. \A n \in Conns, m \in Nat : (Answer(n, m, b)' <=> Answer(n, m, b))
                                      /\ (Success(n, m, b)' <=> Success(n, m, b))
      BY <1>3, <2>2
    <3>. QED  BY <1>1, <1>4, <2>2, <3>1, <3>2 DEF LifeInv, SuccessFirst
  <2>. QED  BY <2>1, <2>2
<1>14. AwaitedOnce'
  <2>. SUFFICES ASSUME NEW j \in Conns, NEW b \in Commands, b \in awaiting'[j]
                PROVE  /\ ended'[b] = "ok"
                       /\ \A n \in Conns : b \in awaiting'[n] => n = j
                       /\ \A n \in Conns, i \in Nat : Answer(n, i, b)' => n = j
    BY DEF AwaitedOnce
  <2>1. CASE b = c
    BY <1>2, <1>3, <1>4, <1>6, <2>1
  <2>2. CASE b # c
    BY <1>3, <1>4, <1>6, <2>2 DEF LifeInv, AwaitedOnce
  <2>. QED  BY <2>1, <2>2
<1>. QED  BY <1>8, <1>9, <1>10, <1>11, <1>12, <1>13, <1>14 DEF LifeInv

LEMMA LifeTimeout ==
  ASSUME TypeOK, OnceInv, LifeInv, NEW k \in Conns, NEW c \in Commands, RequestTimeout(k, c)
  PROVE  LifeInv'
<1>. USE DEF counters, clientVars, queueVars
<1>1. /\ c \in awaiting[k]
      /\ awaiting' = [awaiting EXCEPT ![k] = @ \ {c}]
      /\ Send(k, Completion(c, FALSE))
      /\ UNCHANGED <<db, up, workers, waiters, link, toWorker, running, runs, ended>>
  BY DEF RequestTimeout
<1>2. ended[c] = "ok"
  BY <1>1 DEF LifeInv, AwaitedOnce
<1>3. runs[c] # 0 /\ ~Waiting(c)
  BY <1>2 DEF LifeInv, NotYet, OnceInv, WaitingNotSent
<1>4. \A j \in Conns : ~Holds(j, c)
  BY <1>2, <1>3 DEF LifeInv, RunsOnce, OnceInv, SentNotStarted, Holds
<1>5. \A j \in Conns, i \in Nat, b \in Commands :
        /\ Answer(j, i, b)' <=>
             \/ Answer(j, i, b)
             \/ link[k] = "open" /\ j = k /\ i = Len(toQueue[k]) + 1 /\ c = b
        /\ Success(j, i, b)' <=> Success(j, i, b)
  BY <1>1, CompletionAnswers
<1>6. \A j \in Conns, b \in Commands : Holds(j, b)' <=> Holds(j, b)
  BY <1>1 DEF Holds, OnWire
<1>7. \A j \in Conns, b \in Commands : b \in awaiting'[j] => b \in awaiting[j] /\ b # c
  BY <1>1 DEF LifeInv, AwaitedOnce, TypeOK
<1>8. Links'
  <2>1. \A j \in Conns : awaiting'[j] \subseteq awaiting[j]
    BY <1>1 DEF TypeOK
  <2>2. \A j \in Conns : toQueue'[j] = toQueue[j] \/ (j = k /\ link[j] = "open")
    BY <1>1, SendsOnOpen
  <2>. QED  BY <1>1, <2>1, <2>2 DEF LifeInv, Links
<1>9. NotYet' /\ RunsOnce'
  BY <1>1 DEF LifeInv, NotYet, RunsOnce
<1>10. HeldIsClaimed'
  BY <1>1, <1>4, <1>5, <1>6 DEF LifeInv, HeldIsClaimed
<1>11. AnsweredIsSent'
  BY <1>1, <1>3, <1>5 DEF LifeInv, AnsweredIsSent, Waiting
<1>12. SuccessFirst'
  <2>. SUFFICES ASSUME NEW j \in Conns, NEW b \in Commands, NEW i \in Nat, Success(j, i, b)'
                PROVE  /\ db'[b] = "claimed" /\ ended'[b] = "ok"
                       /\ \A n \in Conns, m \in Nat : Answer(n, m, b)' =>
                            n = j /\ m >= i /\ (Success(n, m, b)' => m = i)
    BY DEF SuccessFirst
  <2>1. Success(j, i, b)
    BY <1>5
  <2>2. /\ db[b] = "claimed" /\ ended[b] = "ok"
        /\ \A n \in Conns, m \in Nat : Answer(n, m, b) => n = j /\ m >= i /\ (Success(n, m, b) => m = i)
    BY <2>1 DEF LifeInv, SuccessFirst
  <2>3. b = c => j = k
    BY <1>1, <2>1 DEF LifeInv, AwaitedOnce, Success
  <2>4. i <= Len(toQueue[j])
    BY <2>1 DEF Success, Answer
  <2>5. Len(toQueue[k]) \in Nat
    BY DEF TypeOK
  <2>6. i \in Nat /\ Len(toQueue[k]) + 1 \in Nat
    BY <2>5
  <2>7. ASSUME NEW n \in Conns, NEW m \in Nat, Answer(n, m, b)'
        PROVE  n = j /\ m >= i /\ (Success(n, m, b)' => m = i)
    <3>1. CASE Answer(n, m, b)
      BY <1>5, <2>2, <3>1
    <3>2. CASE n = k /\ m = Len(toQueue[k]) + 1 /\ c = b
      <4>1. n = j /\ m >= i
        BY <2>3, <2>4, <2>5, <3>2
      <4>2. Success(n, m, b)' => m = i
        BY <1>5, <2>2 DEF Success
      <4>. QED  BY <4>1, <4>2
    <3>. QED  BY <1>5, <2>7, <3>1, <3>2
  <2>8. db'[b] = "claimed" /\ ended'[b] = "ok"
    BY <1>1, <2>2
  <2>. QED  BY <2>7, <2>8
<1>13. AwaitedOnce'
  BY <1>1, <1>5, <1>7 DEF LifeInv, AwaitedOnce
<1>. QED  BY <1>8, <1>9, <1>10, <1>11, <1>12, <1>13 DEF LifeInv

LEMMA LifeExit ==
  ASSUME TypeOK, OnceInv, LifeInv, NEW k \in Conns, Exit(k)
  PROVE  LifeInv'
<1>. USE DEF counters, clientVars, queueVars
<1>1. /\ link[k] \in {"open", "dead"}
      /\ link' = [link EXCEPT ![k] = IF @ = "open" THEN "gone" ELSE "closed"]
      /\ toWorker' = [toWorker EXCEPT ![k] = <<>>]
      /\ running' = [running EXCEPT ![k] = {}]
      /\ awaiting' = [awaiting EXCEPT ![k] = {}]
      /\ UNCHANGED <<db, up, workers, waiters, runs, ended, toQueue>>
  BY DEF Exit
<1>2. \A j \in Conns, i \in Nat, b \in Commands :
        (Answer(j, i, b)' <=> Answer(j, i, b)) /\ (Success(j, i, b)' <=> Success(j, i, b))
  BY <1>1, AnswersStay
<1>3. \A j \in Conns : /\ running'[j] \subseteq running[j]
                       /\ awaiting'[j] \subseteq awaiting[j]
                       /\ toWorker'[j] = toWorker[j] \/ toWorker'[j] = <<>>
  BY <1>1 DEF TypeOK
<1>4. \A j \in Conns, b \in Commands : Holds(j, b)' => Holds(j, b)
  BY <1>3 DEF Holds, OnWire
<1>5. \A j \in Conns : j # k => /\ link'[j] = link[j] /\ toWorker'[j] = toWorker[j]
                                /\ running'[j] = running[j] /\ awaiting'[j] = awaiting[j]
  BY <1>1 DEF TypeOK
<1>6. /\ link'[k] = IF link[k] = "open" THEN "gone" ELSE "closed"
      /\ toWorker'[k] = <<>> /\ running'[k] = {} /\ awaiting'[k] = {}
  BY <1>1 DEF TypeOK
<1>7. Links'
  <2>1. \A j \in Conns : link'[j] \in {"open", "gone"} <=> link[j] \in {"open", "gone"}
    BY <1>1, <1>5, <1>6
  <2>2. \A r \in Roles : workers[r] # None => workers[r] \in Conns
    BY DEF TypeOK
  <2>3. \A j \in Conns : link'[j] \notin {"open", "dead"} =>
          toWorker'[j] = <<>> /\ running'[j] = {} /\ awaiting'[j] = {}
    BY <1>5, <1>6 DEF LifeInv, Links
  <2>. QED  BY <1>1, <2>1, <2>2, <2>3 DEF LifeInv, Links
<1>8. NotYet' /\ RunsOnce'
  BY <1>1, <1>3 DEF LifeInv, NotYet, RunsOnce
<1>9. HeldIsClaimed'
  BY <1>1, <1>2, <1>4, <1>5, <1>6 DEF LifeInv, HeldIsClaimed
<1>10. AnsweredIsSent' /\ SuccessFirst'
  BY <1>1, <1>2 DEF LifeInv, AnsweredIsSent, SuccessFirst, Waiting
<1>11. AwaitedOnce'
  BY <1>1, <1>2, <1>3 DEF LifeInv, AwaitedOnce
<1>. QED  BY <1>7, <1>8, <1>9, <1>10, <1>11 DEF LifeInv

LEMMA ClientStepLife == TypeOK /\ OnceInv /\ LifeInv /\ ClientNext => LifeInv'
<1>. SUFFICES ASSUME TypeOK, OnceInv, LifeInv, ClientNext PROVE LifeInv'
  OBVIOUS
<1>. USE DEF counters, clientVars, queueVars
<1>1. PICK k \in Conns :
        \/ connect(k)
        \/ \E required \in BOOLEAN : start(k, required)
        \/ \E required \in BOOLEAN, s \in {"starting", "ready"} : heartbeat(k, s, required)
        \/ handleCommand(k)
        \/ \E c \in Commands, ok \in BOOLEAN : HandlerEnds(k, c, ok)
        \/ \E c \in Commands : handleResponse(k, c) \/ RequestTimeout(k, c)
        \/ Exit(k)
  BY DEF ClientNext
<1>2. CASE connect(k)
  BY <1>2, LifeConnect
<1>3. CASE \E required \in BOOLEAN : start(k, required)
  <2>1. PICK required \in BOOLEAN : start(k, required)
    BY <1>3
  <2>2. PICK s \in States : Send(k, Beat(s, required))
    BY <2>1 DEF start, States
  <2>. QED  BY <2>1, <2>2, LifeBeat DEF start
<1>4. CASE \E required \in BOOLEAN, s \in {"starting", "ready"} : heartbeat(k, s, required)
  <2>1. PICK required \in BOOLEAN, s \in {"starting", "ready"} : heartbeat(k, s, required)
    BY <1>4
  <2>2. s \in States /\ Send(k, Beat(s, required))
    BY <2>1 DEF heartbeat, States
  <2>. QED  BY <2>1, <2>2, LifeBeat DEF heartbeat
<1>5. CASE handleCommand(k)
  BY <1>5, LifeHandle
<1>6. CASE \E c \in Commands, ok \in BOOLEAN : HandlerEnds(k, c, ok)
  BY <1>6, LifeEnds
<1>7. CASE \E c \in Commands : handleResponse(k, c)
  <2>1. PICK c \in Commands : handleResponse(k, c)
    BY <1>7
  <2>2. \A j \in Conns : awaiting'[j] \subseteq awaiting[j]
    BY <2>1 DEF handleResponse, TypeOK
  <2>3. UNCHANGED <<db, up, workers, waiters, link, toWorker, toQueue, running, runs, ended>>
    BY <2>1 DEF handleResponse
  <2>. QED  BY <2>2, <2>3, AnswersStay, LifeQuiet
<1>8. CASE \E c \in Commands : RequestTimeout(k, c)
  BY <1>8, LifeTimeout
<1>9. CASE Exit(k)
  BY <1>9, LifeExit
<1>. QED  BY <1>1, <1>2, <1>3, <1>4, <1>5, <1>6, <1>7, <1>8, <1>9

LEMMA LifeInvariant == Spec => []LifeInv
<1>1. LifeInv /\ UNCHANGED vars => LifeInv'
  <2>. SUFFICES ASSUME LifeInv, UNCHANGED vars PROVE LifeInv'
    OBVIOUS
  <2>1. UNCHANGED <<db, up, workers, waiters, link, toWorker, toQueue, running, awaiting, runs, ended>>
    BY DEF vars, queueVars, clientVars
  <2>. QED  BY <2>1 DEF LifeInv, Links, NotYet, RunsOnce, HeldIsClaimed, AnsweredIsSent,
                        SuccessFirst, AwaitedOnce, Holds, OnWire, Answer, Success, Waiting
<1>2. TypeOK /\ OnceInv /\ LifeInv /\ [Next]_vars => LifeInv'
  BY <1>1, QueueStepLife, ClientStepLife DEF Next
<1>. QED  BY InitLife, <1>2, TypeCorrect, OnceInvariant, PTL DEF Spec
-----------------------------------------------------------------------------
(***************************************************************************)
(* The bus implements CommandLifecycle: every step of queue-service, of a  *)
(* worker or of a connection is one step of one command's life, or none.   *)
(***************************************************************************)
LEMMA QueueStepRefines ==
  TypeOK /\ OnceInv /\ LifeInv /\ QueueNext => Lifecycle!Next \/ UNCHANGED Lifecycle!vars
<1>. SUFFICES ASSUME TypeOK, OnceInv, LifeInv, QueueNext
              PROVE  Lifecycle!Next \/ UNCHANGED Lifecycle!vars
  OBVIOUS
<1>. USE DEF counters, clientVars, queueVars
<1>0. ASSUME UNCHANGED <<db, runs, ended, waiters>> PROVE UNCHANGED Lifecycle!vars
  BY <1>0 DEF Lifecycle!vars
<1>1. CASE \E c \in Commands : enqueueCommand(c)
  <2>1. PICK c \in Commands : enqueueCommand(c)
    BY <1>1
  <2>2. waiters[c] = "none"
    BY <2>1 DEF enqueueCommand, LifeInv, NotYet
  <2>3. \E t \in {"none", "waiting"} : waiters' = [waiters EXCEPT ![c] = t]
    BY <2>1, <2>2 DEF enqueueCommand
  <2>4. Lifecycle!Submit(c)
    BY <2>1, <2>3 DEF Lifecycle!Submit, enqueueCommand
  <2>. QED  BY <2>4 DEF Lifecycle!Next
<1>2. CASE \E c \in Commands : Visit(c)
  <2>1. PICK c \in Commands : Visit(c)
    BY <1>2
  <2>2. UNCHANGED <<runs, ended, waiters>>
    BY <2>1 DEF Visit
  <2>3. CASE Dispatchable(c)
    <3>1. db[c] = "pending" /\ db' = [db EXCEPT ![c] = "claimed"]
      BY <2>1, <2>3, DispatchSends
    <3>2. Lifecycle!Claim(c)
      BY <2>2, <3>1 DEF Lifecycle!Claim
    <3>. QED  BY <3>2 DEF Lifecycle!Next
  <2>4. CASE ~Dispatchable(c)
    BY <1>0, <2>1, <2>2, <2>4 DEF Visit
  <2>. QED  BY <2>3, <2>4
<1>3. CASE \E k \in Conns : completeCommand(k)
  <2>1. PICK k \in Conns : completeCommand(k)
    BY <1>3
  <2>2. PICK c \in Commands, ok \in BOOLEAN :
          /\ c = Head(toQueue[k]).command /\ ok = Head(toQueue[k]).ok
          /\ Answer(k, 1, c) /\ (ok => Success(k, 1, c))
    BY <2>1, HeadAnswers
  <2>3. /\ db' = [db EXCEPT ![c] = IF ok THEN "completed" ELSE "failed"]
        /\ waiters' = [waiters EXCEPT ![c] =
                         IF @ = "waiting" THEN (IF ok THEN "ok" ELSE "failed") ELSE @]
        /\ UNCHANGED <<runs, ended>>
    BY <2>1, <2>2 DEF completeCommand
  <2>4. CASE ok
    <3>1. db[c] = "claimed" /\ ended[c] = "ok"
      BY <2>2, <2>4 DEF LifeInv, SuccessFirst
    <3>2. Lifecycle!Complete(c)
      BY <2>3, <2>4, <3>1 DEF Lifecycle!Complete, Lifecycle!Told
    <3>. QED  BY <3>2 DEF Lifecycle!Next
  <2>5. CASE ~ok
    <3>1. db[c] \in {"claimed", "completed", "failed"}
      BY <2>2 DEF LifeInv, AnsweredIsSent, Waiting, TypeOK
    <3>2. Lifecycle!Fail(c)
      BY <2>3, <2>5, <3>1 DEF Lifecycle!Fail, Lifecycle!Told
    <3>. QED  BY <3>2 DEF Lifecycle!Next
  <2>. QED  BY <2>4, <2>5
<1>4. CASE \E c \in Commands : InvokeTimeout(c)
  <2>1. PICK c \in Commands : InvokeTimeout(c)
    BY <1>4
  <2>2. Lifecycle!Timeout(c)
    BY <2>1 DEF InvokeTimeout, TimerRuns, Lifecycle!Timeout, Lifecycle!Told
  <2>. QED  BY <2>2 DEF Lifecycle!Next
<1>5. CASE stop
  <2>1. Lifecycle!Lost
    BY <1>5 DEF stop, Lifecycle!Lost
  <2>. QED  BY <2>1 DEF Lifecycle!Next
<1>6. CASE create
  <2>1. Lifecycle!Restart
    BY <1>6 DEF create, Interrupted, Lifecycle!Restart
  <2>. QED  BY <2>1 DEF Lifecycle!Next
<1>7. CASE \/ publishChatQueueStatus
           \/ \E k \in Conns : ReceiveHello(k) \/ ReceiveStatus(k) \/ closeSocket(k)
           \/ \E r \in Roles, s \in {"starting", "failed"} : SupervisorStatus(r, s)
  BY <1>0, <1>7 DEF publishChatQueueStatus, ReceiveHello, ReceiveStatus, closeSocket,
                    SupervisorStatus
<1>. QED  BY <1>1, <1>2, <1>3, <1>4, <1>5, <1>6, <1>7 DEF QueueNext

LEMMA ClientStepRefines ==
  TypeOK /\ OnceInv /\ LifeInv /\ ClientNext => Lifecycle!Next \/ UNCHANGED Lifecycle!vars
<1>. SUFFICES ASSUME TypeOK, OnceInv, LifeInv, ClientNext
              PROVE  Lifecycle!Next \/ UNCHANGED Lifecycle!vars
  OBVIOUS
<1>. USE DEF counters, clientVars, queueVars
<1>0. ASSUME UNCHANGED <<db, runs, ended, waiters>> PROVE UNCHANGED Lifecycle!vars
  BY <1>0 DEF Lifecycle!vars
<1>1. PICK k \in Conns :
        \/ connect(k)
        \/ \E required \in BOOLEAN : start(k, required)
        \/ \E required \in BOOLEAN, s \in {"starting", "ready"} : heartbeat(k, s, required)
        \/ handleCommand(k)
        \/ \E c \in Commands, ok \in BOOLEAN : HandlerEnds(k, c, ok)
        \/ \E c \in Commands : handleResponse(k, c) \/ RequestTimeout(k, c)
        \/ Exit(k)
  BY DEF ClientNext
<1>2. CASE handleCommand(k)
  <2>1. PICK c \in Commands :
          /\ c = Head(toWorker[k])
          /\ runs[c] = 0 /\ db[c] \in {"claimed", "failed"}
    BY <1>2, HeadIsFresh
  <2>2. UNCHANGED <<db, ended, waiters>>
    BY <1>2 DEF handleCommand
  <2>3. CASE handler[k]
    <3>1. runs' = [runs EXCEPT ![c] = 1]
      BY <1>2, <2>1, <2>3 DEF handleCommand, TypeOK
    <3>2. Lifecycle!Start(c)
      BY <2>1, <2>2, <3>1 DEF Lifecycle!Start
    <3>. QED  BY <3>2 DEF Lifecycle!Next
  <2>4. CASE ~handler[k]
    BY <1>0, <1>2, <2>2, <2>4 DEF handleCommand
  <2>. QED  BY <2>3, <2>4
<1>3. CASE \E c \in Commands, ok \in BOOLEAN : HandlerEnds(k, c, ok)
  <2>1. PICK c \in Commands, ok \in BOOLEAN : HandlerEnds(k, c, ok)
    BY <1>3
  <2>2. runs[c] = 1 /\ ended[c] = "no"
    BY <2>1 DEF HandlerEnds, LifeInv, RunsOnce
  <2>3. Lifecycle!End(c, IF ok THEN "ok" ELSE "error")
    BY <2>1, <2>2 DEF HandlerEnds, Lifecycle!End
  <2>. QED  BY <2>3 DEF Lifecycle!Next
<1>4. CASE \/ connect(k)
           \/ \E required \in BOOLEAN : start(k, required)
           \/ \E required \in BOOLEAN, s \in {"starting", "ready"} : heartbeat(k, s, required)
           \/ \E c \in Commands : handleResponse(k, c) \/ RequestTimeout(k, c)
           \/ Exit(k)
  BY <1>0, <1>4 DEF connect, start, heartbeat, handleResponse, RequestTimeout, Exit
<1>. QED  BY <1>1, <1>2, <1>3, <1>4

(* Rows, handlers and waiters live as CommandLifecycle says, through every *)
(* lost frame, exit and restart: only a handler that returned completes    *)
(* its command, and only completed is ever rewritten, into failed.         *)
THEOREM RefinesLifecycle == Spec => ImplementsLifecycle
<1>1. Init => Lifecycle!Init
  BY DEF Init, Lifecycle!Init
<1>2. UNCHANGED vars => UNCHANGED Lifecycle!vars
  BY DEF vars, queueVars, clientVars, Lifecycle!vars
<1>3. TypeOK /\ OnceInv /\ LifeInv /\ [Next]_vars => [Lifecycle!Next]_(Lifecycle!vars)
  BY <1>2, QueueStepRefines, ClientStepRefines DEF Next
<1>. QED
  BY <1>1, <1>3, TypeCorrect, OnceInvariant, LifeInvariant, PTL
     DEF Spec, ImplementsLifecycle, Lifecycle!Spec
-----------------------------------------------------------------------------
(***************************************************************************)
(* Nothing that could be sent is left behind.  Each callback that changes  *)
(* a row, a status or a worker ends in a dispatchAll over a copy of the    *)
(* rows; between two rounds of its loop, what could be sent is still in    *)
(* the copy.                                                               *)
(***************************************************************************)
Unvisited == up => \A c \in Commands : Dispatchable(c) => c \in todo

(* A callback that ends in dispatchAll visits whatever could be sent. *)
LEMMA AllRowsVisited ==
  ASSUME todo' = Rows(pendingCommands)'
  PROVE  Unvisited'
BY DEF Unvisited, Dispatchable, Rows

(* A callback that leaves rows and statuses alone can only lose workers. *)
LEMMA NothingNew ==
  ASSUME Unvisited, UNCHANGED <<up, pendingCommands, services, todo>>,
         \A r \in Roles : workers'[r] = workers[r] \/ workers'[r] = None
  PROVE  Unvisited'
<1>1. \A c \in Commands : Target[c] \in Roles
  BY BusAssumption
<1>. QED  BY <1>1 DEF Unvisited, Dispatchable, canDispatch, chatBlocked, chatDependencies

(* A status that is set is either the same as before, or seen by           *)
(* dispatchAll.                                                            *)
LEMMA SetServiceVisits ==
  ASSUME TypeOK, Unvisited, NEW r \in Roles, NEW s, SetService(r, s),
         UNCHANGED <<up, pendingCommands>>,
         \A q \in Roles : workers'[q] = workers[q] \/ workers'[q] = None
  PROVE  Unvisited'
<1>1. CASE services[r] = s
  <2>1. services' = services /\ UNCHANGED todo
    BY <1>1 DEF SetService, TypeOK
  <2>. QED  BY <2>1, NothingNew
<1>2. CASE services[r] # s
  <2>1. todo' = Rows(pendingCommands)'
    BY <1>2 DEF SetService, DispatchAll, Rows
  <2>. QED  BY <2>1, AllRowsVisited
<1>. QED  BY <1>1, <1>2

LEMMA QueueStepVisits == TypeOK /\ OnceInv /\ Unvisited /\ QueueNext => Unvisited'
<1>. SUFFICES ASSUME TypeOK, OnceInv, Unvisited, QueueNext PROVE Unvisited'
  OBVIOUS
<1>. USE DEF counters, clientVars, queueVars
<1>1. CASE \E c \in Commands : enqueueCommand(c)
  BY <1>1, AllRowsVisited DEF enqueueCommand, DispatchAll, Rows
<1>2. CASE \E c \in Commands : Visit(c)
  <2>1. PICK c \in Commands : Visit(c)
    BY <1>2
  <2>2. todo' = todo \ {c} /\ UNCHANGED <<up, workers, services>>
    BY <2>1 DEF Visit
  <2>3. CASE Dispatchable(c)
    <3>1. pendingCommands' = [pendingCommands EXCEPT ![c] = "claimed"]
      BY <2>1, <2>3, DispatchSends
    <3>2. \A b \in Commands : Dispatchable(b)' => Dispatchable(b) /\ b # c
      BY <2>2, <3>1 DEF Dispatchable, canDispatch, TypeOK
    <3>. QED  BY <2>2, <3>2 DEF Unvisited
  <2>4. CASE ~Dispatchable(c)
    <3>1. UNCHANGED pendingCommands
      BY <2>1, <2>4 DEF Visit
    <3>2. \A b \in Commands : Dispatchable(b)' <=> Dispatchable(b)
      BY <2>2, <3>1 DEF Dispatchable, canDispatch
    <3>. QED  BY <2>2, <2>4, <3>2 DEF Unvisited
  <2>. QED  BY <2>3, <2>4
<1>3. CASE \E k \in Conns : completeCommand(k)
  BY <1>3, AllRowsVisited DEF completeCommand, DispatchAll, Rows
<1>4. CASE create
  BY <1>4, AllRowsVisited DEF create, DispatchAll, Rows
<1>5. CASE stop
  BY <1>5 DEF stop, Unvisited
<1>6. CASE \E k \in Conns : ReceiveHello(k)
  BY <1>6, AllRowsVisited DEF ReceiveHello, Rows
<1>7. CASE \E k \in Conns : ReceiveStatus(k)
  <2>1. PICK k \in Conns : ReceiveStatus(k)
    BY <1>7
  <2>2. RoleOf[k] \in Roles
    BY BusAssumption
  <2>3. PICK s : SetService(RoleOf[k], s)
    BY <2>1 DEF ReceiveStatus
  <2>. QED  BY <2>1, <2>2, <2>3, SetServiceVisits DEF ReceiveStatus
<1>8. CASE \E k \in Conns : closeSocket(k)
  <2>1. PICK k \in Conns : closeSocket(k)
    BY <1>8
  <2>2. RoleOf[k] \in Roles
    BY BusAssumption
  <2>3. CASE workers[RoleOf[k]] = k
    <3>1. /\ workers' = [workers EXCEPT ![RoleOf[k]] = None]
          /\ SetService(RoleOf[k], Disconnected)
          /\ UNCHANGED <<up, pendingCommands>>
      BY <2>1, <2>3 DEF closeSocket
    <3>2. \A q \in Roles : workers'[q] = workers[q] \/ workers'[q] = None
      BY <3>1 DEF TypeOK
    <3>. QED  BY <2>2, <3>1, <3>2, SetServiceVisits
  <2>4. CASE workers[RoleOf[k]] # k
    BY <2>1, <2>4, NothingNew DEF closeSocket
  <2>. QED  BY <2>3, <2>4
<1>9. CASE \E r \in Roles, s \in {"starting", "failed"} : SupervisorStatus(r, s)
  <2>1. PICK r \in Roles : \E s : SetService(r, s) /\ UNCHANGED <<up, pendingCommands, workers>>
    BY <1>9 DEF SupervisorStatus
  <2>2. PICK s : SetService(r, s) /\ UNCHANGED <<up, pendingCommands, workers>>
    BY <2>1
  <2>. QED  BY <2>2, SetServiceVisits
<1>10. CASE publishChatQueueStatus \/ \E c \in Commands : InvokeTimeout(c)
  BY <1>10, NothingNew DEF publishChatQueueStatus, InvokeTimeout
<1>. QED  BY <1>1, <1>2, <1>3, <1>4, <1>5, <1>6, <1>7, <1>8, <1>9, <1>10 DEF QueueNext

(* No client touches what dispatchAll reads. *)
LEMMA ClientKeepsQueue ==
  ASSUME ClientNext
  PROVE  UNCHANGED <<db, up, queueVars>>
BY DEF ClientNext, connect, start, heartbeat, handleCommand, HandlerEnds, handleResponse,
       RequestTimeout, Exit

LEMMA UnvisitedInvariant == Spec => []Unvisited
<1>1. Init => Unvisited
  BY BusAssumption DEF Init, Unvisited, Dispatchable
<1>2. Unvisited /\ UNCHANGED <<up, queueVars>> => Unvisited'
  BY NothingNew DEF queueVars
<1>3. TypeOK /\ OnceInv /\ Unvisited /\ [Next]_vars => Unvisited'
  BY <1>2, QueueStepVisits, ClientKeepsQueue DEF Next, vars
<1>. QED  BY <1>1, <1>3, TypeCorrect, OnceInvariant, PTL DEF Spec

(* When a callback has ended, no command that could be sent is left. *)
THEOREM NothingIsStranded == Spec => []NothingStranded
<1>1. Unvisited => NothingStranded
  BY DEF Unvisited, NothingStranded, Idle
<1>. QED  BY <1>1, UnvisitedInvariant, PTL
-----------------------------------------------------------------------------
(***************************************************************************)
(* A claimed command is in somebody's hands: on the wire of a connection   *)
(* of its role, running there, answered there, or the connection broke.    *)
(***************************************************************************)
InHands(c, k) ==
  /\ RoleOf[k] = Target[c]
  /\ \/ link[k] \in {"gone", "closed"}
     \/ link[k] = "open" /\ (Holds(k, c) \/ \E i \in Nat : Answer(k, i, c))

ClaimsHeld == up => \A c \in Commands : db[c] = "claimed" => \E k \in Conns : InHands(c, k)

(* A step that claims nothing keeps every claim held if hands let go of    *)
(* nothing they hold that stays claimed.                                   *)
LEMMA HandsKeep ==
  ASSUME ClaimsHeld, up,
         \A c \in Commands : db'[c] = "claimed" => db[c] = "claimed",
         \A k \in Conns : link[k] \in {"gone", "closed"} => link'[k] \in {"gone", "closed"},
         \A k \in Conns : link[k] = "open" => link'[k] \in {"open", "gone"},
         \A k \in Conns, c \in Commands :
           /\ link'[k] = "open" /\ db'[c] = "claimed"
           /\ Holds(k, c) \/ \E i \in Nat : Answer(k, i, c)
           => Holds(k, c)' \/ \E i \in Nat : Answer(k, i, c)'
  PROVE  ClaimsHeld'
<1>. SUFFICES ASSUME NEW c \in Commands, db'[c] = "claimed" PROVE \E k \in Conns : InHands(c, k)'
  BY DEF ClaimsHeld
<1>1. PICK k \in Conns : InHands(c, k)
  BY DEF ClaimsHeld
<1>2. CASE link[k] \in {"gone", "closed"}
  BY <1>1, <1>2 DEF InHands
<1>3. CASE link[k] = "open"
  BY <1>1, <1>3 DEF InHands
<1>. QED  BY <1>1, <1>2, <1>3 DEF InHands

(* What a connection holds grows with a dispatch. *)
LEMMA ClaimsDispatch ==
  ASSUME TypeOK, OnceInv, LifeInv, ClaimsHeld, NEW c \in Commands, Visit(c)
  PROVE  ClaimsHeld'
<1>. USE DEF counters, clientVars, queueVars
<1>1. up /\ UNCHANGED <<up, link, toQueue, running>>
  BY DEF Visit
<1>2. \A k \in Conns, i \in Nat, b \in Commands : Answer(k, i, b)' <=> Answer(k, i, b)
  BY <1>1, AnswersStay
<1>3. CASE ~Dispatchable(c)
  <2>1. UNCHANGED <<db, toWorker>>
    BY <1>3 DEF Visit
  <2>2. \A k \in Conns, b \in Commands : Holds(k, b)' <=> Holds(k, b)
    BY <1>1, <2>1 DEF Holds, OnWire
  <2>. QED  BY <1>1, <1>2, <2>1, <2>2, HandsKeep
<1>4. CASE Dispatchable(c)
  <2>1. PICK k \in Conns :
          /\ k = workers[Target[c]]
          /\ db' = [db EXCEPT ![c] = "claimed"]
          /\ toWorker' = [toWorker EXCEPT ![k] = IF link[k] = "open" THEN Append(@, c) ELSE @]
    BY <1>4, DispatchSends
  <2>2. RoleOf[k] = Target[c] /\ link[k] \in {"open", "gone"}
    BY <1>4, <2>1, BusAssumption DEF LifeInv, Links, Dispatchable
  <2>3. \A j \in Conns, i \in Nat, b \in Commands :
          OnWire(j, i, b)' <=> \/ OnWire(j, i, b)
                               \/ link[k] = "open" /\ j = k /\ b = c /\ i = Len(toWorker[k]) + 1
    BY <2>1, WireGrows
  <2>4. \A j \in Conns, b \in Commands : Holds(j, b) => Holds(j, b)'
    BY <1>1, <2>3 DEF Holds
  <2>5. Len(toWorker[k]) + 1 \in Nat
    BY DEF TypeOK
  <2>6. InHands(c, k)'
    BY <1>1, <2>2, <2>3, <2>5 DEF InHands, Holds
  <2>7. ASSUME NEW b \in Commands, b # c, db'[b] = "claimed"
        PROVE  \E j \in Conns : InHands(b, j)'
    <3>1. db[b] = "claimed"
      BY <2>1, <2>7 DEF TypeOK
    <3>2. PICK j \in Conns : InHands(b, j)
      BY <1>1, <3>1 DEF ClaimsHeld
    <3>. QED  BY <1>1, <1>2, <2>4, <3>2 DEF InHands
  <2>. QED  BY <2>6, <2>7 DEF ClaimsHeld
<1>. QED  BY <1>3, <1>4

(* Receiving a frame takes no answer but its own. *)
LEMMA ClaimsReceive ==
  ASSUME TypeOK, ClaimsHeld, NEW k \in Conns, NEW t, Receiving(k, t),
         UNCHANGED <<up, link, toWorker, running>>,
         \A c \in Commands : db'[c] = "claimed" => db[c] = "claimed" /\ ~Answer(k, 1, c)
  PROVE  ClaimsHeld'
<1>1. up
  BY DEF Receiving, Idle
<1>2. \A j \in Conns, i \in Nat, b \in Commands :
        Answer(j, i, b)' <=> IF j = k THEN i # 0 /\ Answer(k, i + 1, b) ELSE Answer(j, i, b)
  BY AnswersShrink
<1>3. \A j \in Conns, b \in Commands : Holds(j, b)' <=> Holds(j, b)
  BY DEF Holds, OnWire
<1>4. ASSUME NEW j \in Conns, NEW b \in Commands, db'[b] = "claimed",
             NEW i \in Nat, Answer(j, i, b)
      PROVE  \E m \in Nat : Answer(j, m, b)'
  <2>1. CASE j # k
    BY <1>2, <1>4, <2>1
  <2>2. CASE j = k
    <3>1. i \in Nat /\ i # 0 /\ i # 1
      BY <1>4, <2>2 DEF Answer
    <3>2. i - 1 \in Nat /\ i - 1 # 0 /\ (i - 1) + 1 = i
      BY <3>1
    <3>3. Answer(k, i - 1, b)'
      BY <1>2, <1>4, <2>2, <3>2
    <3>. QED  BY <2>2, <3>2, <3>3
  <2>. QED  BY <2>1, <2>2
<1>5. \A j \in Conns, b \in Commands :
        /\ link'[j] = "open" /\ db'[b] = "claimed"
        /\ Holds(j, b) \/ \E i \in Nat : Answer(j, i, b)
        => Holds(j, b)' \/ \E i \in Nat : Answer(j, i, b)'
  BY <1>3, <1>4
<1>. QED  BY <1>1, <1>5, HandsKeep

(* The answer a head can be: none unless it completes, and only of its own *)
(* command.                                                                *)
LEMMA HeadOnly ==
  ASSUME TypeOK, NEW k \in Conns, NEW t, Receiving(k, t), NEW c \in Commands, Answer(k, 1, c)
  PROVE  t = "complete" /\ c = Head(toQueue[k]).command
<1>1. toQueue[k] \in Seq(Frame) /\ toQueue[k] # <<>> /\ Head(toQueue[k]).type = t
  BY DEF TypeOK, Receiving
<1>2. toQueue[k][1] = Head(toQueue[k])
  BY <1>1
<1>. QED  BY <1>1, <1>2 DEF Answer

LEMMA QueueStepClaims == TypeOK /\ OnceInv /\ LifeInv /\ ClaimsHeld /\ QueueNext => ClaimsHeld'
<1>. SUFFICES ASSUME TypeOK, OnceInv, LifeInv, ClaimsHeld, QueueNext PROVE ClaimsHeld'
  OBVIOUS
<1>. USE DEF counters, clientVars, queueVars
<1>0. ASSUME up, UNCHANGED <<link, toWorker, toQueue, running>>,
             \A c \in Commands : db'[c] = "claimed" => db[c] = "claimed"
      PROVE  ClaimsHeld'
  <2>1. \A j \in Conns, b \in Commands : Holds(j, b)' <=> Holds(j, b)
    BY <1>0 DEF Holds, OnWire
  <2>2. \A j \in Conns, i \in Nat, b \in Commands : Answer(j, i, b)' <=> Answer(j, i, b)
    BY <1>0, AnswersStay
  <2>. QED  BY <1>0, <2>1, <2>2, HandsKeep
<1>1. CASE \E c \in Commands : enqueueCommand(c)
  <2>1. PICK c \in Commands : enqueueCommand(c)
    BY <1>1
  <2>2. \A b \in Commands : db'[b] = "claimed" => db[b] = "claimed"
    BY <2>1 DEF enqueueCommand, TypeOK
  <2>. QED  BY <1>0, <2>1, <2>2 DEF enqueueCommand, Idle
<1>2. CASE \E c \in Commands : Visit(c)
  BY <1>2, ClaimsDispatch
<1>3. CASE \E k \in Conns : completeCommand(k)
  <2>1. PICK k \in Conns : completeCommand(k)
    BY <1>3
  <2>2. PICK c \in Commands, ok \in BOOLEAN :
          c = Head(toQueue[k]).command /\ ok = Head(toQueue[k]).ok
    BY <2>1, HeadAnswers
  <2>3. /\ Receiving(k, "complete")
        /\ db' = [db EXCEPT ![c] = IF ok THEN "completed" ELSE "failed"]
        /\ UNCHANGED <<up, link, toWorker, running>>
    BY <2>1, <2>2 DEF completeCommand
  <2>4. \A b \in Commands : db'[b] = "claimed" => db[b] = "claimed" /\ b # c
    BY <2>3 DEF TypeOK
  <2>5. \A b \in Commands : Answer(k, 1, b) => b = c
    BY <2>2, <2>3, HeadOnly
  <2>. QED  BY <2>3, <2>4, <2>5, ClaimsReceive
<1>4. CASE \E k \in Conns : ReceiveHello(k) \/ ReceiveStatus(k)
  <2>1. PICK k \in Conns, t \in {"hello", "status"} :
          Receiving(k, t) /\ UNCHANGED <<db, up, link, toWorker, running>>
    BY <1>4 DEF ReceiveHello, ReceiveStatus
  <2>2. \A b \in Commands : ~Answer(k, 1, b)
    BY <2>1, HeadOnly
  <2>. QED  BY <2>1, <2>2, ClaimsReceive
<1>5. CASE \E k \in Conns : closeSocket(k)
  <2>1. PICK k \in Conns :
          /\ link[k] = "gone" /\ up
          /\ link' = [link EXCEPT ![k] = "closed"]
          /\ toQueue' = [toQueue EXCEPT ![k] = <<>>]
          /\ UNCHANGED <<db, toWorker, running>>
    BY <1>5 DEF closeSocket, Idle
  <2>2. /\ \A j \in Conns : j # k => link'[j] = link[j] /\ toQueue'[j] = toQueue[j]
        /\ link'[k] = "closed"
    BY <2>1 DEF TypeOK
  <2>3. \A j \in Conns, b \in Commands : Holds(j, b)' <=> Holds(j, b)
    BY <2>1 DEF Holds, OnWire
  <2>4. \A j \in Conns, i \in Nat, b \in Commands : j # k => (Answer(j, i, b)' <=> Answer(j, i, b))
    BY <2>2 DEF Answer
  <2>. QED  BY <2>1, <2>2, <2>3, <2>4, HandsKeep
<1>6. CASE stop
  BY <1>6 DEF stop, ClaimsHeld
<1>7. CASE create
  <2>1. \A c \in Commands : db'[c] # "claimed"
    BY <1>7 DEF create, Interrupted, TypeOK
  <2>. QED  BY <2>1 DEF ClaimsHeld
<1>8. CASE \/ \E c \in Commands : InvokeTimeout(c)
           \/ publishChatQueueStatus
           \/ \E r \in Roles, s \in {"starting", "failed"} : SupervisorStatus(r, s)
  BY <1>0, <1>8 DEF InvokeTimeout, publishChatQueueStatus, SupervisorStatus, Idle
<1>. QED  BY <1>1, <1>2, <1>3, <1>4, <1>5, <1>6, <1>7, <1>8 DEF QueueNext

LEMMA ClientStepClaims == TypeOK /\ OnceInv /\ LifeInv /\ ClaimsHeld /\ ClientNext => ClaimsHeld'
<1>. SUFFICES ASSUME TypeOK, OnceInv, LifeInv, ClaimsHeld, ClientNext, up PROVE ClaimsHeld'
  BY ClientKeepsQueue DEF ClaimsHeld
<1>. USE DEF counters, clientVars, queueVars
<1>1. PICK k \in Conns :
        \/ connect(k)
        \/ \E required \in BOOLEAN : start(k, required)
        \/ \E required \in BOOLEAN, s \in {"starting", "ready"} : heartbeat(k, s, required)
        \/ handleCommand(k)
        \/ \E c \in Commands, ok \in BOOLEAN : HandlerEnds(k, c, ok)
        \/ \E c \in Commands : handleResponse(k, c) \/ RequestTimeout(k, c)
        \/ Exit(k)
  BY DEF ClientNext
<1>2. UNCHANGED db
  BY ClientKeepsQueue
<1>3. CASE connect(k)
  <2>1. /\ link[k] = "none"
        /\ \A j \in Conns : j # k => link'[j] = link[j] /\ toQueue'[j] = toQueue[j]
        /\ UNCHANGED <<toWorker, running>>
    BY <1>3 DEF connect, TypeOK
  <2>2. \A j \in Conns, b \in Commands : Holds(j, b)' <=> Holds(j, b)
    BY <2>1 DEF Holds, OnWire
  <2>3. \A j \in Conns, i \in Nat, b \in Commands : j # k => (Answer(j, i, b)' <=> Answer(j, i, b))
    BY <2>1 DEF Answer
  <2>4. toQueue[k] = <<>> /\ toWorker[k] = <<>> /\ running[k] = {}
    BY <2>1 DEF LifeInv, Links
  <2>5. \A b \in Commands : ~Holds(k, b) /\ \A i \in Nat : ~Answer(k, i, b)
    BY <2>4 DEF Holds, OnWire, Answer
  <2>. QED  BY <1>2, <2>1, <2>2, <2>3, <2>5, HandsKeep
(* A step that only adds answers. *)
<1>4. ASSUME UNCHANGED <<link, toWorker, running>>,
             \A j \in Conns, i \in Nat, b \in Commands : Answer(j, i, b) => Answer(j, i, b)'
      PROVE  ClaimsHeld'
  <2>1. \A j \in Conns, b \in Commands : Holds(j, b)' <=> Holds(j, b)
    BY <1>4 DEF Holds, OnWire
  <2>. QED  BY <1>2, <1>4, <2>1, HandsKeep
<1>5. CASE \E required \in BOOLEAN : start(k, required)
  <2>1. PICK f \in Frame : Send(k, f) /\ UNCHANGED <<link, toWorker, running>>
    BY <1>5, FrameTypes DEF start, States
  <2>. QED  BY <1>4, <2>1, AnswersGrow
<1>6. CASE \E required \in BOOLEAN, s \in {"starting", "ready"} : heartbeat(k, s, required)
  <2>1. PICK f \in Frame : Send(k, f) /\ UNCHANGED <<link, toWorker, running>>
    BY <1>6, FrameTypes DEF heartbeat, States
  <2>. QED  BY <1>4, <2>1, AnswersGrow
<1>7. CASE handleCommand(k)
  <2>1. PICK c \in Commands : c = Head(toWorker[k]) /\ OnWire(k, 1, c)
    BY <1>7, HeadIsFresh
  <2>2. /\ toWorker[k] # <<>>
        /\ toWorker' = [toWorker EXCEPT ![k] = Tail(@)]
        /\ UNCHANGED link
    BY <1>7 DEF handleCommand
  <2>3. \A j \in Conns, i \in Nat, b \in Commands :
          OnWire(j, i, b)' <=> IF j = k THEN i # 0 /\ OnWire(k, i + 1, b) ELSE OnWire(j, i, b)
    BY <2>2, WireShrinks
  <2>4. ASSUME NEW j \in Conns, NEW b \in Commands, NEW i \in Nat, OnWire(j, i, b), j # k \/ b # c
        PROVE  \E m \in Nat : OnWire(j, m, b)'
    <3>1. CASE j # k
      BY <2>3, <2>4, <3>1
    <3>2. CASE j = k
      <4>1. i # 0 /\ i # 1
        BY <2>1, <2>4, <3>2 DEF OnWire
      <4>2. i - 1 \in Nat /\ i - 1 # 0 /\ (i - 1) + 1 = i
        BY <4>1
      <4>. QED  BY <2>3, <2>4, <3>2, <4>2
    <3>. QED  BY <3>1, <3>2
  <2>5. CASE handler[k]
    <3>1. running' = [running EXCEPT ![k] = @ \cup {c}] /\ UNCHANGED toQueue
      BY <1>7, <2>1, <2>5 DEF handleCommand
    <3>2. /\ c \in running'[k]
          /\ \A j \in Conns : running[j] \subseteq running'[j]
      BY <3>1 DEF TypeOK
    <3>3. \A j \in Conns, b \in Commands : Holds(j, b) => Holds(j, b)'
      BY <2>4, <3>2 DEF Holds
    <3>. QED  BY <1>2, <2>2, <3>1, <3>3, AnswersStay, HandsKeep
  <2>6. CASE ~handler[k]
    <3>1. Send(k, Completion(c, FALSE)) /\ UNCHANGED running
      BY <1>7, <2>1, <2>6 DEF handleCommand, NoHandler
    <3>2. \A j \in Conns, i \in Nat, b \in Commands :
            Answer(j, i, b)' <=>
              \/ Answer(j, i, b)
              \/ link[k] = "open" /\ j = k /\ i = Len(toQueue[k]) + 1 /\ c = b
      BY <3>1, CompletionAnswers
    <3>3. Len(toQueue[k]) + 1 \in Nat
      BY DEF TypeOK
    <3>4. link[k] = "open" => \E i \in Nat : Answer(k, i, c)'
      BY <3>2, <3>3
    <3>5. \A j \in Conns, b \in Commands : j # k \/ b # c => (Holds(j, b) => Holds(j, b)')
      BY <2>4, <3>1 DEF Holds
    <3>6. \A j \in Conns, b \in Commands :
            /\ link'[j] = "open" /\ db'[b] = "claimed"
            /\ Holds(j, b) \/ \E i \in Nat : Answer(j, i, b)
            => Holds(j, b)' \/ \E i \in Nat : Answer(j, i, b)'
      BY <2>2, <3>2, <3>4, <3>5
    <3>. QED  BY <1>2, <2>2, <3>6, HandsKeep
  <2>. QED  BY <2>5, <2>6
<1>8. CASE \E c \in Commands, ok \in BOOLEAN : HandlerEnds(k, c, ok)
  <2>1. PICK c \in Commands, ok \in BOOLEAN : HandlerEnds(k, c, ok)
    BY <1>8
  <2>2. /\ running' = [running EXCEPT ![k] = @ \ {c}]
        /\ Send(k, Completion(c, ok))
        /\ UNCHANGED <<link, toWorker>>
    BY <2>1 DEF HandlerEnds
  <2>3. \A j \in Conns, i \in Nat, b \in Commands :
          Answer(j, i, b)' <=>
            \/ Answer(j, i, b)
            \/ link[k] = "open" /\ j = k /\ i = Len(toQueue[k]) + 1 /\ c = b
    BY <2>2, CompletionAnswers
  <2>4. Len(toQueue[k]) + 1 \in Nat
    BY DEF TypeOK
  <2>5. link[k] = "open" => \E i \in Nat : Answer(k, i, c)'
    BY <2>3, <2>4
  <2>6. \A j \in Conns, b \in Commands : j # k \/ b # c => (b \in running[j] => b \in running'[j])
    BY <2>2 DEF TypeOK
  <2>7. \A j \in Conns, b \in Commands : j # k \/ b # c => (Holds(j, b) => Holds(j, b)')
    BY <2>2, <2>6 DEF Holds, OnWire
  <2>8. \A j \in Conns, b \in Commands :
          /\ link'[j] = "open" /\ db'[b] = "claimed"
          /\ Holds(j, b) \/ \E i \in Nat : Answer(j, i, b)
          => Holds(j, b)' \/ \E i \in Nat : Answer(j, i, b)'
    BY <2>2, <2>3, <2>5, <2>7
  <2>. QED  BY <1>2, <2>2, <2>8, HandsKeep
<1>9. CASE \E c \in Commands : handleResponse(k, c)
  BY <1>4, <1>9, AnswersStay DEF handleResponse
<1>10. CASE \E c \in Commands : RequestTimeout(k, c)
  <2>1. PICK f \in Frame : Send(k, f) /\ UNCHANGED <<link, toWorker, running>>
    BY <1>10, FrameTypes DEF RequestTimeout
  <2>. QED  BY <1>4, <2>1, AnswersGrow
<1>11. CASE Exit(k)
  <2>1. /\ link' = [link EXCEPT ![k] = IF @ = "open" THEN "gone" ELSE "closed"]
        /\ link[k] \in {"open", "dead"}
        /\ toWorker' = [toWorker EXCEPT ![k] = <<>>]
        /\ running' = [running EXCEPT ![k] = {}]
        /\ UNCHANGED toQueue
    BY <1>11 DEF Exit
  <2>2. /\ \A j \in Conns : j # k => /\ link'[j] = link[j]
                                     /\ toWorker'[j] = toWorker[j]
                                     /\ running'[j] = running[j]
        /\ link'[k] \in {"gone", "closed"} /\ (link[k] = "open" => link'[k] = "gone")
    BY <2>1 DEF TypeOK
  <2>3. \A j \in Conns, b \in Commands : j # k => (Holds(j, b)' <=> Holds(j, b))
    BY <2>2 DEF Holds, OnWire
  <2>4. \A j \in Conns, i \in Nat, b \in Commands : Answer(j, i, b)' <=> Answer(j, i, b)
    BY <2>1, AnswersStay
  <2>. QED  BY <1>2, <2>2, <2>3, <2>4, HandsKeep
<1>. QED  BY <1>1, <1>3, <1>5, <1>6, <1>7, <1>8, <1>9, <1>10, <1>11

LEMMA ClaimsInvariant == Spec => []ClaimsHeld
<1>1. Init => ClaimsHeld
  BY DEF Init, ClaimsHeld
<1>2. ClaimsHeld /\ UNCHANGED vars => ClaimsHeld'
  BY DEF vars, queueVars, clientVars, ClaimsHeld, InHands, Holds, OnWire, Answer
<1>3. TypeOK /\ OnceInv /\ LifeInv /\ ClaimsHeld /\ [Next]_vars => ClaimsHeld'
  BY <1>2, QueueStepClaims, ClientStepClaims DEF Next
<1>. QED  BY <1>1, <1>3, TypeCorrect, OnceInvariant, LifeInvariant, PTL DEF Spec

(* A claimed command is on its way to a worker, running, or on its way     *)
(* back, unless a connection of its role broke.                            *)
THEOREM ClaimsAccountedFor == Spec => []ClaimAccountedFor
<1>1. \A k \in Conns, c \in Commands : Holds(k, c) => c \in Sent(k) \cup running[k]
  BY DEF Holds, OnWire, Sent
<1>2. \A k \in Conns, c \in Commands, i \in Nat : Answer(k, i, c) => Reported(k, c)
  BY DEF Answer, Reported
<1>3. ClaimsHeld => ClaimAccountedFor
  BY <1>1, <1>2 DEF ClaimsHeld, InHands, ClaimAccountedFor
<1>. QED  BY <1>3, ClaimsInvariant, PTL
-----------------------------------------------------------------------------
(***************************************************************************)
(* Commands for one worker and of one kind start in their order.  They are *)
(* submitted in order; those before a sent one were claimed, because       *)
(* dispatchAll visits the rows in order and skips only what the gate or a  *)
(* missing worker holds back, which is the same for both; and a wire keeps *)
(* the order in which they were sent.                                      *)
(***************************************************************************)
Alike(b, c) == Target[b] = Target[c] /\ (b \in ChatCommands <=> c \in ChatCommands)

SubmittedInOrder == \A b, c \in Commands : b < c /\ db[c] # "none" => db[b] # "none"

EarlierSent ==
  \A k \in Conns, i \in Nat, b, c \in Commands :
    OnWire(k, i, c) /\ b < c /\ Alike(b, c) => ~Waiting(b)

WiresInOrder ==
  \A k \in Conns, i, m \in Nat, b, c \in Commands :
    OnWire(k, i, b) /\ OnWire(k, m, c) /\ i < m /\ Alike(b, c) => b < c

Ordered == SubmittedInOrder /\ EarlierSent /\ WiresInOrder

(* A step that sends nothing keeps the order, if what is left on each wire *)
(* moves up together.                                                      *)
LEMMA OrderKept ==
  ASSUME Ordered,
         \A c \in Commands : Waiting(c)' => Waiting(c),
         SubmittedInOrder',
         \/ UNCHANGED toWorker
         \/ \E k \in Conns : \A j \in Conns, i \in Nat, b \in Commands :
              OnWire(j, i, b)' => IF j = k THEN OnWire(k, i + 1, b) ELSE OnWire(j, i, b)
         \/ \A j \in Conns, i \in Nat, b \in Commands : OnWire(j, i, b)' => OnWire(j, i, b)
  PROVE  Ordered'
<1>1. PICK d \in [Conns -> {0, 1}] :
        \A j \in Conns, i \in Nat, b \in Commands : OnWire(j, i, b)' => OnWire(j, i + d[j], b)
  <2>1. CASE \E k \in Conns : \A j \in Conns, i \in Nat, b \in Commands :
               OnWire(j, i, b)' => IF j = k THEN OnWire(k, i + 1, b) ELSE OnWire(j, i, b)
    <3>1. PICK k \in Conns : \A j \in Conns, i \in Nat, b \in Commands :
            OnWire(j, i, b)' => IF j = k THEN OnWire(k, i + 1, b) ELSE OnWire(j, i, b)
      BY <2>1
    <3>. DEFINE d == [j \in Conns |-> IF j = k THEN 1 ELSE 0]
    <3>2. d \in [Conns -> {0, 1}]
      OBVIOUS
    <3>3. \A j \in Conns : d[j] = IF j = k THEN 1 ELSE 0
      OBVIOUS
    <3>. HIDE DEF d
    <3>4. \A j \in Conns, i \in Nat, b \in Commands : OnWire(j, i, b)' => OnWire(j, i + d[j], b)
      <4>. SUFFICES ASSUME NEW j \in Conns, NEW i \in Nat, NEW b \in Commands, OnWire(j, i, b)'
                    PROVE  OnWire(j, i + d[j], b)
        OBVIOUS
      <4>1. CASE j = k
        BY <3>1, <3>3, <4>1
      <4>2. CASE j # k
        <5>1. i + d[j] = i /\ OnWire(j, i, b)
          BY <3>1, <3>3, <4>2
        <5>. QED  BY <5>1
      <4>. QED  BY <4>1, <4>2
    <3>. QED  BY <3>2, <3>4
  <2>2. CASE \A j \in Conns, i \in Nat, b \in Commands : OnWire(j, i, b)' => OnWire(j, i, b)
    <3>. DEFINE d == [j \in Conns |-> 0]
    <3>1. d \in [Conns -> {0, 1}] /\ \A j \in Conns : d[j] = 0
      OBVIOUS
    <3>. HIDE DEF d
    <3>2. \A j \in Conns, i \in Nat : i + d[j] = i
      BY <3>1
    <3>. QED  BY <2>2, <3>1, <3>2
  <2>3. CASE UNCHANGED toWorker
    <3>1. \A j \in Conns, i \in Nat, b \in Commands : OnWire(j, i, b)' => OnWire(j, i, b)
      BY <2>3 DEF OnWire
    <3>. QED  BY <2>2, <3>1
  <2>. QED  BY <2>1, <2>2, <2>3
<1>2. EarlierSent'
  <2>. SUFFICES ASSUME NEW k \in Conns, NEW i \in Nat, NEW b \in Commands, NEW c \in Commands,
                       OnWire(k, i, c)', b < c, Alike(b, c)
                PROVE  ~Waiting(b)'
    BY DEF EarlierSent, Alike
  <2>1. OnWire(k, i + d[k], c) /\ i + d[k] \in Nat
    BY <1>1
  <2>. QED  BY <2>1 DEF Ordered, EarlierSent
<1>3. WiresInOrder'
  <2>. SUFFICES ASSUME NEW k \in Conns, NEW i \in Nat, NEW m \in Nat,
                       NEW b \in Commands, NEW c \in Commands,
                       OnWire(k, i, b)', OnWire(k, m, c)', i < m, Alike(b, c)
                PROVE  b < c
    BY DEF WiresInOrder, Alike
  <2>1. /\ OnWire(k, i + d[k], b) /\ OnWire(k, m + d[k], c)
        /\ i + d[k] \in Nat /\ m + d[k] \in Nat /\ i + d[k] < m + d[k]
    BY <1>1
  <2>. QED  BY <2>1 DEF Ordered, WiresInOrder
<1>. QED  BY <1>2, <1>3 DEF Ordered

(* A command that is sent goes to the end of its wire, after everything    *)
(* before it: an earlier one of its kind that still waited could be sent   *)
(* too, would be in the copy of the rows, and would be visited first.      *)
LEMMA OrderOfDispatch ==
  ASSUME TypeOK, OnceInv, LifeInv, Unvisited, Ordered, NEW c \in Commands, Visit(c)
  PROVE  Ordered'
<1>1. CASE ~Dispatchable(c)
  <2>1. UNCHANGED <<db, toWorker>>
    BY <1>1 DEF Visit
  <2>. QED  BY <2>1, OrderKept DEF Ordered, SubmittedInOrder, Waiting
<1>2. CASE Dispatchable(c)
  <2>1. PICK k \in Conns :
          /\ k = workers[Target[c]] /\ up /\ db[c] = "pending"
          /\ db' = [db EXCEPT ![c] = "claimed"]
          /\ toWorker' = [toWorker EXCEPT ![k] = IF link[k] = "open" THEN Append(@, c) ELSE @]
    BY <1>2, DispatchSends
  <2>2. \A j \in Conns, i \in Nat, b \in Commands :
          OnWire(j, i, b)' <=> \/ OnWire(j, i, b)
                               \/ link[k] = "open" /\ j = k /\ b = c /\ i = Len(toWorker[k]) + 1
    BY <2>1, WireGrows
  <2>3. \A j \in Conns, i \in Nat : ~OnWire(j, i, c)
    BY <2>1 DEF OnceInv, WaitingNotSent, Waiting
  <2>4. \A b \in Commands : (Waiting(b)' => Waiting(b)) /\ (db'[b] = "none" <=> db[b] = "none")
    BY <2>1 DEF Waiting, TypeOK
  <2>5. ASSUME NEW b \in Commands, b < c, Alike(b, c) PROVE ~Waiting(b)
    <3>1. db[b] # "none"
      BY <2>1, <2>5 DEF Ordered, SubmittedInOrder
    <3>2. CASE db[b] = "pending"
      <4>1. pendingCommands[b] = "pending"
        BY <2>1, <3>2 DEF OnceInv, RowsMatchTable
      <4>2. Dispatchable(b)
        BY <1>2, <2>5, <4>1 DEF Dispatchable, canDispatch, Alike
      <4>3. b \in todo
        BY <2>1, <4>2 DEF Unvisited
      <4>4. c <= b
        BY <4>3 DEF Visit, VisitNext
      <4>. QED  BY <2>5, <4>4 DEF Commands
    <3>. QED  BY <3>1, <3>2 DEF Waiting
  <2>6. SubmittedInOrder'
    BY <2>4 DEF Ordered, SubmittedInOrder
  <2>7. EarlierSent'
    <3>. SUFFICES ASSUME NEW j \in Conns, NEW i \in Nat, NEW b \in Commands, NEW a \in Commands,
                         OnWire(j, i, a)', b < a, Alike(b, a)
                  PROVE  ~Waiting(b)'
      BY DEF EarlierSent, Alike
    <3>1. CASE a = c
      BY <2>4, <2>5, <3>1
    <3>2. CASE a # c
      BY <2>2, <2>4, <3>2 DEF Ordered, EarlierSent
    <3>. QED  BY <3>1, <3>2
  <2>8. WiresInOrder'
    <3>. SUFFICES ASSUME NEW j \in Conns, NEW i \in Nat, NEW m \in Nat,
                         NEW b \in Commands, NEW a \in Commands,
                         OnWire(j, i, b)', OnWire(j, m, a)', i < m, Alike(b, a)
                  PROVE  b < a
      BY DEF WiresInOrder, Alike
    <3>1. CASE OnWire(j, i, b) /\ OnWire(j, m, a)
      BY <3>1 DEF Ordered, WiresInOrder
    <3>2. CASE OnWire(j, i, b) /\ a = c
      <4>1. ~(c < b)
        <5>1. c < b => ~Waiting(c)
          BY <3>2 DEF Ordered, EarlierSent, Alike
        <5>. QED  BY <2>1, <5>1 DEF Waiting
      <4>2. b # c
        BY <2>3, <3>2
      <4>. QED  BY <3>2, <4>1, <4>2 DEF Commands
    <3>3. CASE b = c
      <4>1. j = k /\ i = Len(toWorker[k]) + 1
        BY <2>2, <2>3, <3>3
      <4>2. Len(toWorker[k]) \in Nat
        BY DEF TypeOK
      <4>3. m <= Len(toWorker[k]) + 1
        BY <2>2, <4>1, <4>2 DEF OnWire
      <4>. QED  BY <4>1, <4>2, <4>3
    <3>. QED  BY <2>2, <3>1, <3>2, <3>3
  <2>. QED  BY <2>6, <2>7, <2>8 DEF Ordered
<1>. QED  BY <1>1, <1>2

LEMMA QueueStepOrdered ==
  TypeOK /\ OnceInv /\ LifeInv /\ Unvisited /\ Ordered /\ QueueNext => Ordered'
<1>. SUFFICES ASSUME TypeOK, OnceInv, LifeInv, Unvisited, Ordered, QueueNext PROVE Ordered'
  OBVIOUS
<1>. USE DEF counters, clientVars, queueVars
<1>0. ASSUME UNCHANGED toWorker,
             \A c \in Commands : (Waiting(c)' => Waiting(c)) /\ (db'[c] = "none" <=> db[c] = "none")
      PROVE  Ordered'
  <2>1. SubmittedInOrder'
    BY <1>0 DEF Ordered, SubmittedInOrder
  <2>. QED  BY <1>0, <2>1, OrderKept
<1>1. CASE \E c \in Commands : enqueueCommand(c)
  <2>1. PICK c \in Commands : enqueueCommand(c)
    BY <1>1
  <2>2. /\ db[c] = "none" /\ \A b \in Commands : b < c => db[b] # "none"
        /\ db' = [db EXCEPT ![c] = "pending"]
        /\ UNCHANGED toWorker
    BY <2>1 DEF enqueueCommand
  <2>3. \A b \in Commands : Waiting(b)' => Waiting(b)
    BY <2>2 DEF Waiting, TypeOK
  <2>4. /\ \A b \in Commands : b # c => db'[b] = db[b]
        /\ db'[c] = "pending"
    BY <2>2 DEF TypeOK
  <2>5. SubmittedInOrder'
    BY <2>2, <2>4 DEF Ordered, SubmittedInOrder
  <2>. QED  BY <2>2, <2>3, <2>5, OrderKept
<1>2. CASE \E c \in Commands : Visit(c)
  BY <1>2, OrderOfDispatch
<1>3. CASE \E k \in Conns : completeCommand(k)
  <2>1. PICK k \in Conns : completeCommand(k)
    BY <1>3
  <2>2. PICK c \in Commands, ok \in BOOLEAN :
          /\ c = Head(toQueue[k]).command /\ ok = Head(toQueue[k]).ok
          /\ Answer(k, 1, c)
    BY <2>1, HeadAnswers
  <2>3. /\ db' = [db EXCEPT ![c] = IF ok THEN "completed" ELSE "failed"]
        /\ UNCHANGED toWorker
    BY <2>1, <2>2 DEF completeCommand
  <2>4. ~Waiting(c)
    BY <2>2 DEF LifeInv, AnsweredIsSent
  <2>5. \A b \in Commands : (Waiting(b)' => Waiting(b)) /\ (db'[b] = "none" <=> db[b] = "none")
    BY <2>3, <2>4 DEF Waiting, TypeOK
  <2>. QED  BY <1>0, <2>3, <2>5
<1>4. CASE create
  <2>1. \A b \in Commands : (Waiting(b)' => Waiting(b)) /\ (db'[b] = "none" <=> db[b] = "none")
    BY <1>4 DEF create, Interrupted, Waiting, TypeOK
  <2>. QED  BY <1>0, <1>4, <2>1 DEF create
<1>5. CASE \/ \E c \in Commands : InvokeTimeout(c)
           \/ publishChatQueueStatus
           \/ \E k \in Conns : ReceiveHello(k) \/ ReceiveStatus(k) \/ closeSocket(k)
           \/ \E r \in Roles, s \in {"starting", "failed"} : SupervisorStatus(r, s)
           \/ stop
  <2>1. UNCHANGED <<db, toWorker>>
    BY <1>5 DEF InvokeTimeout, publishChatQueueStatus, ReceiveHello, ReceiveStatus, closeSocket,
                SupervisorStatus, stop
  <2>. QED  BY <1>0, <2>1 DEF Waiting
<1>. QED  BY <1>1, <1>2, <1>3, <1>4, <1>5 DEF QueueNext

LEMMA ClientStepOrdered == TypeOK /\ Ordered /\ ClientNext => Ordered'
<1>. SUFFICES ASSUME TypeOK, Ordered, ClientNext PROVE Ordered'
  OBVIOUS
<1>. USE DEF counters, clientVars, queueVars
<1>1. PICK k \in Conns :
        \/ connect(k)
        \/ \E required \in BOOLEAN : start(k, required)
        \/ \E required \in BOOLEAN, s \in {"starting", "ready"} : heartbeat(k, s, required)
        \/ handleCommand(k)
        \/ \E c \in Commands, ok \in BOOLEAN : HandlerEnds(k, c, ok)
        \/ \E c \in Commands : handleResponse(k, c) \/ RequestTimeout(k, c)
        \/ Exit(k)
  BY DEF ClientNext
<1>2. UNCHANGED db
  BY ClientKeepsQueue
<1>3. SubmittedInOrder' /\ \A c \in Commands : Waiting(c)' => Waiting(c)
  BY <1>2 DEF Ordered, SubmittedInOrder, Waiting
<1>4. CASE handleCommand(k)
  <2>1. toWorker[k] # <<>> /\ toWorker' = [toWorker EXCEPT ![k] = Tail(@)]
    BY <1>4 DEF handleCommand
  <2>2. \A j \in Conns, i \in Nat, b \in Commands :
          OnWire(j, i, b)' => IF j = k THEN OnWire(k, i + 1, b) ELSE OnWire(j, i, b)
    BY <2>1, WireShrinks
  <2>. QED  BY <1>3, <2>2, OrderKept
<1>5. CASE Exit(k)
  <2>1. toWorker' = [toWorker EXCEPT ![k] = <<>>]
    BY <1>5 DEF Exit
  <2>2. \A j \in Conns : toWorker'[j] = toWorker[j] \/ toWorker'[j] = <<>>
    BY <2>1 DEF TypeOK
  <2>3. \A j \in Conns, i \in Nat, b \in Commands : OnWire(j, i, b)' => OnWire(j, i, b)
    BY <2>2 DEF OnWire
  <2>. QED  BY <1>3, <2>3, OrderKept
<1>6. CASE \/ connect(k)
           \/ \E required \in BOOLEAN : start(k, required)
           \/ \E required \in BOOLEAN, s \in {"starting", "ready"} : heartbeat(k, s, required)
           \/ \E c \in Commands, ok \in BOOLEAN : HandlerEnds(k, c, ok)
           \/ \E c \in Commands : handleResponse(k, c) \/ RequestTimeout(k, c)
  <2>1. UNCHANGED toWorker
    BY <1>6 DEF connect, start, heartbeat, HandlerEnds, handleResponse, RequestTimeout
  <2>. QED  BY <1>3, <2>1, OrderKept
<1>. QED  BY <1>1, <1>4, <1>5, <1>6

LEMMA OrderInvariant == Spec => []Ordered
<1>1. Init => Ordered
  BY DEF Init, Ordered, SubmittedInOrder, EarlierSent, WiresInOrder, OnWire
<1>2. Ordered /\ UNCHANGED vars => Ordered'
  BY DEF vars, queueVars, clientVars, Ordered, SubmittedInOrder, EarlierSent, WiresInOrder, OnWire,
         Waiting, Alike
<1>3. TypeOK /\ OnceInv /\ LifeInv /\ Unvisited /\ Ordered /\ [Next]_vars => Ordered'
  BY <1>2, QueueStepOrdered, ClientStepOrdered DEF Next
<1>. QED  BY <1>1, <1>3, TypeCorrect, OnceInvariant, LifeInvariant, UnvisitedInvariant, PTL DEF Spec

(* A handler starts only in a step of its client. *)
LEMMA StartsAreHandled ==
  ASSUME TypeOK, Next, NEW k \in Conns, NEW c \in Commands, c \in running'[k] \ running[k]
  PROVE  handleCommand(k) /\ c = Head(toWorker[k])
<1>. USE DEF counters, clientVars, queueVars
<1>1. CASE QueueNext
  <2>1. UNCHANGED running
    BY <1>1 DEF QueueNext, enqueueCommand, InvokeTimeout, Visit, publishChatQueueStatus, ReceiveHello,
                ReceiveStatus, completeCommand, closeSocket, SupervisorStatus, stop, create
  <2>. QED  BY <2>1
<1>2. CASE ClientNext
  <2>1. PICK j \in Conns :
          \/ connect(j)
          \/ \E required \in BOOLEAN : start(j, required)
          \/ \E required \in BOOLEAN, s \in {"starting", "ready"} : heartbeat(j, s, required)
          \/ handleCommand(j)
          \/ \E b \in Commands, ok \in BOOLEAN : HandlerEnds(j, b, ok)
          \/ \E b \in Commands : handleResponse(j, b) \/ RequestTimeout(j, b)
          \/ Exit(j)
    BY <1>2 DEF ClientNext
  <2>2. CASE handleCommand(j)
    <3>1. running' = running \/ running' = [running EXCEPT ![j] = @ \cup {Head(toWorker[j])}]
      BY <2>2 DEF handleCommand
    <3>2. running \in [Conns -> SUBSET Commands]
      BY DEF TypeOK
    <3>3. j = k /\ c = Head(toWorker[j])
      BY <3>1, <3>2
    <3>. QED  BY <2>2, <3>3
  <2>3. CASE (\E b \in Commands, ok \in BOOLEAN : HandlerEnds(j, b, ok)) \/ Exit(j)
    <3>1. running \in [Conns -> SUBSET Commands]
      BY DEF TypeOK
    <3>2. \/ \E b \in Commands : running' = [running EXCEPT ![j] = @ \ {b}]
          \/ running' = [running EXCEPT ![j] = {}]
      BY <2>3 DEF HandlerEnds, Exit
    <3>3. running'[k] \subseteq running[k]
      BY <3>1, <3>2
    <3>. QED  BY <3>3
  <2>4. CASE \/ connect(j)
             \/ \E required \in BOOLEAN : start(j, required)
             \/ \E required \in BOOLEAN, s \in {"starting", "ready"} : heartbeat(j, s, required)
             \/ \E b \in Commands : handleResponse(j, b) \/ RequestTimeout(j, b)
    <3>1. UNCHANGED running
      BY <2>4 DEF connect, start, heartbeat, handleResponse, RequestTimeout
    <3>. QED  BY <3>1
  <2>. QED  BY <2>1, <2>2, <2>3, <2>4
<1>. QED  BY <1>1, <1>2 DEF Next

(* A handler starts only when no earlier command for the same worker and   *)
(* of the same kind is still waiting or behind it on the connection.       *)
THEOREM StartsInOrder == Spec => StartedInOrder
<1>. DEFINE A == \A k \in Conns, c \in Commands :
                   c \in running'[k] \ running[k] =>
                     \A b \in 1..(c - 1) :
                       Target[b] = Target[c] /\ (b \in ChatCommands <=> c \in ChatCommands)
                         => (up => db[b] # "pending") /\ b \notin Sent(k)'
<1>1. TypeOK /\ OnceInv /\ LifeInv /\ Ordered /\ Next => A
  <2>. SUFFICES ASSUME TypeOK, OnceInv, LifeInv, Ordered, Next,
                       NEW k \in Conns, NEW c \in Commands, c \in running'[k] \ running[k],
                       NEW b \in 1..(c - 1), Alike(b, c)
                PROVE  db[b] # "pending" /\ b \notin Sent(k)'
    BY DEF Alike
  <2>1. handleCommand(k) /\ c = Head(toWorker[k])
    BY StartsAreHandled
  <2>2. OnWire(k, 1, c)
    BY <2>1, HeadIsFresh
  <2>3. b \in Commands /\ b < c /\ ~(c < b)
    BY BusAssumption DEF Commands
  <2>4. db[b] # "pending"
    BY <2>2, <2>3 DEF Ordered, EarlierSent, Waiting
  <2>5. toWorker[k] # <<>> /\ toWorker' = [toWorker EXCEPT ![k] = Tail(@)]
    BY <2>1 DEF handleCommand
  <2>6. ASSUME b \in Sent(k)' PROVE FALSE
    <3>1. PICK i \in Nat : OnWire(k, i, b)'
      BY <2>6 DEF Sent, OnWire
    <3>2. i # 0 /\ OnWire(k, i + 1, b)
      BY <2>3, <2>5, <3>1, WireShrinks
    <3>3. 1 < i + 1 /\ i + 1 \in Nat
      BY <3>2
    <3>4. Alike(c, b)
      BY DEF Alike
    <3>. QED  BY <2>2, <2>3, <3>2, <3>3, <3>4 DEF Ordered, WiresInOrder
  <2>. QED  BY <2>4, <2>6
<1>2. UNCHANGED vars => A
  BY DEF vars, queueVars, clientVars
<1>3. TypeOK /\ OnceInv /\ LifeInv /\ Ordered /\ [Next]_vars => [A]_vars
  BY <1>1, <1>2
<1>. HIDE DEF A
<1>4. Spec => [][A]_vars
  BY <1>3, TypeCorrect, OnceInvariant, LifeInvariant, OrderInvariant, PTL DEF Spec
<1>. QED  BY <1>4 DEF A, StartedInOrder
===============================================================================
