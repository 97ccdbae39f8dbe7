-------------------------- MODULE SessionStateProofs --------------------------
\* Proofs about SessionState, for any processes, sessions and names, any flushes at once,
\* and any number of writes, preloads and mishaps.
EXTENDS SessionState, SequenceTheorems, TLAPS

-----------------------------------------------------------------------------
(* Types.  A request says which session it is about, and which write it is;  *)
(* a preload is nobody's write.                                              *)

SessionWrites == {"ensure", "rename", "clear", "delete", "append", "reload"}
SessionReads == {"load", "page", "summary", "lastId"}
MaybeName == Names \cup {None}
MaybeMessages == Messages \cup {None}

Requests ==
  [op : SessionWrites, session : Sessions, write : Writes, name : Names, awaited : BOOLEAN]
    \cup [op : SessionReads, session : Sessions, write : {0}, name : Names, awaited : BOOLEAN]
    \cup [op : {"deleteAll"}, session : {None}, write : Writes, name : Names, awaited : BOOLEAN]
    \cup [op : {"list"}, session : {None}, write : {0}, name : Names, awaited : BOOLEAN]

\* what a reply says of the names of sessions
Summaries == {<<>>} \cup [Sessions -> MaybeName] \cup UNION {[{s} -> MaybeName] : s \in Sessions}

Replies ==
  [op : SessionWrites \cup SessionReads \cup {"deleteAll", "list"},
   session : Sessions \cup {None}, write : {0} \cup Writes, awaited : {TRUE},
   ok : BOOLEAN, names : Summaries, messages : MaybeMessages]

\* which reply belongs to which request
Fits(r) ==
  /\ r.op \in SessionWrites => r.session \in Sessions /\ r.write \in Writes
  /\ r.op \in SessionReads => r.session \in Sessions /\ r.write = 0
  /\ r.op = "deleteAll" => r.session = None /\ r.write \in Writes
  /\ r.op = "list" => r.session = None /\ r.write = 0
  /\ ~r.ok => r.op = "append"

CacheType == [names : [Sessions -> MaybeName], loaded : [Sessions -> Rows \cup {None}],
              page : [Sessions -> MaybeMessages], listed : BOOLEAN]

TableTyped == table \in [Sessions -> Rows \cup {None}] /\ cache \in CacheType

FlowTyped ==
  /\ wire \in [Processes -> Seq(Requests)]
  /\ replies \in [Processes -> Seq(Replies)]
  /\ \A p \in Processes : \A r \in ToSet(replies[p]) : Fits(r)
  /\ pending \in [Processes -> SUBSET Writes]
  /\ running \in [Processes -> [Flushes -> (SUBSET Writes) \cup {None}]]
  /\ errors \in [Processes -> Seq(Writes)]
  /\ used \in [writes : 0..MaxWrites, reads : Nat, mishaps : Nat]
  /\ mine \in [Processes -> SUBSET Writes]
  /\ stored \subseteq Writes /\ thrown \subseteq Writes

\* A write whose request was served without an error is in the tables; what a process
\* has issued is stored, or its failure is known, or it is not settled.
KeptBy(p) ==
  /\ \A r \in ToSet(replies[p]) : r.ok /\ r.write # 0 => r.write \in stored
  /\ \A r \in ToSet(wire[p]) : r.op = "reload" => r.write \in stored
  /\ mine[p] \subseteq stored \cup thrown \cup ToSet(errors[p]) \cup pending[p] \cup InBatches(p)
Kept == \A p \in Processes : KeptBy(p)

\* A write that is not settled has a request or a reply on its way.
OnItsWay(p) == \A w \in pending[p] \cup InBatches(p) : \E r \in Awaited(p) : r.write = w
FlowInv == FlowTyped /\ Kept /\ \A p \in Processes : OnItsWay(p)

-----------------------------------------------------------------------------
(* What a queue of requests or replies holds, as it is sent and taken off.   *)

LEMMA Held ==
  ASSUME NEW S, NEW q \in Seq(S)
  PROVE  /\ ToSet(q) = {q[i] : i \in 1..Len(q)} /\ ToSet(q) \subseteq S
         /\ DOMAIN q = 1..Len(q) /\ Len(q) \in Nat
BY DEF ToSet

LEMMA Appended ==
  ASSUME NEW S, NEW q \in Seq(S), NEW x \in S
  PROVE  /\ Append(q, x) \in Seq(S) /\ ToSet(Append(q, x)) = ToSet(q) \cup {x}
         /\ Len(Append(q, x)) = Len(q) + 1 /\ Len(q) \in Nat
         /\ \A i \in 1..Len(q) : Append(q, x)[i] = q[i]
         /\ Append(q, x)[Len(q) + 1] = x
<1>1. /\ Append(q, x) \in Seq(S) /\ Len(Append(q, x)) = Len(q) + 1 /\ Len(q) \in Nat
      /\ \A i \in 1..Len(q) : Append(q, x)[i] = q[i]
      /\ Append(q, x)[Len(q) + 1] = x
  BY AppendProperties
<1>2. 1..(Len(q) + 1) = 1..Len(q) \cup {Len(q) + 1}
  BY <1>1
<1>3. /\ ToSet(q) = {q[i] : i \in 1..Len(q)}
      /\ ToSet(Append(q, x)) = {Append(q, x)[i] : i \in 1..(Len(q) + 1)}
  BY <1>1, Held
<1>4. ToSet(Append(q, x)) = {Append(q, x)[i] : i \in 1..Len(q)} \cup {Append(q, x)[Len(q) + 1]}
  BY <1>2, <1>3
<1>. QED
  BY <1>1, <1>3, <1>4

LEMMA TakenOff ==
  ASSUME NEW S, NEW q \in Seq(S), q # <<>>
  PROVE  /\ Head(q) \in ToSet(q) /\ Head(q) \in S /\ Tail(q) \in Seq(S)
         /\ ToSet(q) = {Head(q)} \cup ToSet(Tail(q))
         /\ Head(q) = q[1] /\ Len(q) \in Nat /\ Len(q) > 0 /\ Len(Tail(q)) = Len(q) - 1
         /\ \A i \in 1..(Len(q) - 1) : Tail(q)[i] = q[i + 1]
<1>1. /\ Head(q) \in S /\ Tail(q) \in Seq(S) /\ Head(q) = q[1]
      /\ Len(q) \in Nat /\ Len(q) > 0 /\ Len(Tail(q)) = Len(q) - 1
      /\ \A i \in 1..(Len(q) - 1) : Tail(q)[i] = q[i + 1]
  BY HeadTailProperties, EmptySeq, LenProperties
<1>2. /\ ToSet(q) = {q[i] : i \in 1..Len(q)}
      /\ ToSet(Tail(q)) = {Tail(q)[i] : i \in 1..(Len(q) - 1)}
  BY <1>1, Held
<1>3. \A x \in ToSet(q) : x = Head(q) \/ x \in ToSet(Tail(q))
  <2> SUFFICES ASSUME NEW i \in 1..Len(q), i # 1 PROVE q[i] \in ToSet(Tail(q))
    BY <1>1, <1>2
  <2>1. i - 1 \in 1..(Len(q) - 1) /\ (i - 1) + 1 = i
    BY <1>1
  <2>2. Tail(q)[i - 1] = q[i]
    BY <1>1, <2>1
  <2>. QED
    BY <1>2, <2>1, <2>2
<1>4. \A x \in ToSet(Tail(q)) : x \in ToSet(q)
  <2> SUFFICES ASSUME NEW i \in 1..(Len(q) - 1) PROVE q[i + 1] \in ToSet(q)
    BY <1>1, <1>2
  <2>1. i + 1 \in 1..Len(q)
    BY <1>1
  <2>. QED
    BY <1>2, <2>1
<1>5. Head(q) \in ToSet(q)
  <2>1. 1 \in 1..Len(q)
    BY <1>1
  <2>. QED
    BY <1>1, <1>2, <2>1
<1>. QED
  BY <1>1, <1>3, <1>4, <1>5

\* One element of a queue is taken out.
LEMMA RemovedItems ==
  ASSUME NEW S, NEW q \in Seq(S), NEW i \in 1..Len(q)
  PROVE  /\ RemoveAt(q, i) \in Seq(S) /\ Len(RemoveAt(q, i)) = Len(q) - 1
         /\ \A k \in 1..(Len(q) - 1) : RemoveAt(q, i)[k] = IF k < i THEN q[k] ELSE q[k + 1]
         /\ Len(q) \in Nat
<1> DEFINE a == SubSeq(q, 1, i - 1)
           b == SubSeq(q, i + 1, Len(q))
<1>1. Len(q) \in Nat /\ i \in Nat /\ 1 <= i /\ i <= Len(q)
  BY LenProperties
<1>2. /\ a \in Seq(S) /\ Len(a) = i - 1
      /\ \A k \in 1..(i - 1) : a[k] = q[k]
  <2>1. 1 \in 1..(Len(q) + 1) /\ i - 1 \in 0..Len(q)
    BY <1>1
  <2>2. /\ a \in Seq(S)
        /\ Len(a) = IF 1 <= i - 1 THEN (i - 1) - 1 + 1 ELSE 0
        /\ \A k \in 1..((i - 1) - 1 + 1) : a[k] = q[1 + k - 1]
    BY <2>1, SubSeqProperties
  <2>. QED
    BY <1>1, <2>2
<1>3. /\ b \in Seq(S) /\ Len(b) = Len(q) - i
      /\ \A k \in 1..(Len(q) - i) : b[k] = q[i + k]
  <2>1. i + 1 \in 1..(Len(q) + 1) /\ Len(q) \in 0..Len(q)
    BY <1>1
  <2>2. /\ b \in Seq(S)
        /\ Len(b) = IF i + 1 <= Len(q) THEN Len(q) - (i + 1) + 1 ELSE 0
        /\ \A k \in 1..(Len(q) - (i + 1) + 1) : b[k] = q[(i + 1) + k - 1]
    BY <2>1, SubSeqProperties
  <2>. QED
    BY <1>1, <2>2
<1> HIDE DEF a, b
<1>4. /\ a \o b \in Seq(S) /\ Len(a \o b) = Len(q) - 1
      /\ \A k \in 1..(Len(q) - 1) : (a \o b)[k] = IF k <= i - 1 THEN a[k] ELSE b[k - (i - 1)]
  <2>1. /\ a \o b \in Seq(S) /\ Len(a \o b) = Len(a) + Len(b)
        /\ \A k \in 1..(Len(a) + Len(b)) :
             (a \o b)[k] = IF k <= Len(a) THEN a[k] ELSE b[k - Len(a)]
    BY <1>2, <1>3, ConcatProperties
  <2>2. Len(a) + Len(b) = Len(q) - 1
    BY <1>1, <1>2, <1>3
  <2>3. \A k \in 1..(Len(q) - 1) : (a \o b)[k] = IF k <= i - 1 THEN a[k] ELSE b[k - (i - 1)]
    BY <1>2, <2>1, <2>2
  <2>. QED
    BY <2>1, <2>2, <2>3
<1>5. RemoveAt(q, i) = a \o b
  BY DEF RemoveAt, a, b
<1>6. \A k \in 1..(Len(q) - 1) : (a \o b)[k] = IF k < i THEN q[k] ELSE q[k + 1]
  <2> TAKE k \in 1..(Len(q) - 1)
  <2>1. CASE k < i
    BY <1>1, <1>2, <1>4, <2>1
  <2>2. CASE ~(k < i)
    <3>1. k - (i - 1) \in 1..(Len(q) - i) /\ i + (k - (i - 1)) = k + 1
      BY <1>1, <2>2
    <3>2. b[k - (i - 1)] = q[k + 1]
      BY <1>3, <3>1
    <3>3. ~(k <= i - 1)
      BY <1>1, <2>2
    <3>. QED
      BY <1>4, <2>2, <3>2, <3>3
  <2>. QED
    BY <2>1, <2>2
<1>. QED
  BY <1>1, <1>4, <1>5, <1>6

LEMMA Removed ==
  ASSUME NEW S, NEW q \in Seq(S), NEW i \in 1..Len(q)
  PROVE  /\ RemoveAt(q, i) \in Seq(S)
         /\ ToSet(RemoveAt(q, i)) \subseteq ToSet(q)
         /\ ToSet(q) \subseteq ToSet(RemoveAt(q, i)) \cup {q[i]}
<1> DEFINE left == RemoveAt(q, i)
<1>1. /\ left \in Seq(S) /\ Len(left) = Len(q) - 1 /\ Len(q) \in Nat
      /\ \A k \in 1..(Len(q) - 1) : left[k] = IF k < i THEN q[k] ELSE q[k + 1]
  BY RemovedItems
<1>2. i \in Nat /\ 1 <= i /\ i <= Len(q)
  BY <1>1
<1> HIDE DEF left
<1>3. /\ ToSet(q) = {q[k] : k \in 1..Len(q)}
      /\ ToSet(left) = {left[k] : k \in 1..(Len(q) - 1)}
  BY <1>1, Held
<1>4. ToSet(left) \subseteq ToSet(q)
  <2> SUFFICES ASSUME NEW k \in 1..(Len(q) - 1) PROVE left[k] \in ToSet(q)
    BY <1>3
  <2>1. k \in 1..Len(q) /\ k + 1 \in 1..Len(q)
    BY <1>1, <1>2
  <2>. QED
    BY <1>1, <1>3, <2>1
<1>5. ToSet(q) \subseteq ToSet(left) \cup {q[i]}
  <2> SUFFICES ASSUME NEW k \in 1..Len(q), k # i PROVE q[k] \in ToSet(left)
    BY <1>3
  <2>1. CASE k < i
    <3>1. k \in 1..(Len(q) - 1)
      BY <1>1, <1>2, <2>1
    <3>2. left[k] = q[k]
      BY <1>1, <2>1, <3>1
    <3>. QED
      BY <1>3, <3>1, <3>2
  <2>2. CASE k > i
    <3>1. k - 1 \in 1..(Len(q) - 1) /\ ~(k - 1 < i) /\ (k - 1) + 1 = k
      BY <1>1, <1>2, <2>2
    <3>2. left[k - 1] = q[k]
      BY <1>1, <3>1
    <3>. QED
      BY <1>3, <3>1, <3>2
  <2>. QED
    BY <1>1, <1>2, <2>1, <2>2
<1>. QED
  BY <1>1, <1>4, <1>5 DEF left

\* One element of a queue is replaced.
LEMMA Replaced ==
  ASSUME NEW S, NEW q \in Seq(S), NEW i \in 1..Len(q), NEW x \in S
  PROVE  /\ [q EXCEPT ![i] = x] \in Seq(S)
         /\ ToSet([q EXCEPT ![i] = x]) \subseteq ToSet(q) \cup {x}
         /\ ToSet(q) \subseteq ToSet([q EXCEPT ![i] = x]) \cup {q[i]}
         /\ x \in ToSet([q EXCEPT ![i] = x])
<1> DEFINE n == [q EXCEPT ![i] = x]
<1>1. n \in Seq(S) /\ Len(n) = Len(q) /\ Len(q) \in Nat
  BY ExceptSeq, LenProperties
<1>2. \A k \in 1..Len(q) : n[k] = IF k = i THEN x ELSE q[k]
  BY LenProperties
<1> HIDE DEF n
<1>3. /\ ToSet(q) = {q[k] : k \in 1..Len(q)}
      /\ ToSet(n) = {n[k] : k \in 1..Len(q)}
  BY <1>1, Held
<1>4. /\ ToSet(n) \subseteq ToSet(q) \cup {x}
      /\ ToSet(q) \subseteq ToSet(n) \cup {q[i]}
      /\ x \in ToSet(n)
  BY <1>2, <1>3
<1>. QED
  BY <1>1, <1>4 DEF n

-----------------------------------------------------------------------------
(* The flow of requests and replies keeps its types.                         *)

\* the requests a process sends
Sent(op, s) == \/ op \in SessionWrites \cup SessionReads /\ s \in Sessions
               \/ op \in {"deleteAll", "list"} /\ s = None
ReadOps == SessionReads \cup {"list"}

LEMMA RequestTypes ==
  ASSUME NEW op, NEW s, Sent(op, s), NEW w, NEW n \in Names,
         IF op \in ReadOps THEN w = 0 ELSE w \in Writes
  PROVE  /\ Request(op, s, w, n) \in Requests
         /\ Request(op, s, w, n) = [op |-> op, session |-> s, write |-> w, name |-> n,
                                    awaited |-> TRUE]
BY DEF Sent, ReadOps, Request, Requests, SessionWrites, SessionReads

LEMMA RequestFacts ==
  ASSUME NEW r \in Requests
  PROVE  /\ Sent(r.op, r.session) /\ r.write \in {0} \cup Writes /\ r.name \in Names
         /\ r.awaited \in BOOLEAN
         /\ IF r.op \in ReadOps THEN r.write = 0 ELSE r.write \in Writes
         /\ r = [op |-> r.op, session |-> r.session, write |-> r.write, name |-> r.name,
                 awaited |-> r.awaited]
         /\ [r EXCEPT !.awaited = FALSE] \in Requests
BY DEF Sent, ReadOps, Requests, SessionWrites, SessionReads

\* the counters of what was used
LEMMA UsedTypes ==
  ASSUME FlowTyped
  PROVE  /\ used.writes + 1 \in Writes =>
              /\ [used EXCEPT !.writes = used.writes + 1]
                    \in [writes : 0..MaxWrites, reads : Nat, mishaps : Nat]
              /\ [used EXCEPT !.writes = used.writes + 1] # used
         /\ [used EXCEPT !.reads = used.reads + 1]
               \in [writes : 0..MaxWrites, reads : Nat, mishaps : Nat]
         /\ [used EXCEPT !.mishaps = used.mishaps + 1]
               \in [writes : 0..MaxWrites, reads : Nat, mishaps : Nat]
         /\ [used EXCEPT !.mishaps = used.mishaps + 1] # used
         /\ used.writes \in Nat
<1>1. /\ used \in [writes : 0..MaxWrites, reads : Nat, mishaps : Nat]
      /\ used = [writes |-> used.writes, reads |-> used.reads, mishaps |-> used.mishaps]
      /\ used.writes \in 0..MaxWrites /\ used.reads \in Nat /\ used.mishaps \in Nat
      /\ MaxWrites \in Nat
  BY SessionStateAssumption DEF FlowTyped
<1>2. /\ [used EXCEPT !.writes = used.writes + 1]
           = [writes |-> used.writes + 1, reads |-> used.reads, mishaps |-> used.mishaps]
      /\ [used EXCEPT !.reads = used.reads + 1]
           = [writes |-> used.writes, reads |-> used.reads + 1, mishaps |-> used.mishaps]
      /\ [used EXCEPT !.mishaps = used.mishaps + 1]
           = [writes |-> used.writes, reads |-> used.reads, mishaps |-> used.mishaps + 1]
  BY <1>1
<1>. QED
  BY <1>1, <1>2 DEF Writes

LEMMA TrackFlow ==
  ASSUME FlowTyped, NEW p \in Processes, NEW op, NEW s, NEW n \in Names,
         Sent(op, s), op \notin ReadOps, Track(p, op, s, n)
  PROVE  /\ FlowTyped'
         /\ \E w \in Writes : \E r \in Requests :
              /\ r.write = w /\ r.op = op /\ r.awaited
              /\ wire' = [wire EXCEPT ![p] = Append(wire[p], r)]
              /\ pending' = [pending EXCEPT ![p] = pending[p] \cup {w}]
              /\ mine' = [mine EXCEPT ![p] = mine[p] \cup {w}]
         /\ used' # used
<1> DEFINE w == used.writes + 1
           r == Request(op, s, w, n)
<1>1. /\ w \in Writes /\ used' = [used EXCEPT !.writes = w]
      /\ wire' = [wire EXCEPT ![p] = Append(wire[p], r)]
      /\ pending' = [pending EXCEPT ![p] = pending[p] \cup {w}]
      /\ mine' = [mine EXCEPT ![p] = mine[p] \cup {w}]
      /\ UNCHANGED <<replies, running, errors, stored, thrown>>
  BY SessionStateAssumption DEF Track, FlowTyped, Writes
<1>2. r \in Requests /\ r.write = w /\ r.op = op /\ r.awaited
  BY <1>1, RequestTypes
<1>3. used' \in [writes : 0..MaxWrites, reads : Nat, mishaps : Nat] /\ used' # used
  BY <1>1, UsedTypes
<1> HIDE DEF w, r
<1>4. Append(wire[p], r) \in Seq(Requests)
  BY <1>2, Appended DEF FlowTyped
<1>5. FlowTyped'
  BY <1>1, <1>3, <1>4 DEF FlowTyped
<1>. QED
  BY <1>1, <1>2, <1>3, <1>5

LEMMA PreloadFlow ==
  ASSUME FlowTyped, NEW p \in Processes, NEW op \in ReadOps, NEW s, Sent(op, s), Preload(p, op, s)
  PROVE  /\ FlowTyped'
         /\ \E r \in Requests : r.op = op /\ wire' = [wire EXCEPT ![p] = Append(wire[p], r)]
<1> DEFINE r == Request(op, s, 0, DefaultName)
<1>1. /\ used' = [used EXCEPT !.reads = used.reads + 1]
      /\ wire' = [wire EXCEPT ![p] = Append(wire[p], r)]
      /\ UNCHANGED <<replies, pending, running, errors, mine, stored, thrown>>
  BY DEF Preload, ghosts
<1>2. r \in Requests /\ r.op = op
  BY RequestTypes, SessionStateAssumption
<1>3. used' \in [writes : 0..MaxWrites, reads : Nat, mishaps : Nat]
  BY <1>1, UsedTypes
<1> HIDE DEF r
<1>4. Append(wire[p], r) \in Seq(Requests)
  BY <1>2, Appended DEF FlowTyped
<1>. QED
  BY <1>1, <1>2, <1>3, <1>4 DEF FlowTyped

\* What it is to serve a request: it leaves the wire, and unless nobody waits for it any
\* more a reply about the same write is sent.
LEMMA AnswerFlow ==
  ASSUME FlowTyped, NEW p \in Processes, wire[p] # <<>>, NEW ok \in BOOLEAN,
         NEW names \in Summaries, NEW messages \in MaybeMessages,
         ok \/ Head(wire[p]).op = "append", Answer(p, ok, names, messages)
  PROVE  /\ FlowTyped'
         /\ wire' = [wire EXCEPT ![p] = Tail(wire[p])]
         /\ \/ replies' = replies /\ ~Head(wire[p]).awaited
            \/ \E a \in Replies :
                 /\ replies' = [replies EXCEPT ![p] = Append(replies[p], a)]
                 /\ a.write = Head(wire[p]).write /\ a.awaited /\ a.ok = ok
         /\ stored' = IF ok /\ Head(wire[p]).write # 0 THEN stored \cup {Head(wire[p]).write}
                      ELSE stored
<1> DEFINE r == Head(wire[p])
           a == [op |-> r.op, session |-> r.session, write |-> r.write, awaited |-> TRUE,
                 ok |-> ok, names |-> names, messages |-> messages]
<1>1. /\ wire' = [wire EXCEPT ![p] = Tail(wire[p])]
      /\ replies' = IF r.awaited THEN [replies EXCEPT ![p] = Append(replies[p], a)] ELSE replies
      /\ stored' = IF ok /\ r.write # 0 THEN stored \cup {r.write} ELSE stored
      /\ UNCHANGED <<pending, running, errors, used, mine, thrown>>
  BY DEF Answer
<1>2. r \in Requests /\ Tail(wire[p]) \in Seq(Requests)
  BY TakenOff DEF FlowTyped
<1> HIDE DEF r
<1>3. /\ Sent(r.op, r.session) /\ r.write \in {0} \cup Writes /\ r.awaited \in BOOLEAN
      /\ IF r.op \in ReadOps THEN r.write = 0 ELSE r.write \in Writes
  BY <1>2, RequestFacts
<1>4. a \in Replies
  BY <1>3 DEF Replies, Sent
<1>5. Fits(a)
  BY <1>3 DEF Fits, Sent, ReadOps, SessionWrites, SessionReads, r
<1>6. a.write = r.write /\ a.awaited /\ a.ok = ok
  OBVIOUS
<1> HIDE DEF a
<1>7. /\ Append(replies[p], a) \in Seq(Replies)
      /\ ToSet(Append(replies[p], a)) = ToSet(replies[p]) \cup {a}
  BY <1>4, Appended DEF FlowTyped
<1>8. stored' \subseteq Writes
  BY <1>1, <1>3 DEF FlowTyped
<1>9. replies' \in [Processes -> Seq(Replies)] /\ wire' \in [Processes -> Seq(Requests)]
  BY <1>1, <1>2, <1>7 DEF FlowTyped
<1>10. \A q \in Processes : \A x \in ToSet(replies'[q]) : Fits(x)
  BY <1>1, <1>5, <1>7 DEF FlowTyped
<1>11. FlowTyped'
  BY <1>1, <1>8, <1>9, <1>10 DEF FlowTyped
<1>. QED
  BY <1>1, <1>3, <1>4, <1>6, <1>11 DEF r

-----------------------------------------------------------------------------
(* queue-service: every request is answered once, and the caches stay true.  *)

Matches(c, t, s) ==
  /\ c.names[s] # None => t[s] # None /\ c.names[s] = t[s].name
  /\ c.loaded[s] # None => c.loaded[s] = t[s]
  /\ c.page[s] # None => c.page[s] = IF t[s] = None THEN <<>> ELSE t[s].messages
Lists(c, t, s) == c.listed /\ t[s] # None => c.names[s] # None

Tables == [Sessions -> Rows \cup {None}]
True(c, t) == /\ c \in CacheType /\ t \in Tables
              /\ \A s \in Sessions : Matches(c, t, s) /\ Lists(c, t, s)
CacheInv == True(cache, table)

Answered(p) ==
  /\ wire[p] # <<>>
  /\ \E ok \in BOOLEAN, names \in Summaries, messages \in MaybeMessages :
       (ok \/ Head(wire[p]).op = "append") /\ Answer(p, ok, names, messages)

LEMMA RowFacts ==
  /\ \A n \in Names : n # None
  /\ \A r \in Rows : r # None /\ r.name \in Names /\ r.messages \in Messages
  /\ \A n \in Names, m \in Messages : [name |-> n, messages |-> m] \in Rows
  /\ <<>> \in Messages /\ \A m \in Messages : m # None
  /\ DefaultName \in Names
<1>1. <<>> \in Messages
  BY EmptySeq DEF Messages
<1> HIDE DEF Messages
<1>2. \A r \in Rows : r.name \in Names /\ r.messages \in Messages
  BY DEF Rows
<1>3. \A n \in Names, m \in Messages : [name |-> n, messages |-> m] \in Rows
  BY DEF Rows
<1>. QED
  BY <1>1, <1>2, <1>3, SessionStateAssumption

\* The caches are records of functions; a change of one entry leaves the others.
CacheOf(names, loaded, page, listed) ==
  [names |-> names, loaded |-> loaded, page |-> page, listed |-> listed]

LEMMA CacheRecord ==
  ASSUME NEW c \in CacheType
  PROVE  /\ c.names \in [Sessions -> MaybeName] /\ c.loaded \in [Sessions -> Rows \cup {None}]
         /\ c.page \in [Sessions -> MaybeMessages] /\ c.listed \in BOOLEAN
         /\ c = CacheOf(c.names, c.loaded, c.page, c.listed)
BY DEF CacheType, CacheOf

LEMMA CacheNames ==
  ASSUME NEW c \in CacheType, NEW s \in Sessions, NEW n \in MaybeName
  PROVE  /\ [c EXCEPT !.names[s] = n]
              = CacheOf([c.names EXCEPT ![s] = n], c.loaded, c.page, c.listed)
         /\ [c EXCEPT !.names[s] = n] \in CacheType
<1> DEFINE names == [c.names EXCEPT ![s] = n]
<1>1. [c EXCEPT !.names = names] = CacheOf(names, c.loaded, c.page, c.listed)
  BY CacheRecord DEF CacheOf
<1>2. names \in [Sessions -> MaybeName]
  BY CacheRecord
<1> HIDE DEF names
<1>3. CacheOf(names, c.loaded, c.page, c.listed) \in CacheType
  BY <1>2, CacheRecord DEF CacheOf, CacheType
<1>. QED
  BY <1>1, <1>3 DEF names

LEMMA CacheLoaded ==
  ASSUME NEW c \in CacheType, NEW s \in Sessions, NEW row \in Rows \cup {None}
  PROVE  /\ [c EXCEPT !.loaded[s] = row]
              = CacheOf(c.names, [c.loaded EXCEPT ![s] = row], c.page, c.listed)
         /\ [c EXCEPT !.loaded[s] = row] \in CacheType
<1> DEFINE loaded == [c.loaded EXCEPT ![s] = row]
<1>1. [c EXCEPT !.loaded = loaded] = CacheOf(c.names, loaded, c.page, c.listed)
  BY CacheRecord DEF CacheOf
<1>2. loaded \in [Sessions -> Rows \cup {None}]
  BY CacheRecord
<1> HIDE DEF loaded
<1>3. CacheOf(c.names, loaded, c.page, c.listed) \in CacheType
  BY <1>2, CacheRecord DEF CacheOf, CacheType
<1>. QED
  BY <1>1, <1>3 DEF loaded

LEMMA CachePage ==
  ASSUME NEW c \in CacheType, NEW s \in Sessions, NEW m \in MaybeMessages
  PROVE  /\ [c EXCEPT !.page[s] = m]
              = CacheOf(c.names, c.loaded, [c.page EXCEPT ![s] = m], c.listed)
         /\ [c EXCEPT !.page[s] = m] \in CacheType
<1> DEFINE page == [c.page EXCEPT ![s] = m]
<1>1. [c EXCEPT !.page = page] = CacheOf(c.names, c.loaded, page, c.listed)
  BY CacheRecord DEF CacheOf
<1>2. page \in [Sessions -> MaybeMessages]
  BY CacheRecord
<1> HIDE DEF page
<1>3. CacheOf(c.names, c.loaded, page, c.listed) \in CacheType
  BY <1>2, CacheRecord DEF CacheOf, CacheType
<1>. QED
  BY <1>1, <1>3 DEF page

LEMMA CacheBoth ==
  ASSUME NEW c \in CacheType, NEW s \in Sessions, NEW n \in MaybeName, NEW row \in Rows \cup {None}
  PROVE  /\ [c EXCEPT !.loaded[s] = row, !.names[s] = n]
              = CacheOf([c.names EXCEPT ![s] = n], [c.loaded EXCEPT ![s] = row], c.page, c.listed)
         /\ [c EXCEPT !.names[s] = n, !.loaded[s] = row]
              = CacheOf([c.names EXCEPT ![s] = n], [c.loaded EXCEPT ![s] = row], c.page, c.listed)
         /\ [c EXCEPT !.loaded[s] = row, !.names[s] = n] \in CacheType
         /\ [c EXCEPT !.names[s] = n, !.loaded[s] = row] \in CacheType
<1>. HIDE DEF MaybeName, Rows, MaybeMessages, CacheType
<1> DEFINE named == [c EXCEPT !.names[s] = n]
           loads == [c EXCEPT !.loaded[s] = row]
<1>1. /\ named \in CacheType
      /\ named = CacheOf([c.names EXCEPT ![s] = n], c.loaded, c.page, c.listed)
      /\ loads \in CacheType
      /\ loads = CacheOf(c.names, [c.loaded EXCEPT ![s] = row], c.page, c.listed)
  BY CacheNames, CacheLoaded
<1>2. /\ [c EXCEPT !.loaded[s] = row, !.names[s] = n] = [loads EXCEPT !.names[s] = n]
      /\ [c EXCEPT !.names[s] = n, !.loaded[s] = row] = [named EXCEPT !.loaded[s] = row]
  OBVIOUS
<1> HIDE DEF named, loads
<1>3. /\ [loads EXCEPT !.names[s] = n] \in CacheType
      /\ [loads EXCEPT !.names[s] = n]
           = CacheOf([loads.names EXCEPT ![s] = n], loads.loaded, loads.page, loads.listed)
  BY <1>1, CacheNames
<1>4. /\ [named EXCEPT !.loaded[s] = row] \in CacheType
      /\ [named EXCEPT !.loaded[s] = row]
           = CacheOf(named.names, [named.loaded EXCEPT ![s] = row], named.page, named.listed)
  BY <1>1, CacheLoaded
<1>5. /\ named.names = [c.names EXCEPT ![s] = n] /\ named.loaded = c.loaded
      /\ named.page = c.page /\ named.listed = c.listed
      /\ loads.names = c.names /\ loads.loaded = [c.loaded EXCEPT ![s] = row]
      /\ loads.page = c.page /\ loads.listed = c.listed
  BY <1>1 DEF CacheOf
<1>. QED
  BY <1>2, <1>3, <1>4, <1>5

LEMMA CacheAll ==
  ASSUME NEW c \in CacheType, NEW s \in Sessions, NEW n \in MaybeName,
         NEW row \in Rows \cup {None}, NEW m \in MaybeMessages
  PROVE  /\ [c EXCEPT !.names[s] = n, !.loaded[s] = row, !.page[s] = m]
              = CacheOf([c.names EXCEPT ![s] = n], [c.loaded EXCEPT ![s] = row],
                        [c.page EXCEPT ![s] = m], c.listed)
         /\ [c EXCEPT !.names[s] = n, !.loaded[s] = row, !.page[s] = m] \in CacheType
<1>. HIDE DEF MaybeName, Rows, MaybeMessages, CacheType
<1> DEFINE both == [c EXCEPT !.names[s] = n, !.loaded[s] = row]
<1>1. /\ both \in CacheType
      /\ both = CacheOf([c.names EXCEPT ![s] = n], [c.loaded EXCEPT ![s] = row], c.page, c.listed)
  BY Zenon, CacheBoth
<1>2. [c EXCEPT !.names[s] = n, !.loaded[s] = row, !.page[s] = m] = [both EXCEPT !.page[s] = m]
  OBVIOUS
<1> HIDE DEF both
<1>3. /\ [both EXCEPT !.page[s] = m] \in CacheType
      /\ [both EXCEPT !.page[s] = m]
           = CacheOf(both.names, both.loaded, [both.page EXCEPT ![s] = m], both.listed)
  BY <1>1, CachePage
<1>4. /\ both.names = [c.names EXCEPT ![s] = n] /\ both.loaded = [c.loaded EXCEPT ![s] = row]
      /\ both.page = c.page /\ both.listed = c.listed
  BY <1>1 DEF CacheOf
<1>. QED
  BY <1>2, <1>3, <1>4

\* Publishing the list of sessions reads the names that are not cached.
LEMMA Summarised ==
  ASSUME NEW c \in CacheType, NEW t \in Tables, \A s \in Sessions : Matches(c, t, s),
         \A s \in Sessions : Lists(c, t, s)
  PROVE  True(WithSummaries(c, t), t)
<1> DEFINE names == [s \in Sessions |-> IF t[s] = None THEN c.names[s] ELSE t[s].name]
           d == [names |-> names, loaded |-> c.loaded, page |-> c.page, listed |-> TRUE]
<1>1. /\ c.names \in [Sessions -> MaybeName] /\ c.loaded \in [Sessions -> Rows \cup {None}]
      /\ c.page \in [Sessions -> MaybeMessages] /\ c.listed \in BOOLEAN
      /\ c = [names |-> c.names, loaded |-> c.loaded, page |-> c.page, listed |-> c.listed]
  BY DEF CacheType
<1>2. CASE c.listed
  BY <1>2 DEF True, WithSummaries
<1>3. CASE ~c.listed
  <2>1. WithSummaries(c, t) = d
    BY <1>1, <1>3 DEF WithSummaries
  <2>2. \A s \in Sessions : t[s] \in Rows \cup {None}
    BY DEF Tables
  <2>3. names \in [Sessions -> MaybeName]
    BY <1>1, <2>2, RowFacts DEF MaybeName
  <2>4. d \in CacheType
    BY <1>1, <2>3 DEF CacheType
  <2>5. ASSUME NEW s \in Sessions PROVE Matches(d, t, s) /\ Lists(d, t, s)
    <3>1. d.names[s] = IF t[s] = None THEN c.names[s] ELSE t[s].name
      OBVIOUS
    <3>2. d.loaded[s] = c.loaded[s] /\ d.page[s] = c.page[s]
      OBVIOUS
    <3>3. t[s] # None => t[s].name # None
      BY <2>2, RowFacts
    <3>. QED
      BY <3>1, <3>2, <3>3 DEF Matches, Lists
  <2> HIDE DEF d
  <2>. QED
    BY <2>1, <2>4, <2>5 DEF True
<1>. QED
  BY <1>1, <1>2, <1>3

\* What is cached of one session changes, and of the others nothing.
LEMMA ChangedAt ==
  ASSUME CacheInv, NEW s \in Sessions, NEW c \in CacheType, NEW t \in Tables,
         c.listed = cache.listed,
         \A u \in Sessions \ {s} : /\ c.names[u] = cache.names[u] /\ c.loaded[u] = cache.loaded[u]
                                   /\ c.page[u] = cache.page[u] /\ t[u] = table[u],
         Matches(c, t, s), Lists(c, t, s)
  PROVE  True(c, t) /\ True(WithSummaries(c, t), t)
<1>1. ASSUME NEW u \in Sessions PROVE Matches(c, t, u) /\ Lists(c, t, u)
  <2>1. CASE u = s
    BY <2>1
  <2>2. CASE u # s
    BY <2>2 DEF CacheInv, True, Matches, Lists
  <2>. QED
    BY <2>1, <2>2
<1>. QED
  BY <1>1, Summarised DEF True

\* What the caches and the tables hold of a session.
LEMMA Holds ==
  ASSUME CacheInv, NEW s \in Sessions
  PROVE  /\ cache \in CacheType /\ table \in Tables
         /\ table[s] \in Rows \cup {None}
         /\ cache.names[s] \in MaybeName /\ cache.loaded[s] \in Rows \cup {None}
         /\ cache.page[s] \in MaybeMessages /\ cache.listed \in BOOLEAN
         /\ Matches(cache, table, s) /\ Lists(cache, table, s)
         /\ Summary(s) = IF table[s] = None THEN None ELSE table[s].name
         /\ Summary(s) \in MaybeName
<1>1. /\ cache \in CacheType /\ table \in Tables
      /\ Matches(cache, table, s) /\ Lists(cache, table, s)
  BY DEF CacheInv, True
<1>2. /\ cache.names[s] \in MaybeName /\ cache.loaded[s] \in Rows \cup {None}
      /\ cache.page[s] \in MaybeMessages /\ cache.listed \in BOOLEAN
  BY <1>1, CacheRecord
<1>3. table[s] \in Rows \cup {None}
  BY <1>1 DEF Tables
<1>4. Summary(s) = IF table[s] = None THEN None ELSE table[s].name
  BY <1>1 DEF Summary, Matches
<1>. QED
  BY <1>1, <1>2, <1>3, <1>4, RowFacts DEF MaybeName

LEMMA NamedTypes ==
  /\ \A s \in Sessions, n \in MaybeName : Named(s, n) \in Summaries
  /\ <<>> \in Summaries
  /\ \A c \in CacheType : c.names \in Summaries
  /\ None \in MaybeMessages /\ <<>> \in MaybeMessages /\ None \in MaybeName
<1>1. ASSUME NEW s \in Sessions, NEW n \in MaybeName PROVE Named(s, n) \in Summaries
  <2>1. Named(s, n) \in [{s} -> MaybeName]
    BY DEF Named
  <2>. QED
    BY <2>1 DEF Summaries
<1>2. \A c \in CacheType : c.names \in Summaries
  BY CacheRecord DEF Summaries
<1>. QED
  BY <1>1, <1>2, RowFacts DEF Summaries, MaybeMessages, MaybeName

\* The request that is served.
LEMMA ServedRequest ==
  ASSUME FlowTyped, NEW p \in Processes, NEW op, Served(p, op)
  PROVE  /\ wire[p] # <<>> /\ Head(wire[p]) \in Requests /\ Head(wire[p]).op = op
         /\ Head(wire[p]).name \in Names
         /\ Sent(op, Head(wire[p]).session)
         /\ op \notin ReadOps => Head(wire[p]).write \in Writes
<1>1. wire[p] # <<>> /\ Head(wire[p]).op = op /\ wire[p] \in Seq(Requests)
  BY DEF Served, FlowTyped
<1>2. Head(wire[p]) \in Requests
  BY <1>1, TakenOff
<1>. QED
  BY <1>1, <1>2, RequestFacts

LEMMA EnsureServed ==
  ASSUME CacheInv, FlowTyped, NEW p \in Processes, ServeEnsure(p)
  PROVE  CacheInv' /\ Answered(p)
<1> DEFINE s == Head(wire[p]).session
           n == IF Summary(s) = None THEN DefaultName ELSE Summary(s)
           row == [name |-> DefaultName, messages |-> <<>>]
<1>1. s \in Sessions /\ wire[p] # <<>>
  BY ServedRequest DEF ServeEnsure, Sent, SessionWrites, SessionReads
<1>2. /\ Answer(p, TRUE, Named(s, n), None)
      /\ \/ Summary(s) = None /\ EnsureNew(p, s)
         \/ /\ Summary(s) # None
            /\ cache' = [cache EXCEPT !.names[s] = Summary(s)]
            /\ UNCHANGED table
  BY DEF ServeEnsure
<1> HIDE DEF s
<1>3. n \in MaybeName /\ n \in Names
  BY <1>1, Holds, RowFacts DEF MaybeName
<1>4. Answered(p)
  BY <1>1, <1>2, <1>3, NamedTypes DEF Answered
<1>5. CASE Summary(s) = None /\ EnsureNew(p, s)
  <2> DEFINE c == [cache EXCEPT !.names[s] = DefaultName]
             t == [table EXCEPT ![s] = row]
  <2>1. table' = t /\ cache' = WithSummaries(c, t)
    BY <1>5 DEF EnsureNew
  <2>2. /\ c = CacheOf([cache.names EXCEPT ![s] = DefaultName], cache.loaded, cache.page,
                       cache.listed)
        /\ c \in CacheType
    BY <1>1, Holds, CacheNames, RowFacts DEF MaybeName
  <2>3. row \in Rows /\ row # None /\ row.name = DefaultName /\ row.messages = <<>>
    BY RowFacts
  <2>4. t \in Tables /\ t[s] = row /\ \A u \in Sessions \ {s} : t[u] = table[u]
    BY <1>1, <2>3, Holds DEF Tables
  <2> HIDE DEF c, t, row
  <2>5. /\ c.names[s] = DefaultName /\ c.loaded[s] = cache.loaded[s]
        /\ c.page[s] = cache.page[s] /\ c.listed = cache.listed
        /\ \A u \in Sessions \ {s} : /\ c.names[u] = cache.names[u] /\ c.loaded[u] = cache.loaded[u]
                                     /\ c.page[u] = cache.page[u]
    BY <1>1, <2>2, Holds, CacheRecord DEF CacheOf
  <2>6. table[s] = None
    BY <1>1, <1>5, Holds, RowFacts
  <2>7. Matches(c, t, s) /\ Lists(c, t, s)
    BY <1>1, <2>3, <2>4, <2>5, <2>6, Holds, RowFacts DEF Matches, Lists
  <2>8. True(WithSummaries(c, t), t)
    BY <1>1, <2>2, <2>4, <2>5, <2>7, ChangedAt
  <2>. QED
    BY <1>4, <2>1, <2>8 DEF CacheInv
<1>6. CASE Summary(s) # None /\ cache' = [cache EXCEPT !.names[s] = Summary(s)] /\ UNCHANGED table
  <2> DEFINE c == [cache EXCEPT !.names[s] = Summary(s)]
  <2>1. /\ c = CacheOf([cache.names EXCEPT ![s] = Summary(s)], cache.loaded, cache.page,
                       cache.listed)
        /\ c \in CacheType
    BY <1>1, Holds, CacheNames
  <2>2. cache' = c /\ table' = table
    BY <1>6
  <2> HIDE DEF c
  <2>3. /\ c.names[s] = Summary(s) /\ c.loaded[s] = cache.loaded[s]
        /\ c.page[s] = cache.page[s] /\ c.listed = cache.listed
        /\ \A u \in Sessions \ {s} : /\ c.names[u] = cache.names[u] /\ c.loaded[u] = cache.loaded[u]
                                     /\ c.page[u] = cache.page[u]
    BY <1>1, <2>1, Holds, CacheRecord DEF CacheOf
  <2>4. Matches(c, table, s) /\ Lists(c, table, s)
    BY <1>1, <1>6, <2>3, Holds DEF Matches, Lists
  <2>5. table \in Tables
    BY <1>1, Holds
  <2>6. True(c, table)
    BY <1>1, <2>1, <2>3, <2>4, <2>5, ChangedAt
  <2>. QED
    BY <1>4, <2>2, <2>6 DEF CacheInv
<1>. QED
  BY <1>2, <1>5, <1>6

\* cacheSession of queue-service
LEMMA LoadedTrue ==
  ASSUME CacheInv, NEW s \in Sessions
  PROVE  True(Loaded(cache, table, s), table)
<1> DEFINE c == [cache EXCEPT !.loaded[s] = table[s], !.names[s] = table[s].name]
<1>1. CASE table[s] = None
  BY <1>1 DEF Loaded, CacheInv
<1>2. CASE table[s] # None
  <2>1. /\ table[s] \in Rows /\ table[s].name \in Names /\ table[s].name \in MaybeName
        /\ table[s].name # None /\ cache \in CacheType /\ table \in Tables
    BY <1>2, Holds, RowFacts DEF MaybeName
  <2>2. Loaded(cache, table, s) = c
    BY <1>2 DEF Loaded
  <2>3. /\ c = CacheOf([cache.names EXCEPT ![s] = table[s].name],
                       [cache.loaded EXCEPT ![s] = table[s]], cache.page, cache.listed)
        /\ c \in CacheType
    BY Zenon, <2>1, CacheBoth, NamedTypes
  <2> HIDE DEF c
  <2>4. /\ c.names[s] = table[s].name /\ c.loaded[s] = table[s]
        /\ c.page[s] = cache.page[s] /\ c.listed = cache.listed
        /\ \A u \in Sessions \ {s} : /\ c.names[u] = cache.names[u] /\ c.loaded[u] = cache.loaded[u]
                                     /\ c.page[u] = cache.page[u]
    BY <2>1, <2>3, CacheRecord DEF CacheOf
  <2>5. Matches(c, table, s) /\ Lists(c, table, s)
    BY <1>2, <2>1, <2>4, Holds DEF Matches, Lists
  <2>6. True(c, table)
    BY <2>1, <2>3, <2>4, <2>5, ChangedAt
  <2>. QED
    BY <2>2, <2>6
<1>. QED
  BY <1>1, <1>2

LEMMA LoadServed ==
  ASSUME CacheInv, FlowTyped, NEW p \in Processes, ServeLoad(p)
  PROVE  CacheInv' /\ Answered(p)
<1> DEFINE s == Head(wire[p]).session
           row == IF cache.loaded[s] # None THEN cache.loaded[s] ELSE table[s]
           n == IF row = None THEN None ELSE row.name
           m == IF row = None THEN None ELSE row.messages
<1>1. s \in Sessions /\ wire[p] # <<>>
  BY ServedRequest DEF ServeLoad, Sent, SessionWrites, SessionReads
<1>2. /\ Answer(p, TRUE, Named(s, n), m)
      /\ cache' = IF cache.loaded[s] # None THEN cache ELSE Loaded(cache, table, s)
      /\ table' = table
  BY Zenon DEF ServeLoad
<1> HIDE DEF s
<1>3. row \in Rows \cup {None}
  BY <1>1, Holds
<1>4. n \in MaybeName /\ m \in MaybeMessages
  BY <1>3, RowFacts DEF MaybeName, MaybeMessages
<1> HIDE DEF n, m, row
<1>5. Named(s, n) \in Summaries
  BY <1>1, <1>4, NamedTypes
<1>6. Answered(p)
  BY <1>1, <1>2, <1>4, <1>5 DEF Answered
<1>7. CacheInv'
  BY <1>1, <1>2, LoadedTrue DEF CacheInv
<1>. QED
  BY <1>6, <1>7

LEMMA RenameServed ==
  ASSUME CacheInv, FlowTyped, NEW p \in Processes, ServeRename(p)
  PROVE  CacheInv' /\ Answered(p)
<1> DEFINE s == Head(wire[p]).session
           new == Head(wire[p]).name
           n == IF table[s] = None THEN None ELSE new
           loaded == IF cache.loaded[s] = None THEN None
                     ELSE [cache.loaded[s] EXCEPT !.name = new]
           t == [table EXCEPT ![s].name = new]
           c == [cache EXCEPT !.names[s] = new, !.loaded[s] = loaded]
<1>1. s \in Sessions /\ wire[p] # <<>> /\ new \in Names
  BY ServedRequest DEF ServeRename, Sent, SessionWrites, SessionReads
<1>2. /\ Answer(p, TRUE, Named(s, n), None)
      /\ \/ table' = table /\ cache' = cache
         \/ table[s] # None /\ table' = t /\ cache' = WithSummaries(c, table')
  BY DEF ServeRename
<1> HIDE DEF s, new
<1>3. n \in MaybeName /\ None \in MaybeMessages
  BY <1>1, NamedTypes DEF MaybeName
<1>4. Answered(p)
  BY <1>1, <1>2, <1>3, NamedTypes DEF Answered
<1>5. CASE table[s] # None /\ table' = t /\ cache' = WithSummaries(c, table')
  <2>1. /\ table[s] \in Rows /\ cache \in CacheType /\ table \in Tables
        /\ new \in MaybeName /\ new # None /\ cache.loaded[s] \in {None, table[s]}
        /\ cache.loaded[s] \in Rows \cup {None}
    BY <1>1, <1>5, Holds, RowFacts DEF MaybeName, Matches
  <2>2. /\ t[s] = [table[s] EXCEPT !.name = new] /\ \A u \in Sessions \ {s} : t[u] = table[u]
        /\ t \in [Sessions -> Rows \cup {None, [table[s] EXCEPT !.name = new]}]
    BY <1>1, <2>1 DEF Tables
  <2>3. /\ [table[s] EXCEPT !.name = new] \in Rows
        /\ [table[s] EXCEPT !.name = new].name = new
        /\ [table[s] EXCEPT !.name = new].messages = table[s].messages
    BY <1>1, <2>1 DEF Rows
  <2>4. t \in Tables /\ t[s] \in Rows /\ t[s] # None /\ t[s].name = new
        /\ t[s].messages = table[s].messages
    BY <2>2, <2>3, RowFacts DEF Tables
  <2>5. loaded \in Rows \cup {None} /\ loaded \in {None, t[s]}
    BY <2>1, <2>2, <2>3
  <2> HIDE DEF t, loaded
  <2>6. /\ c = CacheOf([cache.names EXCEPT ![s] = new], [cache.loaded EXCEPT ![s] = loaded],
                       cache.page, cache.listed)
        /\ c \in CacheType
    <3>1. cache \in CacheType /\ s \in Sessions /\ new \in MaybeName /\ loaded \in Rows \cup {None}
      BY <1>1, <2>1, <2>5
    <3> HIDE DEF CacheType, MaybeName, Rows
    <3>. QED
      BY Zenon, <3>1, CacheBoth
  <2> HIDE DEF c
  <2>7. /\ c.names[s] = new /\ c.loaded[s] = loaded
        /\ c.page[s] = cache.page[s] /\ c.listed = cache.listed
        /\ \A u \in Sessions \ {s} : /\ c.names[u] = cache.names[u] /\ c.loaded[u] = cache.loaded[u]
                                     /\ c.page[u] = cache.page[u]
    BY <1>1, <2>1, <2>6, CacheRecord DEF CacheOf
  <2>8. Matches(c, t, s) /\ Lists(c, t, s)
    BY <1>1, <1>5, <2>1, <2>4, <2>5, <2>7, Holds DEF Matches, Lists
  <2>9. True(WithSummaries(c, t), t)
    BY <1>1, <2>2, <2>4, <2>6, <2>7, <2>8, ChangedAt
  <2>. QED
    BY <1>4, <1>5, <2>9 DEF CacheInv
<1>. QED
  BY <1>2, <1>4, <1>5 DEF CacheInv

LEMMA ClearServed ==
  ASSUME CacheInv, FlowTyped, NEW p \in Processes, ServeClear(p)
  PROVE  CacheInv' /\ Answered(p)
<1> DEFINE s == Head(wire[p]).session
           name == IF Summary(s) = None THEN DefaultName ELSE Summary(s)
           row == [name |-> name, messages |-> <<>>]
           t == [table EXCEPT ![s] = IF table[s] = None /\ Summary(s) # None THEN None ELSE row]
           c == [cache EXCEPT !.names[s] = name, !.loaded[s] = row, !.page[s] = None]
<1>1. s \in Sessions /\ wire[p] # <<>>
  BY ServedRequest DEF ServeClear, Sent, SessionWrites, SessionReads
<1>2. /\ Answer(p, TRUE, Named(s, name), None)
      /\ table' = t
      /\ cache' = WithSummaries(c, table')
  BY DEF ServeClear
<1> HIDE DEF s
<1>3. name \in MaybeName /\ name \in Names
  BY <1>1, Holds, RowFacts DEF MaybeName
<1>4. Answered(p)
  BY <1>1, <1>2, <1>3, NamedTypes DEF Answered
<1>5. row \in Rows /\ row # None /\ row.name = name /\ row.messages = <<>> /\ name # None
  BY <1>3, RowFacts
<1> HIDE DEF name, row
<1>6. cache \in CacheType /\ table \in Tables /\ ~(table[s] = None /\ Summary(s) # None)
  BY <1>1, Holds
<1>7. t \in Tables /\ t[s] = row /\ \A u \in Sessions \ {s} : t[u] = table[u]
  BY <1>1, <1>5, <1>6 DEF Tables
<1> HIDE DEF t
<1>8. /\ c = CacheOf([cache.names EXCEPT ![s] = name], [cache.loaded EXCEPT ![s] = row],
                     [cache.page EXCEPT ![s] = None], cache.listed)
      /\ c \in CacheType
  <2>1. row \in Rows \cup {None} /\ None \in MaybeMessages
    BY <1>5, NamedTypes
  <2> HIDE DEF CacheType, MaybeName, MaybeMessages, Rows
  <2>. QED
    BY Zenon, <1>1, <1>3, <1>6, <2>1, CacheAll
<1> HIDE DEF c
<1>9. /\ c.names[s] = name /\ c.loaded[s] = row
      /\ c.page[s] = None /\ c.listed = cache.listed
      /\ \A u \in Sessions \ {s} : /\ c.names[u] = cache.names[u] /\ c.loaded[u] = cache.loaded[u]
                                   /\ c.page[u] = cache.page[u]
  BY <1>1, <1>6, <1>8, CacheRecord DEF CacheOf
<1>10. Matches(c, t, s) /\ Lists(c, t, s)
  BY <1>5, <1>7, <1>9 DEF Matches, Lists
<1>11. True(WithSummaries(c, t), t)
  BY <1>1, <1>7, <1>8, <1>9, <1>10, ChangedAt
<1>. QED
  BY <1>2, <1>4, <1>11 DEF CacheInv

LEMMA DeleteServed ==
  ASSUME CacheInv, FlowTyped, NEW p \in Processes, ServeDelete(p)
  PROVE  CacheInv' /\ Answered(p)
<1> DEFINE r == Head(wire[p])
           gone == IF r.op = "delete" THEN {r.session} ELSE Sessions
           Without(f) == [s \in Sessions |-> IF s \in gone THEN None ELSE f[s]]
           t == Without(table)
           c == [names |-> Without(cache.names), loaded |-> Without(cache.loaded),
                 page |-> Without(cache.page), listed |-> cache.listed \/ r.op = "deleteAll"]
<1>1. /\ wire[p] # <<>> /\ r.op \in {"delete", "deleteAll"}
      /\ gone \subseteq Sessions
      /\ r.op = "deleteAll" => gone = Sessions
  BY ServedRequest DEF ServeDelete, Sent, SessionWrites, SessionReads
<1>2. Answer(p, TRUE, <<>>, None) /\ table' = t /\ cache' = WithSummaries(c, table')
  BY DEF ServeDelete
<1>3. Answered(p)
  BY <1>1, <1>2, NamedTypes DEF Answered
<1> HIDE DEF r, gone
<1>4. /\ cache \in CacheType /\ table \in Tables
      /\ \A s \in Sessions : Matches(cache, table, s) /\ Lists(cache, table, s)
  BY DEF CacheInv, True
<1>5. /\ cache.names \in [Sessions -> MaybeName] /\ cache.loaded \in [Sessions -> Rows \cup {None}]
      /\ cache.page \in [Sessions -> MaybeMessages] /\ cache.listed \in BOOLEAN
  BY <1>4, CacheRecord
<1>6. t \in Tables
  BY <1>4 DEF Tables
<1>7. c \in CacheType
  <2>1. Without(cache.names) \in [Sessions -> MaybeName]
    BY <1>5 DEF MaybeName
  <2>2. Without(cache.loaded) \in [Sessions -> Rows \cup {None}]
    BY <1>5
  <2>3. Without(cache.page) \in [Sessions -> MaybeMessages]
    BY <1>5 DEF MaybeMessages
  <2>4. (cache.listed \/ r.op = "deleteAll") \in BOOLEAN
    BY <1>5
  <2> HIDE DEF Without
  <2>. QED
    BY <2>1, <2>2, <2>3, <2>4 DEF CacheType
<1>8. ASSUME NEW s \in Sessions PROVE Matches(c, t, s) /\ Lists(c, t, s)
  <2>1. /\ c.names[s] = IF s \in gone THEN None ELSE cache.names[s]
        /\ c.loaded[s] = IF s \in gone THEN None ELSE cache.loaded[s]
        /\ c.page[s] = IF s \in gone THEN None ELSE cache.page[s]
        /\ t[s] = IF s \in gone THEN None ELSE table[s]
        /\ c.listed <=> (cache.listed \/ r.op = "deleteAll")
    OBVIOUS
  <2> HIDE DEF c, t
  <2>2. Matches(cache, table, s) /\ Lists(cache, table, s)
    BY <1>4
  <2>3. CASE s \in gone
    BY <2>1, <2>3 DEF Matches, Lists
  <2>4. CASE s \notin gone
    <3>1. c.listed <=> cache.listed
      BY <1>1, <2>1, <2>4
    <3>. QED
      BY <2>1, <2>2, <2>4, <3>1 DEF Matches, Lists
  <2>. QED
    BY <2>3, <2>4
<1> HIDE DEF c, t
<1>9. True(WithSummaries(c, t), t)
  BY <1>6, <1>7, <1>8, Summarised
<1>. QED
  BY <1>2, <1>3, <1>9 DEF CacheInv

LEMMA RowWith ==
  ASSUME NEW row \in Rows, NEW m
  PROVE  /\ [row EXCEPT !.messages = m] = [name |-> row.name, messages |-> m]
         /\ [row EXCEPT !.messages = m].name = row.name
         /\ [row EXCEPT !.messages = m].messages = m
<1>. HIDE DEF Messages
<1>. QED
  BY DEF Rows

LEMMA AppendServed ==
  ASSUME CacheInv, FlowTyped, NEW p \in Processes, ServeAppend(p)
  PROVE  CacheInv' /\ Answered(p)
<1> DEFINE r == Head(wire[p])
           s == r.session
           row == [table[s] EXCEPT !.messages = Append(table[s].messages, r.write)]
           t == [table EXCEPT ![s] = row]
           d == [cache EXCEPT !.loaded[s] = row, !.names[s] = row.name]
           c == [d EXCEPT !.page[s] = row.messages]
<1>1. /\ s \in Sessions /\ wire[p] # <<>> /\ r.op = "append" /\ r.write \in Writes
  <2>1. Served(p, "append")
    BY DEF ServeAppend
  <2>2. /\ wire[p] # <<>> /\ r.op = "append" /\ Sent("append", s)
        /\ "append" \notin ReadOps => r.write \in Writes
    BY <2>1, ServedRequest
  <2>3. "append" \notin ReadOps
    BY DEF ReadOps, SessionReads
  <2>4. s \in Sessions
    BY <2>2 DEF Sent
  <2>. QED
    BY <2>2, <2>3, <2>4
<1>2. \/ /\ table' = table /\ cache' = cache
         /\ Answer(p, FALSE, <<>>, None)
      \/ /\ table[s] # None
         /\ Answer(p, TRUE, <<>>, row.messages)
         /\ table' = t
         /\ cache' = WithSummaries([Loaded(cache, table', s) EXCEPT !.page[s] = row.messages],
                                   table')
  BY DEF ServeAppend
<1>3. CASE table' = table /\ cache' = cache /\ Answer(p, FALSE, <<>>, None)
  <2>1. Answered(p)
    BY <1>1, <1>3, NamedTypes DEF Answered
  <2>. QED
    BY <1>3, <2>1 DEF CacheInv
<1>4. CASE /\ table[s] # None
           /\ Answer(p, TRUE, <<>>, row.messages)
           /\ table' = t
           /\ cache' = WithSummaries([Loaded(cache, table', s) EXCEPT !.page[s] = row.messages],
                                     table')
  <2>1. /\ table[s] \in Rows /\ cache \in CacheType /\ table \in Tables
        /\ table[s].name \in Names /\ table[s].messages \in Messages
    BY Zenon, <1>1, <1>4, Holds, RowFacts
  <2>2. Append(table[s].messages, r.write) \in Messages
    <3>1. table[s].messages \in Seq({0} \cup Writes) /\ r.write \in {0} \cup Writes
      BY <1>1, <2>1 DEF Messages
    <3>. QED
      BY <3>1, Appended DEF Messages
  <2>3. /\ row = [name |-> table[s].name, messages |-> Append(table[s].messages, r.write)]
        /\ row.name = table[s].name
        /\ row.messages = Append(table[s].messages, r.write)
    BY Zenon, <2>1, RowWith
  <2>4. row \in Rows /\ row # None /\ row.name \in MaybeName /\ row.messages \in MaybeMessages
        /\ row.name # None
    BY Zenon, <2>1, <2>2, <2>3, RowFacts DEF MaybeName, MaybeMessages
  <2>5. Answered(p)
    BY Zenon, <1>1, <1>4, <2>4, NamedTypes DEF Answered
  <2> HIDE DEF r, row
  <2>6. t \in Tables /\ t[s] = row /\ \A u \in Sessions \ {s} : t[u] = table[u]
    BY <1>1, <2>1, <2>4 DEF Tables
  <2>7. Loaded(cache, t, s) = d
    BY <2>4, <2>6 DEF Loaded
  <2> HIDE DEF t
  <2>8. /\ d = CacheOf([cache.names EXCEPT ![s] = row.name], [cache.loaded EXCEPT ![s] = row],
                       cache.page, cache.listed)
        /\ d \in CacheType
    <3>1. cache \in CacheType /\ s \in Sessions /\ row.name \in MaybeName
          /\ row \in Rows \cup {None}
      BY <1>1, <2>1, <2>4
    <3> HIDE DEF CacheType, MaybeName, Rows, s
    <3>. QED
      BY Zenon, <3>1, CacheBoth
  <2> HIDE DEF d
  <2>9. /\ c = CacheOf(d.names, d.loaded, [d.page EXCEPT ![s] = row.messages], d.listed)
        /\ c \in CacheType
    <3>1. d \in CacheType /\ s \in Sessions /\ row.messages \in MaybeMessages
      BY <1>1, <2>4, <2>8
    <3> HIDE DEF CacheType, MaybeMessages, s
    <3>. QED
      BY <3>1, CachePage
  <2> HIDE DEF c
  <2>10. /\ c.names[s] = row.name /\ c.loaded[s] = row
         /\ c.page[s] = row.messages /\ c.listed = cache.listed
         /\ \A u \in Sessions \ {s} : /\ c.names[u] = cache.names[u]
                                      /\ c.loaded[u] = cache.loaded[u] /\ c.page[u] = cache.page[u]
    <3>1. /\ d.names[s] = row.name /\ d.loaded[s] = row /\ d.listed = cache.listed
          /\ \A u \in Sessions \ {s} : d.names[u] = cache.names[u] /\ d.loaded[u] = cache.loaded[u]
          /\ d.page = cache.page
      BY <1>1, <2>1, <2>8, CacheRecord DEF CacheOf
    <3>2. cache.page \in [Sessions -> MaybeMessages]
      BY <2>1, CacheRecord
    <3>. QED
      BY <1>1, <2>9, <3>1, <3>2 DEF CacheOf
  <2>11. Matches(c, t, s) /\ Lists(c, t, s)
    BY <2>4, <2>6, <2>10 DEF Matches, Lists
  <2>12. True(WithSummaries(c, t), t)
    BY <1>1, <2>6, <2>9, <2>10, <2>11, ChangedAt
  <2>13. cache' = WithSummaries(c, t)
    BY <1>4, <2>7 DEF c
  <2>. QED
    BY <1>4, <2>5, <2>12, <2>13 DEF CacheInv
<1>. QED
  BY <1>2, <1>3, <1>4

LEMMA PageServed ==
  ASSUME CacheInv, FlowTyped, NEW p \in Processes, ServePage(p)
  PROVE  CacheInv' /\ Answered(p)
<1> DEFINE s == Head(wire[p]).session
           m == Page(cache, table, s)
           c == [cache EXCEPT !.page[s] = m]
<1>1. s \in Sessions /\ wire[p] # <<>>
  BY ServedRequest DEF ServePage, Sent, SessionWrites, SessionReads
<1>2. Answer(p, TRUE, <<>>, m) /\ cache' = c /\ table' = table
  BY DEF ServePage
<1> HIDE DEF s
<1>3. /\ m \in MaybeMessages /\ m = IF table[s] = None THEN <<>> ELSE table[s].messages
      /\ cache \in CacheType /\ table \in Tables
  BY <1>1, Holds, RowFacts DEF Page, MaybeMessages, Matches
<1>4. Answered(p)
  BY <1>1, <1>2, <1>3, NamedTypes DEF Answered
<1> HIDE DEF m
<1>5. /\ c = CacheOf(cache.names, cache.loaded, [cache.page EXCEPT ![s] = m], cache.listed)
      /\ c \in CacheType
  BY <1>1, <1>3, CachePage
<1> HIDE DEF c
<1>6. /\ c.names = cache.names /\ c.loaded = cache.loaded /\ c.listed = cache.listed
      /\ c.page[s] = m /\ \A u \in Sessions \ {s} : c.page[u] = cache.page[u]
  BY <1>1, <1>3, <1>5, CacheRecord DEF CacheOf
<1>7. Matches(c, table, s) /\ Lists(c, table, s)
  BY <1>1, <1>3, <1>6, Holds DEF Matches, Lists
<1>8. True(c, table)
  BY <1>1, <1>3, <1>5, <1>6, <1>7, ChangedAt
<1>. QED
  BY <1>2, <1>4, <1>8 DEF CacheInv

LEMMA SummaryServed ==
  ASSUME CacheInv, FlowTyped, NEW p \in Processes, ServeSummary(p)
  PROVE  CacheInv' /\ Answered(p)
<1> DEFINE s == Head(wire[p]).session
           n == Summary(s)
           c == [cache EXCEPT !.names[s] = n]
<1>1. s \in Sessions /\ wire[p] # <<>>
  BY ServedRequest DEF ServeSummary, Sent, SessionWrites, SessionReads
<1>2. Answer(p, TRUE, Named(s, n), None) /\ cache' = c /\ table' = table
  BY DEF ServeSummary
<1> HIDE DEF s
<1>3. /\ n \in MaybeName /\ n = IF table[s] = None THEN None ELSE table[s].name
      /\ cache \in CacheType /\ table \in Tables
  BY <1>1, Holds
<1>4. Answered(p)
  BY <1>1, <1>2, <1>3, NamedTypes DEF Answered
<1> HIDE DEF n
<1>5. /\ c = CacheOf([cache.names EXCEPT ![s] = n], cache.loaded, cache.page, cache.listed)
      /\ c \in CacheType
  BY <1>1, <1>3, CacheNames
<1> HIDE DEF c
<1>6. /\ c.page = cache.page /\ c.loaded = cache.loaded /\ c.listed = cache.listed
      /\ c.names[s] = n /\ \A u \in Sessions \ {s} : c.names[u] = cache.names[u]
  BY <1>1, <1>3, <1>5, CacheRecord DEF CacheOf
<1>7. Matches(c, table, s) /\ Lists(c, table, s)
  BY <1>1, <1>3, <1>6, Holds, RowFacts DEF Matches, Lists
<1>8. True(c, table)
  BY <1>1, <1>3, <1>5, <1>6, <1>7, ChangedAt
<1>. QED
  BY <1>2, <1>4, <1>8 DEF CacheInv

LEMMA LastIdServed ==
  ASSUME CacheInv, FlowTyped, NEW p \in Processes, ServeLastId(p)
  PROVE  CacheInv' /\ Answered(p)
<1> DEFINE s == Head(wire[p]).session
           m == IF table[s] = None THEN <<>> ELSE table[s].messages
<1>1. s \in Sessions /\ wire[p] # <<>>
  BY ServedRequest DEF ServeLastId, Sent, SessionWrites, SessionReads
<1>2. Answer(p, TRUE, <<>>, m) /\ cache' = cache /\ table' = table
  BY DEF ServeLastId
<1>3. m \in MaybeMessages
  BY <1>1, Holds, RowFacts DEF MaybeMessages
<1>. QED
  BY <1>1, <1>2, <1>3, NamedTypes DEF Answered, CacheInv

LEMMA ListServed ==
  ASSUME CacheInv, FlowTyped, NEW p \in Processes, ServeList(p)
  PROVE  CacheInv' /\ Answered(p)
<1>1. wire[p] # <<>>
  BY DEF ServeList, Served
<1>2. True(WithSummaries(cache, table), table)
  BY Summarised DEF CacheInv, True
<1>3. WithSummaries(cache, table).names \in Summaries
  BY <1>2, NamedTypes DEF True
<1>4. /\ Answer(p, TRUE, WithSummaries(cache, table).names, None)
      /\ cache' = WithSummaries(cache, table) /\ table' = table
  BY DEF ServeList
<1>. QED
  BY <1>1, <1>2, <1>3, <1>4, NamedTypes DEF Answered, CacheInv

\* Whatever is asked, the caches say what the tables say, before and after.
LEMMA ServeKeepsCaches ==
  ASSUME CacheInv, FlowTyped, NEW p \in Processes, Serve(p)
  PROVE  CacheInv' /\ Answered(p)
BY EnsureServed, LoadServed, RenameServed, ClearServed, DeleteServed, AppendServed, PageServed,
   SummaryServed, LastIdServed, ListServed DEF Serve

-----------------------------------------------------------------------------
(* Promises: what is settled is no longer waited for, and nothing else.      *)

LEMMA Batches ==
  /\ \A p \in Processes : \A w :
       w \in InBatches(p) <=> \E f \in Flushes : running[p][f] # None /\ w \in running[p][f]
  /\ \A b \in SUBSET Writes : b # None
BY SessionStateAssumption DEF InBatches

LEMMA SettleFacts ==
  ASSUME FlowTyped, NEW p \in Processes, NEW w, Settle(p, w)
  PROVE  /\ pending' = [pending EXCEPT ![p] = pending[p] \ {w}]
         /\ pending' \in [Processes -> SUBSET Writes]
         /\ running' \in [Processes -> [Flushes -> (SUBSET Writes) \cup {None}]]
         /\ \A q \in Processes, f \in Flushes : running'[q][f] = None <=> running[q][f] = None
         /\ \A q \in Processes \ {p} : InBatches(q)' = InBatches(q)
         /\ InBatches(p)' = InBatches(p) \ {w}
<1> DEFINE n == [f \in Flushes |-> IF running[p][f] = None THEN None ELSE running[p][f] \ {w}]
<1>1. /\ pending' = [pending EXCEPT ![p] = pending[p] \ {w}]
      /\ running' = [running EXCEPT ![p] = n]
  BY DEF Settle
<1>2. /\ pending \in [Processes -> SUBSET Writes]
      /\ running \in [Processes -> [Flushes -> (SUBSET Writes) \cup {None}]]
  BY DEF FlowTyped
<1>3. n \in [Flushes -> (SUBSET Writes) \cup {None}]
  <2>1. \A f \in Flushes : running[p][f] \in (SUBSET Writes) \cup {None}
    BY <1>2
  <2>. QED
    BY <2>1
<1>4. \A f \in Flushes : n[f] = IF running[p][f] = None THEN None ELSE running[p][f] \ {w}
  OBVIOUS
<1> HIDE DEF n
<1>5. running'[p] = n /\ \A q \in Processes \ {p} : running'[q] = running[q]
  BY <1>1, <1>2
<1>6. pending' \in [Processes -> SUBSET Writes]
  BY <1>1, <1>2
<1>7. running' \in [Processes -> [Flushes -> (SUBSET Writes) \cup {None}]]
  BY <1>1, <1>2, <1>3
<1>8. \A f \in Flushes : n[f] = None <=> running[p][f] = None
  <2>1. \A f \in Flushes : running[p][f] # None => running[p][f] \ {w} \in SUBSET Writes
    BY <1>2
  <2>. QED
    BY <1>4, <2>1, Batches
<1>9. \A q \in Processes \ {p} : InBatches(q)' = InBatches(q)
  BY <1>5 DEF InBatches
<1>10. \A x : x \in InBatches(p)' <=> \E f \in Flushes : n[f] # None /\ x \in n[f]
  BY <1>5 DEF InBatches
<1>11. \A x : x \in InBatches(p)' <=> x \in InBatches(p) /\ x # w
  <2>1. \A x : x \in InBatches(p) <=> \E f \in Flushes : running[p][f] # None /\ x \in running[p][f]
    BY Batches
  <2>2. \A f \in Flushes : \A x :
          (n[f] # None /\ x \in n[f]) <=> (running[p][f] # None /\ x \in running[p][f] /\ x # w)
    BY <1>4, <1>8
  <2>3. ASSUME NEW x PROVE x \in InBatches(p)' <=> x \in InBatches(p) /\ x # w
    BY <1>10, <2>1, <2>2
  <2>. QED
    BY <2>3
<1>. QED
  BY <1>1, <1>5, <1>6, <1>7, <1>8, <1>9, <1>11

\* What it is to receive a reply: the write it is about is settled, perhaps with an error;
\* or it was the first half of an append or of a preload, and the second half is sent; or
\* it ends a preload, which nobody waits for.
Received1(p, r) ==
  /\ r.write \in Writes /\ Settle(p, r.write) /\ wire' = wire
  /\ \/ r.ok /\ errors' = errors
     \/ ~r.ok /\ errors' = [errors EXCEPT ![p] = Append(errors[p], r.write)]
Received2(p, r) ==
  /\ r.ok /\ UNCHANGED <<pending, running, errors>>
  /\ \/ wire' = wire /\ r.write = 0
     \/ \E q \in Requests : /\ wire' = [wire EXCEPT ![p] = Append(wire[p], q)]
                            /\ q.write = r.write /\ q.awaited

LEMMA ReceiveCases ==
  ASSUME FlowTyped, NEW p \in Processes, Receive(p)
  PROVE  /\ replies[p] # <<>> /\ Head(replies[p]) \in Replies /\ Fits(Head(replies[p]))
         /\ replies' = [replies EXCEPT ![p] = Tail(replies[p])]
         /\ UNCHANGED <<table, cache, used, mine, stored, thrown>>
         /\ Received1(p, Head(replies[p])) \/ Received2(p, Head(replies[p]))
<1> DEFINE r == Head(replies[p])
<1>1. replies[p] # <<>>
  BY Zenon DEF Receive, ReceiveSummaryOfWrite, ReceiveDeleted, ReceiveAppended, ReceiveReloaded,
         ReceiveError, ReceiveLoaded, ReceiveLastId, ReceivePage, ReceiveSummary, ReceiveList,
         Received
<1>2. r \in Replies /\ Fits(r)
  BY <1>1, TakenOff DEF FlowTyped
<1>3. /\ replies' = [replies EXCEPT ![p] = Tail(replies[p])]
      /\ UNCHANGED <<table, cache, used, mine, stored, thrown>>
  BY Zenon DEF Receive, ReceiveSummaryOfWrite, ReceiveDeleted, ReceiveAppended, ReceiveReloaded,
         ReceiveError, ReceiveLoaded, ReceiveLastId, ReceivePage, ReceiveSummary, ReceiveList,
         Taken, Unheard, ghosts
<1> HIDE DEF r
<1>4. CASE ReceiveSummaryOfWrite(p) \/ ReceiveDeleted(p) \/ ReceiveReloaded(p)
  <2>1. /\ r.op \in {"ensure", "rename", "clear", "delete", "deleteAll", "reload"}
        /\ Settle(p, r.write) /\ wire' = wire /\ errors' = errors
    BY <1>4 DEF ReceiveSummaryOfWrite, ReceiveDeleted, ReceiveReloaded, Received, Unsent, r
  <2>2. r.ok /\ r.write \in Writes
    BY <1>2, <2>1 DEF Fits, SessionWrites, Replies
  <2>. QED
    BY <1>1, <1>2, <1>3, <2>1, <2>2 DEF Received1, r
<1>5. CASE ReceiveError(p)
  <2>1. /\ ~r.ok /\ Settle(p, r.write) /\ wire' = wire
        /\ errors' = [errors EXCEPT ![p] = Append(errors[p], r.write)]
    BY <1>5 DEF ReceiveError, Unsent, r
  <2>2. r.write \in Writes
    BY <1>2, <2>1 DEF Fits, SessionWrites
  <2>. QED
    BY <1>1, <1>2, <1>3, <2>1, <2>2 DEF Received1, r
<1>6. CASE ReceiveAppended(p) \/ ReceiveLoaded(p) \/ ReceivePage(p)
  <2> DEFINE Asks(op, w) ==
        /\ wire' = [wire EXCEPT ![p] = Append(wire[p], Request(op, r.session, w, DefaultName))]
        /\ IF op = "reload" THEN r.op = "append" /\ w = r.write
           ELSE r.op \in {"load", "page"} /\ w = 0
  <2>1. /\ r.op \in {"append", "load", "page"} /\ UNCHANGED <<pending, running, errors>>
        /\ r.op = "append" => r.ok
        /\ \E op \in {"reload", "lastId", "summary"} : \E w \in {0, r.write} : Asks(op, w)
    BY <1>6 DEF ReceiveAppended, ReceiveLoaded, ReceivePage, Received, SendNext, r
  <2>2. /\ r.session \in Sessions /\ r.ok
        /\ r.op = "append" => r.write \in Writes
        /\ r.op # "append" => r.write = 0
    BY <1>2, <2>1 DEF Fits, SessionWrites, SessionReads, Replies
  <2>3. PICK op \in {"reload", "lastId", "summary"} : \E w \in {0, r.write} : Asks(op, w)
    BY <2>1
  <2>31. PICK w \in {0, r.write} : Asks(op, w)
    BY <2>3
  <2>4. w = r.write /\ Sent(op, r.session) /\ (IF op \in ReadOps THEN w = 0 ELSE w \in Writes)
    BY <2>2, <2>31 DEF Sent, ReadOps, SessionReads, SessionWrites
  <2> DEFINE q == Request(op, r.session, w, DefaultName)
  <2>5. q \in Requests /\ q.write = r.write /\ q.awaited
    BY <2>4, RequestTypes, SessionStateAssumption
  <2> HIDE DEF q
  <2>6. wire' = [wire EXCEPT ![p] = Append(wire[p], q)]
    BY <2>31 DEF q
  <2>. QED
    BY <1>1, <1>2, <1>3, <2>1, <2>2, <2>5, <2>6 DEF Received2, r
<1>7. CASE ReceiveLastId(p) \/ ReceiveSummary(p) \/ ReceiveList(p)
  <2>1. /\ r.op \in {"lastId", "summary", "list"} /\ UNCHANGED <<pending, running, errors>>
        /\ wire' = wire
    BY <1>7 DEF ReceiveLastId, ReceiveSummary, ReceiveList, Received, Unsent, r
  <2>2. r.ok /\ r.write = 0
    BY <1>2, <2>1 DEF Fits, SessionReads, Replies
  <2>. QED
    BY <1>1, <1>2, <1>3, <2>1, <2>2 DEF Received2, r
<1>. QED
  BY <1>4, <1>5, <1>6, <1>7 DEF Receive

-----------------------------------------------------------------------------
(* No write is lost on its way: each kind of step.                          *)

\* a process of which nothing changes
LEMMA Untouched ==
  ASSUME NEW q \in Processes, KeptBy(q), OnItsWay(q),
         wire'[q] = wire[q], replies'[q] = replies[q], pending'[q] = pending[q],
         InBatches(q)' = InBatches(q), errors'[q] = errors[q], mine'[q] = mine[q],
         stored \subseteq stored', thrown \subseteq thrown'
  PROVE  KeptBy(q)' /\ OnItsWay(q)'
BY DEF KeptBy, OnItsWay, Awaited

\* only one process is concerned
LEMMA OneProcess ==
  ASSUME FlowInv, NEW p \in Processes, FlowTyped', KeptBy(p)', OnItsWay(p)',
         \A q \in Processes \ {p} :
           /\ wire'[q] = wire[q] /\ replies'[q] = replies[q] /\ pending'[q] = pending[q]
           /\ InBatches(q)' = InBatches(q) /\ errors'[q] = errors[q] /\ mine'[q] = mine[q],
         stored \subseteq stored', thrown \subseteq thrown'
  PROVE  FlowInv'
<1>1. ASSUME NEW q \in Processes PROVE KeptBy(q)' /\ OnItsWay(q)'
  <2>1. CASE q = p
    BY <2>1
  <2>2. CASE q # p
    <3>1. KeptBy(q) /\ OnItsWay(q)
      BY DEF FlowInv, Kept
    <3>. QED
      BY <2>2, <3>1, Untouched
  <2>. QED
    BY <2>1, <2>2
<1>. QED
  BY <1>1 DEF FlowInv, Kept

LEMMA TrackKeeps ==
  ASSUME FlowInv, NEW p \in Processes, NEW op, NEW s, NEW n \in Names,
         Sent(op, s), op \notin ReadOps, op # "reload", Track(p, op, s, n)
  PROVE  FlowInv'
<1>1. FlowTyped /\ FlowTyped' /\ KeptBy(p) /\ OnItsWay(p)
  BY TrackFlow DEF FlowInv, Kept
<1>2. PICK w \in Writes : \E r \in Requests :
              /\ r.write = w /\ r.op = op /\ r.awaited
              /\ wire' = [wire EXCEPT ![p] = Append(wire[p], r)]
              /\ pending' = [pending EXCEPT ![p] = pending[p] \cup {w}]
              /\ mine' = [mine EXCEPT ![p] = mine[p] \cup {w}]
  BY <1>1, TrackFlow
<1>3. PICK r \in Requests :
              /\ r.write = w /\ r.op = op /\ r.awaited
              /\ wire' = [wire EXCEPT ![p] = Append(wire[p], r)]
              /\ pending' = [pending EXCEPT ![p] = pending[p] \cup {w}]
              /\ mine' = [mine EXCEPT ![p] = mine[p] \cup {w}]
  BY <1>2
<1>4. UNCHANGED <<replies, running, errors, stored, thrown>>
  BY DEF Track
<1>5. \A q \in Processes : InBatches(q)' = InBatches(q)
  BY <1>4 DEF InBatches
<1>6. /\ wire'[p] = Append(wire[p], r) /\ ToSet(wire'[p]) = ToSet(wire[p]) \cup {r}
      /\ pending'[p] = pending[p] \cup {w} /\ mine'[p] = mine[p] \cup {w}
      /\ \A q \in Processes \ {p} : /\ wire'[q] = wire[q] /\ pending'[q] = pending[q]
                                    /\ mine'[q] = mine[q]
  <2>1. wire[p] \in Seq(Requests)
    BY <1>1 DEF FlowTyped
  <2>2. ToSet(Append(wire[p], r)) = ToSet(wire[p]) \cup {r}
    BY <2>1, Appended
  <2>3. wire'[p] = Append(wire[p], r) /\ \A q \in Processes \ {p} : wire'[q] = wire[q]
    BY <1>1, <1>3 DEF FlowTyped
  <2>. QED
    BY <1>1, <1>3, <2>2, <2>3 DEF FlowTyped
<1>7. KeptBy(p)'
  BY <1>1, <1>3, <1>4, <1>5, <1>6 DEF KeptBy
<1>8. OnItsWay(p)'
  <2>1. ToSet(replies'[p]) = ToSet(replies[p])
    BY <1>4
  <2>2. Awaited(p) \cup {r} \subseteq Awaited(p)'
    BY <1>3, <1>6, <2>1 DEF Awaited
  <2>. QED
    BY <1>1, <1>3, <1>5, <1>6, <2>2 DEF OnItsWay
<1>. QED
  BY <1>1, <1>4, <1>5, <1>6, <1>7, <1>8, OneProcess

LEMMA PreloadKeeps ==
  ASSUME FlowInv, NEW p \in Processes, NEW op \in ReadOps, NEW s, Sent(op, s), Preload(p, op, s)
  PROVE  FlowInv'
<1>1. FlowTyped /\ FlowTyped' /\ KeptBy(p) /\ OnItsWay(p)
  BY PreloadFlow DEF FlowInv, Kept
<1>2. PICK r \in Requests : r.op = op /\ wire' = [wire EXCEPT ![p] = Append(wire[p], r)]
  BY <1>1, PreloadFlow
<1>3. UNCHANGED <<replies, pending, running, errors, mine, stored, thrown>>
  BY DEF Preload, ghosts
<1>4. \A q \in Processes : InBatches(q)' = InBatches(q)
  BY <1>3 DEF InBatches
<1>5. /\ ToSet(wire'[p]) = ToSet(wire[p]) \cup {r}
      /\ \A q \in Processes \ {p} : wire'[q] = wire[q]
  <2>1. wire[p] \in Seq(Requests)
    BY <1>1 DEF FlowTyped
  <2>2. ToSet(Append(wire[p], r)) = ToSet(wire[p]) \cup {r}
    BY <2>1, Appended
  <2>3. wire'[p] = Append(wire[p], r) /\ \A q \in Processes \ {p} : wire'[q] = wire[q]
    BY <1>1, <1>2 DEF FlowTyped
  <2>. QED
    BY <2>2, <2>3
<1>6. r.op # "reload"
  BY <1>2 DEF ReadOps, SessionReads
<1>7. KeptBy(p)'
  BY <1>1, <1>3, <1>4, <1>5, <1>6 DEF KeptBy
<1>8. OnItsWay(p)'
  <2>1. Awaited(p) \subseteq Awaited(p)'
    BY <1>3, <1>5 DEF Awaited
  <2>. QED
    BY <1>1, <1>3, <1>4, <2>1 DEF OnItsWay
<1>. QED
  BY <1>1, <1>3, <1>4, <1>5, <1>7, <1>8, OneProcess

\* A request is answered: what was on its way is on its way back, and what was saved is
\* known to be.
LEMMA AnswerKeeps ==
  ASSUME FlowInv, NEW p \in Processes, Answered(p)
  PROVE  FlowInv'
<1> DEFINE r == Head(wire[p])
<1>1. FlowTyped /\ KeptBy(p) /\ OnItsWay(p)
  BY DEF FlowInv, Kept
<1>2. wire[p] # <<>>
  BY DEF Answered
<1>3. PICK ok \in BOOLEAN, names \in Summaries, messages \in MaybeMessages :
        (ok \/ Head(wire[p]).op = "append") /\ Answer(p, ok, names, messages)
  BY DEF Answered
<1>4. /\ FlowTyped'
      /\ wire' = [wire EXCEPT ![p] = Tail(wire[p])]
      /\ \/ replies' = replies /\ ~r.awaited
         \/ \E a \in Replies :
              /\ replies' = [replies EXCEPT ![p] = Append(replies[p], a)]
              /\ a.write = r.write /\ a.awaited /\ a.ok = ok
      /\ stored' = IF ok /\ r.write # 0 THEN stored \cup {r.write} ELSE stored
  BY <1>1, <1>2, <1>3, AnswerFlow
<1>5. UNCHANGED <<pending, running, errors, mine, thrown>>
  BY <1>3 DEF Answer
<1>6. \A q \in Processes : InBatches(q)' = InBatches(q)
  BY <1>5 DEF InBatches
<1>7. wire[p] \in Seq(Requests) /\ replies[p] \in Seq(Replies)
  BY <1>1 DEF FlowTyped
<1>8. /\ ToSet(wire[p]) = {r} \cup ToSet(Tail(wire[p]))
      /\ wire'[p] = Tail(wire[p]) /\ \A q \in Processes \ {p} : wire'[q] = wire[q]
  <2>1. ToSet(wire[p]) = {r} \cup ToSet(Tail(wire[p]))
    BY <1>2, <1>7, TakenOff
  <2>. QED
    BY <1>1, <1>4, <2>1 DEF FlowTyped
<1> HIDE DEF r
<1>9. CASE replies' = replies /\ ~r.awaited
  <2>1. KeptBy(p)'
    BY <1>1, <1>4, <1>5, <1>6, <1>8, <1>9 DEF KeptBy
  <2>2. Awaited(p)' = Awaited(p)
    BY <1>8, <1>9 DEF Awaited
  <2>3. OnItsWay(p)'
    BY <1>1, <1>5, <1>6, <2>2 DEF OnItsWay
  <2>. QED
    BY <1>4, <1>5, <1>6, <1>8, <1>9, <2>1, <2>3, OneProcess
<1>10. ASSUME NEW a \in Replies, replies' = [replies EXCEPT ![p] = Append(replies[p], a)],
              a.write = r.write, a.awaited, a.ok = ok
       PROVE  FlowInv'
  <2>1. /\ ToSet(replies'[p]) = ToSet(replies[p]) \cup {a}
        /\ \A q \in Processes \ {p} : replies'[q] = replies[q]
    <3>1. ToSet(Append(replies[p], a)) = ToSet(replies[p]) \cup {a}
      BY <1>7, Appended
    <3>. QED
      BY <1>1, <1>10, <3>1 DEF FlowTyped
  <2>2. \A x \in ToSet(replies'[p]) : x.ok /\ x.write # 0 => x.write \in stored'
    BY <1>1, <1>4, <1>10, <2>1 DEF KeptBy
  <2>3. KeptBy(p)'
    BY <1>1, <1>4, <1>5, <1>6, <1>8, <2>2 DEF KeptBy
  <2>4. \A w : (\E x \in Awaited(p) : x.write = w) => (\E x \in Awaited(p)' : x.write = w)
    BY <1>8, <1>10, <2>1 DEF Awaited
  <2>5. OnItsWay(p)'
    BY <1>1, <1>5, <1>6, <2>4 DEF OnItsWay
  <2>. QED
    BY <1>4, <1>5, <1>6, <1>8, <2>1, <2>3, <2>5, OneProcess
<1>. QED
  BY <1>4, <1>9, <1>10

\* A reply comes in.
LEMMA ReceiveKeeps ==
  ASSUME FlowInv, NEW p \in Processes, Receive(p)
  PROVE  FlowInv'
<1> DEFINE r == Head(replies[p])
<1>1. FlowTyped /\ KeptBy(p) /\ OnItsWay(p)
  BY DEF FlowInv, Kept
<1>2. /\ replies[p] # <<>> /\ r \in Replies /\ Fits(r)
      /\ replies' = [replies EXCEPT ![p] = Tail(replies[p])]
      /\ UNCHANGED <<used, mine, stored, thrown>>
      /\ Received1(p, r) \/ Received2(p, r)
  BY <1>1, ReceiveCases
<1>3. /\ ToSet(replies[p]) = {r} \cup ToSet(Tail(replies[p])) /\ Tail(replies[p]) \in Seq(Replies)
      /\ replies'[p] = Tail(replies[p]) /\ \A q \in Processes \ {p} : replies'[q] = replies[q]
      /\ replies' \in [Processes -> Seq(Replies)]
  <2>1. replies[p] \in Seq(Replies)
    BY <1>1 DEF FlowTyped
  <2>2. ToSet(replies[p]) = {r} \cup ToSet(Tail(replies[p])) /\ Tail(replies[p]) \in Seq(Replies)
    BY <1>2, <2>1, TakenOff
  <2>. QED
    BY <1>1, <1>2, <2>2 DEF FlowTyped
<1>4. r.ok /\ r.write # 0 => r.write \in stored
  BY <1>1, <1>3 DEF KeptBy
<1> HIDE DEF r
<1>5. \A q \in Processes : \A x \in ToSet(replies'[q]) : Fits(x)
  BY <1>1, <1>3 DEF FlowTyped
<1>6. CASE Received1(p, r)
  <2>1. /\ r.write \in Writes /\ Settle(p, r.write) /\ wire' = wire
        /\ \/ r.ok /\ errors' = errors
           \/ ~r.ok /\ errors' = [errors EXCEPT ![p] = Append(errors[p], r.write)]
    BY <1>6 DEF Received1
  <2>2. /\ pending' = [pending EXCEPT ![p] = pending[p] \ {r.write}]
        /\ pending' \in [Processes -> SUBSET Writes]
        /\ running' \in [Processes -> [Flushes -> (SUBSET Writes) \cup {None}]]
        /\ \A q \in Processes \ {p} : InBatches(q)' = InBatches(q)
        /\ InBatches(p)' = InBatches(p) \ {r.write}
    BY <1>1, <2>1, SettleFacts
  <2>3. /\ errors' \in [Processes -> Seq(Writes)]
        /\ ToSet(errors[p]) \subseteq ToSet(errors'[p])
        /\ ~r.ok => r.write \in ToSet(errors'[p])
        /\ \A q \in Processes \ {p} : errors'[q] = errors[q]
    <3>1. errors \in [Processes -> Seq(Writes)]
      BY <1>1 DEF FlowTyped
    <3>2. /\ Append(errors[p], r.write) \in Seq(Writes)
          /\ ToSet(Append(errors[p], r.write)) = ToSet(errors[p]) \cup {r.write}
      BY <2>1, <3>1, Appended
    <3>. QED
      BY <2>1, <3>1, <3>2
  <2>4. FlowTyped'
    BY <1>1, <1>2, <1>3, <1>5, <2>1, <2>2, <2>3 DEF FlowTyped
  <2>5. pending'[p] = pending[p] \ {r.write} /\ \A q \in Processes \ {p} : pending'[q] = pending[q]
    BY <1>1, <2>2 DEF FlowTyped
  <2>6. KeptBy(p)'
    <3>1. \A x \in ToSet(replies'[p]) : x.ok /\ x.write # 0 => x.write \in stored'
      BY <1>1, <1>2, <1>3 DEF KeptBy
    <3>2. \A x \in ToSet(wire'[p]) : x.op = "reload" => x.write \in stored'
      BY <1>1, <1>2, <2>1 DEF KeptBy
    <3>3. r.write \in stored \cup ToSet(errors'[p])
      <4>1. r.write # 0
        BY <2>1, SessionStateAssumption DEF Writes
      <4>. QED
        BY <1>4, <2>1, <2>3, <4>1
    <3>4. mine'[p] \subseteq stored' \cup thrown' \cup ToSet(errors'[p]) \cup pending'[p]
                               \cup InBatches(p)'
      BY <1>1, <1>2, <2>2, <2>3, <2>5, <3>3 DEF KeptBy
    <3>. QED
      BY <3>1, <3>2, <3>4 DEF KeptBy
  <2>7. OnItsWay(p)'
    <3>1. \A x \in Awaited(p) : x = r \/ x \in Awaited(p)'
      BY <1>3, <2>1 DEF Awaited
    <3>. QED
      BY <1>1, <2>2, <2>5, <3>1 DEF OnItsWay
  <2>. QED
    BY <1>2, <1>3, <2>1, <2>2, <2>3, <2>4, <2>5, <2>6, <2>7, OneProcess
<1>7. CASE Received2(p, r) /\ wire' = wire /\ r.write = 0
  <2>1. UNCHANGED <<pending, running, errors>>
    BY <1>7 DEF Received2
  <2>2. \A q \in Processes : InBatches(q)' = InBatches(q)
    BY <2>1 DEF InBatches
  <2>3. FlowTyped'
    BY <1>1, <1>2, <1>3, <1>5, <1>7, <2>1 DEF FlowTyped
  <2>4. KeptBy(p)'
    BY <1>1, <1>2, <1>3, <1>7, <2>1, <2>2 DEF KeptBy
  <2>5. OnItsWay(p)'
    <3>1. \A x \in Awaited(p) : x = r \/ x \in Awaited(p)'
      BY <1>3, <1>7 DEF Awaited
    <3>2. \A w \in pending[p] \cup InBatches(p) : w # 0
      BY <1>1, Batches, SessionStateAssumption DEF FlowTyped, Writes
    <3>. QED
      BY <1>1, <1>7, <2>1, <2>2, <3>1, <3>2 DEF OnItsWay
  <2>. QED
    BY <1>2, <1>3, <1>7, <2>1, <2>2, <2>3, <2>4, <2>5, OneProcess
<1>8. ASSUME Received2(p, r), NEW q \in Requests,
             wire' = [wire EXCEPT ![p] = Append(wire[p], q)], q.write = r.write, q.awaited
      PROVE  FlowInv'
  <2>1. r.ok /\ UNCHANGED <<pending, running, errors>>
    BY <1>8 DEF Received2
  <2>2. \A x \in Processes : InBatches(x)' = InBatches(x)
    BY <2>1 DEF InBatches
  <2>3. /\ Append(wire[p], q) \in Seq(Requests)
        /\ ToSet(Append(wire[p], q)) = ToSet(wire[p]) \cup {q}
    BY <1>1, Appended DEF FlowTyped
  <2>4. /\ wire' \in [Processes -> Seq(Requests)] /\ ToSet(wire'[p]) = ToSet(wire[p]) \cup {q}
        /\ \A x \in Processes \ {p} : wire'[x] = wire[x]
    BY <1>1, <1>8, <2>3 DEF FlowTyped
  <2>5. FlowTyped'
    BY <1>1, <1>2, <1>3, <1>5, <2>1, <2>4 DEF FlowTyped
  <2>6. q.op = "reload" => q.write \in stored
    <3>1. q.op = "reload" => q.write \in Writes
      BY RequestFacts DEF ReadOps, SessionReads
    <3>2. 0 \notin Writes
      BY SessionStateAssumption DEF Writes
    <3>. QED
      BY <1>4, <1>8, <2>1, <3>1, <3>2
  <2>7. KeptBy(p)'
    BY <1>1, <1>2, <1>3, <2>1, <2>2, <2>4, <2>6 DEF KeptBy
  <2>8. OnItsWay(p)'
    <3>1. \A x \in Awaited(p) : x = r \/ x \in Awaited(p)'
      BY <1>3, <2>4 DEF Awaited
    <3>2. q \in Awaited(p)'
      BY <1>8, <2>4 DEF Awaited
    <3>. QED
      BY <1>1, <1>8, <2>1, <2>2, <3>1, <3>2 DEF OnItsWay
  <2>. QED
    BY <1>2, <1>3, <2>1, <2>2, <2>4, <2>5, <2>7, <2>8, OneProcess
<1>. QED
  BY <1>2, <1>6, <1>7, <1>8 DEF Received2

\* A turn of the loop of flush takes the writes that are not settled.
LEMMA TakeBatchKeeps ==
  ASSUME FlowInv, NEW p \in Processes, NEW f \in Flushes, running[p][f] \in {None, {}},
         TakeBatch(p, f)
  PROVE  /\ FlowInv'
         /\ \A q \in Processes, g \in Flushes : running[q][g] # None => running'[q][g] # None
<1>1. FlowTyped /\ KeptBy(p) /\ OnItsWay(p)
  BY DEF FlowInv, Kept
<1>2. /\ running' = [running EXCEPT ![p][f] = pending[p]]
      /\ pending' = [pending EXCEPT ![p] = {}]
      /\ UNCHANGED <<wire, replies, errors, used, mine, stored, thrown>>
  BY DEF TakeBatch, ghosts
<1>3. /\ running \in [Processes -> [Flushes -> (SUBSET Writes) \cup {None}]]
      /\ pending \in [Processes -> SUBSET Writes]
  BY <1>1 DEF FlowTyped
<1>4. /\ running'[p][f] = pending[p]
      /\ \A g \in Flushes \ {f} : running'[p][g] = running[p][g]
      /\ \A q \in Processes \ {p} : running'[q] = running[q]
      /\ pending'[p] = {} /\ \A q \in Processes \ {p} : pending'[q] = pending[q]
  BY <1>2, <1>3
<1>5. pending[p] \in SUBSET Writes /\ pending[p] # None
  BY <1>3, Batches
<1>6. FlowTyped'
  <2>1. pending' \in [Processes -> SUBSET Writes]
    BY <1>2, <1>3
  <2>2. running' \in [Processes -> [Flushes -> (SUBSET Writes) \cup {None}]]
    <3> DEFINE n == [running[p] EXCEPT ![f] = pending[p]]
    <3>1. n \in [Flushes -> (SUBSET Writes) \cup {None}]
      BY <1>3, <1>5
    <3>2. running' = [running EXCEPT ![p] = n]
      BY <1>2
    <3> HIDE DEF n
    <3>. QED
      BY <1>3, <3>1, <3>2
  <2>. QED
    BY <1>1, <1>2, <2>1, <2>2 DEF FlowTyped
<1>7. InBatches(p)' = InBatches(p) \cup pending[p]
  <2>1. \A x : x \in InBatches(p)' <=> \E g \in Flushes : running'[p][g] # None /\ x \in running'[p][g]
    BY DEF InBatches
  <2>2. \A x : x \in InBatches(p) <=> \E g \in Flushes : running[p][g] # None /\ x \in running[p][g]
    BY Batches
  <2>3. ASSUME NEW x, x \in InBatches(p)' PROVE x \in InBatches(p) \cup pending[p]
    <3>1. PICK g \in Flushes : running'[p][g] # None /\ x \in running'[p][g]
      BY <2>1, <2>3
    <3>. QED
      BY <1>4, <2>2, <3>1
  <2>4. ASSUME NEW x, x \in InBatches(p) PROVE x \in InBatches(p)'
    <3>1. PICK g \in Flushes : running[p][g] # None /\ x \in running[p][g]
      BY <2>2, <2>4
    <3>2. g # f
      BY <3>1
    <3>. QED
      BY <1>4, <2>1, <3>1, <3>2
  <2>5. ASSUME NEW x, x \in pending[p] PROVE x \in InBatches(p)'
    BY <1>4, <1>5, <2>1, <2>5
  <2>. QED
    BY <2>3, <2>4, <2>5
<1>8. \A q \in Processes \ {p} : InBatches(q)' = InBatches(q)
  BY <1>4 DEF InBatches
<1>9. KeptBy(p)'
  BY <1>1, <1>2, <1>4, <1>7 DEF KeptBy
<1>10. OnItsWay(p)'
  <2>1. Awaited(p)' = Awaited(p)
    BY <1>2 DEF Awaited
  <2>. QED
    BY <1>1, <1>4, <1>7, <2>1 DEF OnItsWay
<1>11. FlowInv'
  BY <1>2, <1>4, <1>6, <1>8, <1>9, <1>10, OneProcess
<1>12. \A q \in Processes, g \in Flushes : running[q][g] # None => running'[q][g] # None
  BY <1>4, <1>5
<1>. QED
  BY <1>11, <1>12

\* A flush returns: the first error is thrown.
LEMMA ThrowKeeps ==
  ASSUME FlowInv, NEW p \in Processes, Throw(p),
         running' \in [Processes -> [Flushes -> (SUBSET Writes) \cup {None}]],
         \A q \in Processes : InBatches(q)' = InBatches(q)
  PROVE  FlowInv'
<1>1. FlowTyped /\ KeptBy(p) /\ OnItsWay(p)
  BY DEF FlowInv, Kept
<1>2. /\ errors' = [errors EXCEPT ![p] = IF errors[p] = <<>> THEN errors[p] ELSE Tail(errors[p])]
      /\ thrown' = IF errors[p] = <<>> THEN thrown ELSE thrown \cup {Head(errors[p])}
      /\ UNCHANGED <<wire, replies, pending, used, mine, stored>>
  BY DEF Throw
<1>3. errors \in [Processes -> Seq(Writes)] /\ thrown \subseteq Writes
  BY <1>1 DEF FlowTyped
<1>4. /\ errors' \in [Processes -> Seq(Writes)] /\ thrown' \subseteq Writes /\ thrown \subseteq thrown'
      /\ ToSet(errors[p]) \subseteq ToSet(errors'[p]) \cup thrown'
      /\ \A q \in Processes \ {p} : errors'[q] = errors[q]
  <2>1. CASE errors[p] = <<>>
    BY <1>2, <1>3, <2>1
  <2>2. CASE errors[p] # <<>>
    <3>1. /\ Head(errors[p]) \in Writes /\ Tail(errors[p]) \in Seq(Writes)
          /\ ToSet(errors[p]) = {Head(errors[p])} \cup ToSet(Tail(errors[p]))
      BY <1>3, <2>2, TakenOff
    <3>2. errors' = [errors EXCEPT ![p] = Tail(errors[p])] /\ thrown' = thrown \cup {Head(errors[p])}
      BY <1>2, <2>2
    <3>. QED
      BY <1>3, <3>1, <3>2
  <2>. QED
    BY <2>1, <2>2
<1>5. FlowTyped'
  BY <1>1, <1>2, <1>4 DEF FlowTyped
<1>6. KeptBy(p)'
  BY <1>1, <1>2, <1>4 DEF KeptBy
<1>7. OnItsWay(p)'
  <2>1. Awaited(p)' = Awaited(p)
    BY <1>2 DEF Awaited
  <2>. QED
    BY <1>1, <1>2, <2>1 DEF OnItsWay
<1>. QED
  BY <1>2, <1>4, <1>5, <1>6, <1>7, OneProcess

LEMMA FlushDoneKeeps ==
  ASSUME FlowInv, NEW p \in Processes, NEW f \in Flushes, FlushDone(p, f)
  PROVE  /\ FlowInv'
         /\ \A q \in Processes, g \in Flushes :
              running[q][g] # None /\ running'[q][g] = None => q = p
<1>1. /\ running[p][f] = {} /\ running' = [running EXCEPT ![p][f] = None] /\ Throw(p)
      /\ running \in [Processes -> [Flushes -> (SUBSET Writes) \cup {None}]]
  BY DEF FlushDone, FlowInv, FlowTyped
<1>2. running' \in [Processes -> [Flushes -> (SUBSET Writes) \cup {None}]]
  <2> DEFINE n == [running[p] EXCEPT ![f] = None]
  <2>1. n \in [Flushes -> (SUBSET Writes) \cup {None}]
    BY <1>1
  <2>2. running' = [running EXCEPT ![p] = n]
    BY <1>1
  <2> HIDE DEF n
  <2>. QED
    BY <1>1, <2>1, <2>2
<1>3. /\ running'[p][f] = None /\ \A g \in Flushes \ {f} : running'[p][g] = running[p][g]
      /\ \A q \in Processes \ {p} : running'[q] = running[q]
  BY <1>1
<1>4. InBatches(p)' = InBatches(p)
  <2>1. \A x : x \in InBatches(p)' <=> \E g \in Flushes : running'[p][g] # None /\ x \in running'[p][g]
    BY DEF InBatches
  <2>2. \A x : x \in InBatches(p) <=> \E g \in Flushes : running[p][g] # None /\ x \in running[p][g]
    BY Batches
  <2>3. ASSUME NEW g \in Flushes, NEW x
        PROVE  (running'[p][g] # None /\ x \in running'[p][g])
                 <=> (running[p][g] # None /\ x \in running[p][g])
    <3>1. CASE g = f
      BY <1>1, <1>3, <3>1
    <3>2. CASE g # f
      BY <1>3, <3>2
    <3>. QED
      BY <3>1, <3>2
  <2>4. \A x : x \in InBatches(p)' <=> x \in InBatches(p)
    BY <2>1, <2>2, <2>3
  <2>. QED
    BY <2>4
<1>5. \A q \in Processes \ {p} : InBatches(q)' = InBatches(q)
  BY <1>3 DEF InBatches
<1>6. FlowInv'
  BY <1>1, <1>2, <1>4, <1>5, ThrowKeeps
<1>. QED
  BY <1>3, <1>6

\* Nobody waits for the request of r any more.
LEMMA GivenUp ==
  ASSUME FlowTyped, NEW p \in Processes, NEW r, r.write \in {0} \cup Writes, GiveUp(p, r)
  PROVE  /\ pending' \in [Processes -> SUBSET Writes]
         /\ running' \in [Processes -> [Flushes -> (SUBSET Writes) \cup {None}]]
         /\ errors' \in [Processes -> Seq(Writes)]
         /\ \A w \in pending'[p] \cup InBatches(p)' : w # r.write /\ w \in pending[p] \cup InBatches(p)
         /\ pending[p] \cup InBatches(p) \cup ToSet(errors[p])
              \subseteq pending'[p] \cup InBatches(p)' \cup ToSet(errors'[p])
         /\ \A q \in Processes \ {p} : /\ pending'[q] = pending[q] /\ InBatches(q)' = InBatches(q)
                                       /\ errors'[q] = errors[q]
<1>1. /\ pending \in [Processes -> SUBSET Writes]
      /\ running \in [Processes -> [Flushes -> (SUBSET Writes) \cup {None}]]
      /\ errors \in [Processes -> Seq(Writes)]
  BY DEF FlowTyped
<1>2. CASE r.write = 0
  <2>1. UNCHANGED <<errors, pending, running>>
    BY <1>2 DEF GiveUp
  <2>2. \A q \in Processes : InBatches(q)' = InBatches(q)
    BY <2>1 DEF InBatches
  <2>3. \A w \in pending[p] \cup InBatches(p) : w # 0
    BY <1>1, Batches, SessionStateAssumption DEF Writes
  <2>. QED
    BY <1>1, <1>2, <2>1, <2>2, <2>3
<1>3. CASE r.write # 0
  <2>1. /\ errors' = [errors EXCEPT ![p] = Append(errors[p], r.write)] /\ Settle(p, r.write)
        /\ r.write \in Writes
    BY <1>3 DEF GiveUp
  <2>2. /\ pending' = [pending EXCEPT ![p] = pending[p] \ {r.write}]
        /\ pending' \in [Processes -> SUBSET Writes]
        /\ running' \in [Processes -> [Flushes -> (SUBSET Writes) \cup {None}]]
        /\ \A q \in Processes \ {p} : InBatches(q)' = InBatches(q)
        /\ InBatches(p)' = InBatches(p) \ {r.write}
    BY <2>1, SettleFacts
  <2>3. /\ pending'[p] = pending[p] \ {r.write}
        /\ \A q \in Processes \ {p} : pending'[q] = pending[q]
    BY <1>1, <2>2
  <2>4. /\ Append(errors[p], r.write) \in Seq(Writes)
        /\ ToSet(Append(errors[p], r.write)) = ToSet(errors[p]) \cup {r.write}
    BY <1>1, <2>1, Appended
  <2>5. /\ errors' \in [Processes -> Seq(Writes)]
        /\ ToSet(errors'[p]) = ToSet(errors[p]) \cup {r.write}
        /\ \A q \in Processes \ {p} : errors'[q] = errors[q]
    BY <1>1, <2>1, <2>4
  <2>. QED
    BY <2>2, <2>3, <2>5
<1>. QED
  BY <1>2, <1>3

\* A request times out, on its way or on its way back.
LEMMA TimeoutKeeps ==
  ASSUME FlowInv, NEW p \in Processes, RequestTimesOut(p)
  PROVE  FlowInv' /\ used' # used
<1>1. FlowTyped /\ KeptBy(p) /\ OnItsWay(p)
  BY DEF FlowInv, Kept
<1>2. /\ used' = [used EXCEPT !.mishaps = used.mishaps + 1]
      /\ UNCHANGED <<mine, stored, thrown>>
      /\ \/ \E i \in DOMAIN wire[p] :
              /\ GiveUp(p, wire[p][i])
              /\ wire' = [wire EXCEPT ![p] = [wire[p] EXCEPT ![i] = [wire[p][i] EXCEPT !.awaited = FALSE]]]
              /\ UNCHANGED replies
         \/ \E i \in DOMAIN replies[p] :
              /\ GiveUp(p, replies[p][i])
              /\ replies' = [replies EXCEPT ![p] = RemoveAt(replies[p], i)]
              /\ UNCHANGED wire
  BY DEF RequestTimesOut, Mishap
<1>3. /\ used' \in [writes : 0..MaxWrites, reads : Nat, mishaps : Nat]
      /\ used' # used
  BY <1>1, <1>2, UsedTypes
<1>4. /\ wire \in [Processes -> Seq(Requests)] /\ replies \in [Processes -> Seq(Replies)]
      /\ wire[p] \in Seq(Requests) /\ replies[p] \in Seq(Replies)
      /\ DOMAIN wire[p] = 1..Len(wire[p]) /\ DOMAIN replies[p] = 1..Len(replies[p])
  BY <1>1, Held DEF FlowTyped
<1>5. ASSUME NEW i \in 1..Len(wire[p]), GiveUp(p, wire[p][i]), UNCHANGED replies,
             wire' = [wire EXCEPT ![p] = [wire[p] EXCEPT ![i] = [wire[p][i] EXCEPT !.awaited = FALSE]]]
      PROVE  FlowInv'
  <2> DEFINE r == wire[p][i]
             x == [r EXCEPT !.awaited = FALSE]
  <2>1. r \in Requests /\ GiveUp(p, r)
    BY <1>4, <1>5, ElementOfSeq
  <2>2. /\ x \in Requests /\ x.op = r.op /\ x.write = r.write
        /\ r.write \in {0} \cup Writes
    <3>1. /\ x \in Requests /\ r.write \in {0} \cup Writes
          /\ r = [op |-> r.op, session |-> r.session, write |-> r.write, name |-> r.name,
                  awaited |-> r.awaited]
      BY <2>1, RequestFacts
    <3> HIDE DEF r
    <3>. QED
      BY <3>1
  <2>3. /\ [wire[p] EXCEPT ![i] = x] \in Seq(Requests)
        /\ ToSet([wire[p] EXCEPT ![i] = x]) \subseteq ToSet(wire[p]) \cup {x}
        /\ ToSet(wire[p]) \subseteq ToSet([wire[p] EXCEPT ![i] = x]) \cup {r}
        /\ r \in ToSet(wire[p])
    <3>1. r \in ToSet(wire[p])
      BY <1>4, Held
    <3> HIDE DEF x
    <3>2. /\ [wire[p] EXCEPT ![i] = x] \in Seq(Requests)
          /\ ToSet([wire[p] EXCEPT ![i] = x]) \subseteq ToSet(wire[p]) \cup {x}
          /\ ToSet(wire[p]) \subseteq ToSet([wire[p] EXCEPT ![i] = x]) \cup {wire[p][i]}
      BY <1>4, <2>2, Replaced
    <3>. QED
      BY <3>1, <3>2
  <2>4. wire' = [wire EXCEPT ![p] = [wire[p] EXCEPT ![i] = x]]
    BY <1>5
  <2> HIDE DEF x, r
  <2>5. /\ wire' \in [Processes -> Seq(Requests)]
        /\ ToSet(wire'[p]) \subseteq ToSet(wire[p]) \cup {x}
        /\ ToSet(wire[p]) \subseteq ToSet(wire'[p]) \cup {r}
        /\ \A q \in Processes \ {p} : wire'[q] = wire[q]
    BY <1>4, <2>3, <2>4
  <2>6. /\ pending' \in [Processes -> SUBSET Writes]
        /\ running' \in [Processes -> [Flushes -> (SUBSET Writes) \cup {None}]]
        /\ errors' \in [Processes -> Seq(Writes)]
        /\ \A w \in pending'[p] \cup InBatches(p)' : w # r.write /\ w \in pending[p] \cup InBatches(p)
        /\ pending[p] \cup InBatches(p) \cup ToSet(errors[p])
             \subseteq pending'[p] \cup InBatches(p)' \cup ToSet(errors'[p])
        /\ \A q \in Processes \ {p} : /\ pending'[q] = pending[q] /\ InBatches(q)' = InBatches(q)
                                      /\ errors'[q] = errors[q]
    BY <1>1, <2>1, <2>2, GivenUp
  <2>7. FlowTyped'
    BY <1>1, <1>2, <1>3, <1>5, <2>5, <2>6 DEF FlowTyped
  <2>8. KeptBy(p)'
    <3>1. \A y \in ToSet(wire'[p]) : y.op = "reload" => y.write \in stored'
      BY <1>1, <1>2, <2>2, <2>3, <2>5 DEF KeptBy
    <3>. QED
      BY <1>1, <1>2, <1>5, <2>6, <3>1 DEF KeptBy
  <2>9. OnItsWay(p)'
    <3>1. \A y \in Awaited(p) : y = r \/ y \in Awaited(p)'
      BY <1>5, <2>5 DEF Awaited
    <3>. QED
      BY <1>1, <2>6, <3>1 DEF OnItsWay
  <2>. QED
    BY <1>2, <1>5, <2>5, <2>6, <2>7, <2>8, <2>9, OneProcess
<1>6. ASSUME NEW i \in 1..Len(replies[p]), GiveUp(p, replies[p][i]), UNCHANGED wire,
             replies' = [replies EXCEPT ![p] = RemoveAt(replies[p], i)]
      PROVE  FlowInv'
  <2> DEFINE r == replies[p][i]
             left == RemoveAt(replies[p], i)
  <2>1. r \in Replies /\ GiveUp(p, r) /\ r.write \in {0} \cup Writes
    <3>1. r \in Replies
      BY <1>4, ElementOfSeq
    <3>. QED
      BY <1>6, <3>1 DEF Replies
  <2>2. /\ left \in Seq(Replies) /\ ToSet(left) \subseteq ToSet(replies[p])
        /\ ToSet(replies[p]) \subseteq ToSet(left) \cup {r}
    BY <1>4, Removed
  <2>3. replies' = [replies EXCEPT ![p] = left]
    BY <1>6
  <2> HIDE DEF left, r
  <2>4. /\ replies' \in [Processes -> Seq(Replies)] /\ replies'[p] = left
        /\ \A q \in Processes \ {p} : replies'[q] = replies[q]
    BY <1>4, <2>2, <2>3
  <2>5. /\ pending' \in [Processes -> SUBSET Writes]
        /\ running' \in [Processes -> [Flushes -> (SUBSET Writes) \cup {None}]]
        /\ errors' \in [Processes -> Seq(Writes)]
        /\ \A w \in pending'[p] \cup InBatches(p)' : w # r.write /\ w \in pending[p] \cup InBatches(p)
        /\ pending[p] \cup InBatches(p) \cup ToSet(errors[p])
             \subseteq pending'[p] \cup InBatches(p)' \cup ToSet(errors'[p])
        /\ \A q \in Processes \ {p} : /\ pending'[q] = pending[q] /\ InBatches(q)' = InBatches(q)
                                      /\ errors'[q] = errors[q]
    BY <1>1, <2>1, GivenUp
  <2>6. \A q \in Processes : \A y \in ToSet(replies'[q]) : Fits(y)
    BY <1>1, <2>2, <2>4 DEF FlowTyped
  <2>7. FlowTyped'
    BY <1>1, <1>2, <1>3, <1>6, <2>4, <2>5, <2>6 DEF FlowTyped
  <2>8. KeptBy(p)'
    <3>1. \A y \in ToSet(replies'[p]) : y.ok /\ y.write # 0 => y.write \in stored'
      BY <1>1, <1>2, <2>2, <2>4 DEF KeptBy
    <3>. QED
      BY <1>1, <1>2, <1>6, <2>5, <3>1 DEF KeptBy
  <2>9. OnItsWay(p)'
    <3>1. \A y \in Awaited(p) : y = r \/ y \in Awaited(p)'
      BY <1>6, <2>2, <2>4 DEF Awaited
    <3>. QED
      BY <1>1, <2>5, <3>1 DEF OnItsWay
  <2>. QED
    BY <1>2, <1>6, <2>4, <2>5, <2>7, <2>8, <2>9, OneProcess
<1>. QED
  BY <1>2, <1>3, <1>4, <1>5, <1>6

\* Processes are replaced: nothing of them is left, and nobody waits.
LEMMA FreshKeeps ==
  ASSUME FlowInv, NEW ps \in SUBSET Processes, Mishap, Fresh(ps)
  PROVE  FlowInv' /\ used' # used /\ table' = table
<1>1. FlowTyped
  BY DEF FlowInv
<1>2. /\ used' = [used EXCEPT !.mishaps = used.mishaps + 1]
      /\ UNCHANGED <<table, stored, thrown>>
      /\ wire' = [p \in Processes |-> IF p \in ps THEN <<>> ELSE wire[p]]
      /\ replies' = [p \in Processes |-> IF p \in ps THEN <<>> ELSE replies[p]]
      /\ pending' = [p \in Processes |-> IF p \in ps THEN {} ELSE pending[p]]
      /\ running' = [p \in Processes |-> IF p \in ps THEN [f \in Flushes |-> None] ELSE running[p]]
      /\ errors' = [p \in Processes |-> IF p \in ps THEN <<>> ELSE errors[p]]
      /\ mine' = [p \in Processes |-> IF p \in ps THEN {} ELSE mine[p]]
  BY DEF Fresh, Mishap
<1>3. /\ used' \in [writes : 0..MaxWrites, reads : Nat, mishaps : Nat]
      /\ used' # used
  BY <1>1, <1>2, UsedTypes
<1>4. <<>> \in Seq(Requests) /\ <<>> \in Seq(Replies) /\ <<>> \in Seq(Writes)
  BY EmptySeq
<1>5. ToSet(<<>>) = {}
  BY DEF ToSet
<1>6. \A p \in Processes \ ps : /\ wire'[p] = wire[p] /\ replies'[p] = replies[p]
                                /\ pending'[p] = pending[p] /\ running'[p] = running[p]
                                /\ errors'[p] = errors[p] /\ mine'[p] = mine[p]
  BY <1>2
<1>7. \A p \in ps : /\ wire'[p] = <<>> /\ replies'[p] = <<>> /\ pending'[p] = {}
                    /\ running'[p] = [f \in Flushes |-> None]
                    /\ errors'[p] = <<>> /\ mine'[p] = {}
  BY <1>2
<1>8. wire' \in [Processes -> Seq(Requests)] /\ replies' \in [Processes -> Seq(Replies)]
  BY <1>1, <1>2, <1>4 DEF FlowTyped
<1>9. /\ pending' \in [Processes -> SUBSET Writes] /\ errors' \in [Processes -> Seq(Writes)]
      /\ mine' \in [Processes -> SUBSET Writes]
  BY <1>1, <1>2, <1>4 DEF FlowTyped
<1>10. running' \in [Processes -> [Flushes -> (SUBSET Writes) \cup {None}]]
  BY <1>1, <1>2 DEF FlowTyped
<1>11. \A p \in Processes : \A r \in ToSet(replies'[p]) : Fits(r)
  BY <1>1, <1>5, <1>6, <1>7 DEF FlowTyped
<1>12. FlowTyped'
  BY <1>1, <1>2, <1>3, <1>8, <1>9, <1>10, <1>11 DEF FlowTyped
<1>13. ASSUME NEW p \in Processes PROVE KeptBy(p)' /\ OnItsWay(p)'
  <2>1. CASE p \in ps
    <3>1. InBatches(p)' = {}
      BY <1>7, <2>1 DEF InBatches
    <3>. QED
      BY <1>5, <1>7, <2>1, <3>1 DEF KeptBy, OnItsWay
  <2>2. CASE p \notin ps
    <3>1. InBatches(p)' = InBatches(p)
      BY <1>6, <2>2 DEF InBatches
    <3>2. KeptBy(p) /\ OnItsWay(p)
      BY DEF FlowInv, Kept
    <3>. QED
      BY <1>2, <1>6, <2>2, <3>1, <3>2, Untouched
  <2>. QED
    BY <2>1, <2>2
<1>. QED
  BY <1>2, <1>3, <1>12, <1>13 DEF FlowInv, Kept

-----------------------------------------------------------------------------
(* The invariant, and what follows from it.                                 *)

SessionInv == CacheInv /\ FlowInv

\* when a flush may return without an error
Returns(p, f) == running[p][f] # None /\ running'[p][f] = None /\ used' = used

LEMMA InitInv ==
  ASSUME Init
  PROVE  SessionInv
<1>1. Messages = Seq({0} \cup Writes) /\ 0 \in {0} \cup Writes
  BY DEF Messages
<1>2. <<0>> \in Messages
  BY <1>1
<1>3. EmptyCache \in CacheType
  <2>1. /\ Nothing \in [Sessions -> MaybeName] /\ Nothing \in [Sessions -> Rows \cup {None}]
        /\ Nothing \in [Sessions -> MaybeMessages]
    BY DEF Nothing, MaybeName, MaybeMessages
  <2> HIDE DEF Nothing
  <2>. QED
    BY <2>1 DEF EmptyCache, CacheType
<1>4. table \in Tables
  <2>1. /\ Nothing \in Tables
        /\ [s \in Sessions |-> [name |-> DefaultName, messages |-> <<0>>]] \in Tables
    BY <1>2, RowFacts DEF Nothing, Tables
  <2>. QED
    BY <2>1 DEF Init, EarlierTables
<1>5. ASSUME NEW s \in Sessions PROVE Matches(EmptyCache, table, s) /\ Lists(EmptyCache, table, s)
  BY DEF Matches, Lists, EmptyCache, Nothing
<1>6. CacheInv
  BY <1>3, <1>4, <1>5 DEF CacheInv, True, Init
<1>7. <<>> \in Seq(Requests) /\ <<>> \in Seq(Replies) /\ <<>> \in Seq(Writes) /\ ToSet(<<>>) = {}
  BY EmptySeq DEF ToSet
<1>8. used \in [writes : 0..MaxWrites, reads : Nat, mishaps : Nat]
  BY SessionStateAssumption DEF Init
<1>9. running \in [Processes -> [Flushes -> (SUBSET Writes) \cup {None}]]
  BY DEF Init
<1>10. FlowTyped
  BY <1>7, <1>8, <1>9 DEF FlowTyped, Init
<1>11. ASSUME NEW p \in Processes PROVE KeptBy(p) /\ OnItsWay(p)
  <2>1. InBatches(p) = {}
    BY DEF InBatches, Init
  <2>. QED
    BY <1>7, <2>1 DEF KeptBy, OnItsWay, Init
<1>. QED
  BY <1>6, <1>10, <1>11 DEF SessionInv, FlowInv, Kept

\* what a process sends by itself
LEMMA CallKeeps ==
  ASSUME FlowInv, NEW p \in Processes, Calls(p)
  PROVE  FlowInv' /\ UNCHANGED <<table, cache, running>>
<1>1. DefaultName \in Names
  BY SessionStateAssumption
<1>2. \A op \in {"ensure", "rename", "clear", "delete", "append"}, s \in Sessions :
        Sent(op, s) /\ op \notin ReadOps /\ op # "reload"
  BY DEF Sent, ReadOps, SessionReads, SessionWrites
<1>3. Sent("deleteAll", None) /\ "deleteAll" \notin ReadOps /\ Sent("list", None) /\ "list" \in ReadOps
  BY DEF Sent, ReadOps, SessionReads
<1>4. \A op \in {"load", "page"}, s \in Sessions : Sent(op, s) /\ op \in ReadOps
  BY DEF Sent, ReadOps, SessionReads
<1>5. ASSUME NEW op \in {"ensure", "rename", "clear", "delete", "append"}, NEW s \in Sessions,
             NEW n \in Names, Track(p, op, s, n)
      PROVE  FlowInv' /\ UNCHANGED <<table, cache, running>>
  BY <1>2, <1>5, TrackKeeps DEF Track
<1>6. ASSUME Track(p, "deleteAll", None, DefaultName)
      PROVE  FlowInv' /\ UNCHANGED <<table, cache, running>>
  BY <1>1, <1>3, <1>6, TrackKeeps DEF Track
<1>7. ASSUME NEW op \in {"load", "page"}, NEW s \in Sessions, Preload(p, op, s)
      PROVE  FlowInv' /\ UNCHANGED <<table, cache, running>>
  <2>1. FlowInv'
    BY <1>4, <1>7, PreloadKeeps
  <2>. QED
    BY <1>7, <2>1 DEF Preload
<1>8. ASSUME Preload(p, "list", None)
      PROVE  FlowInv' /\ UNCHANGED <<table, cache, running>>
  <2>1. FlowInv'
    BY <1>3, <1>8, PreloadKeeps
  <2>. QED
    BY <1>8, <2>1 DEF Preload
<1>9. CASE DeleteAllSessions(p)
  BY <1>6, <1>9 DEF DeleteAllSessions
<1>10. CASE PreloadAll(p)
  BY <1>8, <1>10 DEF PreloadAll
<1>11. ASSUME NEW s \in Sessions, EnsureSession(p, s)
       PROVE  FlowInv' /\ UNCHANGED <<table, cache, running>>
  BY <1>1, <1>5, <1>11 DEF EnsureSession
<1>12. ASSUME NEW s \in Sessions, ClearSession(p, s)
       PROVE  FlowInv' /\ UNCHANGED <<table, cache, running>>
  BY <1>1, <1>5, <1>12 DEF ClearSession
<1>13. ASSUME NEW s \in Sessions, DeleteSession(p, s)
       PROVE  FlowInv' /\ UNCHANGED <<table, cache, running>>
  BY <1>1, <1>5, <1>13 DEF DeleteSession
<1>14. ASSUME NEW s \in Sessions, AppendMessages(p, s)
       PROVE  FlowInv' /\ UNCHANGED <<table, cache, running>>
  BY <1>1, <1>5, <1>14 DEF AppendMessages
<1>15. ASSUME NEW s \in Sessions, PreloadSession(p, s) \/ PreloadMessages(p, s)
       PROVE  FlowInv' /\ UNCHANGED <<table, cache, running>>
  BY <1>7, <1>15 DEF PreloadSession, PreloadMessages
<1>16. ASSUME NEW s \in Sessions, NEW n \in Names \ {DefaultName}, RenameSession(p, s, n)
       PROVE  FlowInv' /\ UNCHANGED <<table, cache, running>>
  BY <1>5, <1>16 DEF RenameSession
<1>. QED
  BY <1>9, <1>10, <1>11, <1>12, <1>13, <1>14, <1>15, <1>16 DEF Calls

\* every step keeps the invariant, and only a flush that finds nothing more to wait for
\* returns
LEMMA InvStep ==
  ASSUME SessionInv, [Next]_vars
  PROVE  /\ SessionInv'
         /\ \A p \in Processes, f \in Flushes : Returns(p, f) => pending[p] = {}
<1>1. CacheInv /\ FlowInv /\ FlowTyped
  BY DEF SessionInv, FlowInv
<1>2. ASSUME UNCHANGED <<table, cache>> PROVE CacheInv'
  BY <1>1, <1>2 DEF CacheInv
<1>3. ASSUME UNCHANGED running PROVE \A p \in Processes, f \in Flushes : ~Returns(p, f)
  BY <1>3 DEF Returns
<1>4. ASSUME NEW p \in Processes, Calls(p)
      PROVE  SessionInv' /\ \A q \in Processes, f \in Flushes : ~Returns(q, f)
  <2>1. FlowInv' /\ UNCHANGED <<table, cache, running>>
    BY <1>1, <1>4, CallKeeps
  <2>. QED
    BY <1>2, <1>3, <2>1 DEF SessionInv
<1>5. ASSUME NEW p \in Processes, Serve(p)
      PROVE  SessionInv' /\ \A q \in Processes, f \in Flushes : ~Returns(q, f)
  <2>1. CacheInv' /\ Answered(p)
    BY <1>1, <1>5, ServeKeepsCaches
  <2>2. FlowInv'
    BY <1>1, <2>1, AnswerKeeps
  <2>3. UNCHANGED running
    BY <2>1 DEF Answered, Answer
  <2>. QED
    BY <1>3, <2>1, <2>2, <2>3 DEF SessionInv
<1>6. ASSUME NEW p \in Processes, Receive(p)
      PROVE  SessionInv' /\ \A q \in Processes, f \in Flushes : ~Returns(q, f)
  <2>1. FlowInv'
    BY <1>1, <1>6, ReceiveKeeps
  <2>2. /\ UNCHANGED <<table, cache>>
        /\ Received1(p, Head(replies[p])) \/ Received2(p, Head(replies[p]))
    BY <1>1, <1>6, ReceiveCases
  <2>3. \A q \in Processes, f \in Flushes : running'[q][f] = None <=> running[q][f] = None
    <3>1. CASE Received1(p, Head(replies[p]))
      <4>1. Settle(p, Head(replies[p]).write)
        BY <3>1 DEF Received1
      <4>. QED
        BY <1>1, <4>1, SettleFacts
    <3>2. CASE Received2(p, Head(replies[p]))
      BY <3>2 DEF Received2
    <3>. QED
      BY <2>2, <3>1, <3>2
  <2>. QED
    BY <1>2, <2>1, <2>2, <2>3 DEF SessionInv, Returns
<1>7. ASSUME NEW p \in Processes, NEW f \in Flushes, StartFlush(p, f) \/ FlushAgain(p, f)
      PROVE  SessionInv' /\ \A q \in Processes, g \in Flushes : ~Returns(q, g)
  <2>1. running[p][f] \in {None, {}} /\ TakeBatch(p, f)
    BY <1>7 DEF StartFlush, FlushAgain
  <2>2. /\ FlowInv'
        /\ \A q \in Processes, g \in Flushes : running[q][g] # None => running'[q][g] # None
    BY <1>1, <2>1, TakeBatchKeeps
  <2>3. UNCHANGED <<table, cache>>
    BY <2>1 DEF TakeBatch
  <2>. QED
    BY <1>2, <2>2, <2>3 DEF SessionInv, Returns
<1>8. ASSUME NEW p \in Processes, NEW f \in Flushes, FlushDone(p, f)
      PROVE  SessionInv' /\ \A q \in Processes, g \in Flushes : Returns(q, g) => pending[q] = {}
  <2>1. /\ FlowInv'
        /\ \A q \in Processes, g \in Flushes :
             running[q][g] # None /\ running'[q][g] = None => q = p
    BY <1>1, <1>8, FlushDoneKeeps
  <2>2. UNCHANGED <<table, cache>> /\ pending[p] = {}
    BY <1>8 DEF FlushDone, Throw
  <2>. QED
    BY <1>2, <2>1, <2>2 DEF SessionInv, Returns
<1>9. ASSUME NEW p \in Processes, FlushAtOnce(p)
      PROVE  SessionInv' /\ \A q \in Processes, g \in Flushes : ~Returns(q, g)
  <2>1. UNCHANGED running /\ Throw(p) /\ UNCHANGED <<table, cache>>
    BY <1>9 DEF FlushAtOnce, Throw
  <2>2. running' \in [Processes -> [Flushes -> (SUBSET Writes) \cup {None}]]
    BY <1>1, <2>1 DEF FlowTyped
  <2>3. \A q \in Processes : InBatches(q)' = InBatches(q)
    BY <2>1 DEF InBatches
  <2>4. FlowInv'
    BY <1>1, <2>1, <2>2, <2>3, ThrowKeeps
  <2>. QED
    BY <1>2, <1>3, <2>1, <2>4 DEF SessionInv
<1>10. ASSUME NEW p \in Processes, RequestTimesOut(p)
       PROVE  SessionInv' /\ \A q \in Processes, g \in Flushes : ~Returns(q, g)
  <2>1. FlowInv' /\ used' # used
    BY <1>1, <1>10, TimeoutKeeps
  <2>2. UNCHANGED <<table, cache>>
    BY <1>10 DEF RequestTimesOut
  <2>. QED
    BY <1>2, <2>1, <2>2 DEF SessionInv, Returns
<1>11. ASSUME NEW p \in Processes, ProcessReplaced(p)
       PROVE  SessionInv' /\ \A q \in Processes, g \in Flushes : ~Returns(q, g)
  <2>1. Mishap /\ Fresh({p}) /\ cache' = cache /\ {p} \in SUBSET Processes
    BY <1>11 DEF ProcessReplaced
  <2>2. FlowInv' /\ used' # used /\ table' = table
    BY <1>1, <2>1, FreshKeeps
  <2>. QED
    BY <1>2, <2>1, <2>2 DEF SessionInv, Returns
<1>12. ASSUME QueueReplaced
       PROVE  SessionInv' /\ \A q \in Processes, g \in Flushes : ~Returns(q, g)
  <2>1. Mishap /\ Fresh(Processes) /\ cache' = EmptyCache /\ Processes \in SUBSET Processes
    BY <1>12 DEF QueueReplaced
  <2>2. FlowInv' /\ used' # used /\ table' = table
    BY <1>1, <2>1, FreshKeeps
  <2>3. EmptyCache \in CacheType
    <3>1. /\ Nothing \in [Sessions -> MaybeName] /\ Nothing \in [Sessions -> Rows \cup {None}]
          /\ Nothing \in [Sessions -> MaybeMessages]
      BY DEF Nothing, MaybeName, MaybeMessages
    <3> HIDE DEF Nothing
    <3>. QED
      BY <3>1 DEF EmptyCache, CacheType
  <2>4. \A s \in Sessions : Matches(EmptyCache, table, s) /\ Lists(EmptyCache, table, s)
    BY DEF Matches, Lists, EmptyCache, Nothing
  <2>5. True(EmptyCache, table)
    BY <1>1, <2>3, <2>4 DEF CacheInv, True
  <2>6. CacheInv'
    BY <2>1, <2>2, <2>5 DEF CacheInv
  <2>. QED
    BY <2>2, <2>6 DEF SessionInv, Returns
<1>13. ASSUME UNCHANGED vars
       PROVE  SessionInv' /\ \A q \in Processes, g \in Flushes : ~Returns(q, g)
  <2>1. UNCHANGED <<table, cache, wire, replies, pending, running, errors, used, mine, stored, thrown>>
    BY <1>13 DEF vars
  <2>2. FlowTyped'
    BY <1>1, <2>1 DEF FlowTyped
  <2>3. ASSUME NEW p \in Processes PROVE KeptBy(p)' /\ OnItsWay(p)'
    <3>1. InBatches(p)' = InBatches(p) /\ KeptBy(p) /\ OnItsWay(p)
      BY <1>1, <2>1 DEF InBatches, FlowInv, Kept
    <3>. QED
      BY <2>1, <3>1, Untouched
  <2>4. FlowInv'
    BY <2>2, <2>3 DEF FlowInv, Kept
  <2>. QED
    BY <1>2, <1>3, <2>1, <2>4 DEF SessionInv
<1>. QED
  BY <1>4, <1>5, <1>6, <1>7, <1>8, <1>9, <1>10, <1>11, <1>12, <1>13 DEF Next, FlushStep

LEMMA SessionInvHolds == Spec => []SessionInv
<1>1. Init => SessionInv
  BY InitInv
<1>2. SessionInv /\ [Next]_vars => SessionInv'
  BY InvStep
<1>. QED
  BY <1>1, <1>2, PTL DEF Spec

\* The requests, the replies and what the caches hold are what the code says they are, and
\* a reply is about the request it answers.
THEOREM SessionsTyped == Spec => [](TableTyped /\ FlowTyped)
<1>1. SessionInv => TableTyped /\ FlowTyped
  BY DEF SessionInv, FlowInv, CacheInv, True, TableTyped, Tables
<1>. QED
  BY <1>1, SessionInvHolds, PTL

\* The names and messages queue-service would answer from its caches are those of the tables,
\* whatever any process asks, in whatever order, and after a restart (session-cache.ts).
THEOREM CachesAreTrue == Spec => []CachesMatchTable
<1>1. SessionInv => CachesMatchTable
  BY DEF SessionInv, CacheInv, True, Matches, Lists, CachesMatchTable
<1>. QED
  BY <1>1, SessionInvHolds, PTL

\* Each write that is not settled has a request or a reply on its way: no flush waits for
\* what nobody will answer (track, appendMessages).
THEOREM WritesAreOnTheirWay == Spec => []UnsettledIsOnItsWay
<1>1. SessionInv => UnsettledIsOnItsWay
  BY DEF SessionInv, FlowInv, OnItsWay, UnsettledIsOnItsWay
<1>. QED
  BY <1>1, SessionInvHolds, PTL

\* A flush that returns without an error leaves no write of its process that is neither in
\* the tables, nor thrown, nor in the hands of another flush (flush, track).
THEOREM FlushedIsStored == Spec => FlushMeansStored
<1>1. ASSUME SessionInv, [Next]_vars
      PROVE  [\A p \in Processes, f \in Flushes :
                running[p][f] # None /\ running'[p][f] = None /\ errors[p] = <<>> /\ used' = used =>
                  mine[p] \subseteq stored \cup thrown \cup InBatches(p)]_vars
  <2> SUFFICES ASSUME NEW p \in Processes, NEW f \in Flushes, running[p][f] # None,
                      running'[p][f] = None, errors[p] = <<>>, used' = used
               PROVE  mine[p] \subseteq stored \cup thrown \cup InBatches(p)
    OBVIOUS
  <2>1. pending[p] = {}
    BY <1>1, InvStep DEF Returns
  <2>2. KeptBy(p)
    BY <1>1 DEF SessionInv, FlowInv, Kept
  <2>3. ToSet(errors[p]) = {}
    BY DEF ToSet
  <2>. QED
    BY <2>1, <2>2, <2>3 DEF KeptBy
<1>. QED
  BY <1>1, SessionInvHolds, PTL DEF Spec, FlushMeansStored

-----------------------------------------------------------------------------
(* Own writes: what a process has on its wire, in its replies and in its     *)
(* copy about one session.  w is the wire, q the replies, c the copy; n and  *)
(* m are the name and the messages the table has; an and am say whether the  *)
(* process was the last to change them.                                      *)

Is(r, ops, s) == r.op \in ops /\ r.session = s
Removes(r, s) == r.op = "deleteAll" \/ Is(r, {"delete"}, s)
Wipes(r, s) == r.op = "deleteAll" \/ Is(r, {"delete", "clear"}, s)
SaysName(r, s) ==
  r.op = "list" \/ Is(r, {"ensure", "rename", "clear", "load", "reload", "summary"}, s)

\* the requests of its writes have not timed out
Tracked(s, w) == \A i \in 1..Len(w) : w[i].session = s /\ w[i].write # 0 => w[i].awaited

\* no reply puts anything back, and nothing is in the copy
Quiet(s, w) == \A i \in 1..Len(w) : w[i].awaited => s \notin Touches(w[i])
Clean(s, q, c) ==
  /\ \A i \in 1..Len(q) : s \notin Touches(q[i])
  /\ c.messages[s] = None /\ c.page[s] = None /\ c.last[s] = None

\* while a clear or a delete is on the wire, no earlier request answers about the session
Wiped(s, w, q, c) ==
  \A d \in 1..Len(w) : Wipes(w[d], s) =>
    /\ \A i \in 1..Len(w) : i < d /\ w[i].awaited => s \notin Touches(w[i])
    /\ Clean(s, q, c)

\* while an append is on the wire, no earlier request brings a page back
NoPages(s, q, c) == c.page[s] = None /\ \A i \in 1..Len(q) : ~Is(q[i], {"page"}, s)
Grown(s, w, q, c) ==
  \A d \in 1..Len(w) : Is(w[d], {"append"}, s) =>
    /\ \A i \in 1..Len(w) : i < d /\ w[i].awaited => ~Is(w[i], {"page"}, s)
    /\ NoPages(s, q, c)

\* after the d-th request a session that is gone is used only once it is ensured again
BornAfter(s, w, c, d) ==
  /\ \A i \in 1..Len(w) : d < i /\ Is(w[i], {"rename", "clear", "append"}, s) =>
       \E j \in 1..Len(w) : d < j /\ j < i /\ Is(w[j], {"ensure"}, s)
  /\ \A i \in 1..Len(w) : d < i => ~Is(w[i], {"reload"}, s)
  /\ c.names[s] # None => \E j \in 1..Len(w) : d < j /\ Is(w[j], {"ensure"}, s)
Deleted(s, w, c) == \A d \in 1..Len(w) : Removes(w[d], s) => BornAfter(s, w, c, d)

\* the process has deleted the session, and no reply says anything else
NoneSaid(s, q) ==
  \A i \in 1..Len(q) : /\ ~(Is(q[i], {"append"}, s) /\ q[i].ok)
                       /\ SaysName(q[i], s) => q[i].names[s] = None
Gone(s, w, q, c) == BornAfter(s, w, c, 0) /\ NoneSaid(s, q)

\* The copy is right, or a reply on its way puts it right, and no wrong reply comes last.
Mended(ok, q, wrong, right) ==
  /\ ok \/ \E j \in 1..Len(q) : q[j] \in right
  /\ \A i \in 1..Len(q) : q[i] \in wrong => \E j \in 1..Len(q) : i < j /\ q[j] \in right

WrongName(s, n) ==
  {r \in Replies : SaysName(r, s) /\ r.names[s] # n /\ (r.names[s] # None \/ r.op = "list")}
RightName(s, n) ==
  {r \in Replies : Is(r, {"ensure", "rename", "clear"}, s) /\ r.names[s] = n /\ n # None}
NameShows(s, w, q, c, n) ==
  \/ \E i \in 1..Len(w) : Is(w[i], {"ensure", "rename"}, s) \/ Removes(w[i], s)
  \/ Mended(c.names[s] = n, q, WrongName(s, n), RightName(s, n))

Loads(r, s) == Is(r, {"load", "reload"}, s) /\ r.names[s] # None
WrongMessages(s, n, m) == {r \in Replies : Loads(r, s) /\ (n = None \/ r.messages # m)}
RightMessages(s, n, m) ==
  {r \in Replies : Loads(r, s) /\ r.op = "reload" /\ n # None /\ r.messages = m}
MessagesShow(s, w, q, c, n, m) ==
  \/ \E i \in 1..Len(w) : Is(w[i], {"append", "reload"}, s)
  \/ \E i \in 1..Len(q) : Is(q[i], {"append"}, s) /\ q[i].ok
  \/ Mended(c.messages[s] = None \/ (n # None /\ c.messages[s] = m), q,
            WrongMessages(s, n, m), RightMessages(s, n, m))

PageShows(s, q, c, m) ==
  /\ c.page[s] \in {None, m}
  /\ \A i \in 1..Len(q) : Is(q[i], {"page"}, s) => q[i].messages = m

Grows(r, s) == Is(r, {"append"}, s) /\ r.ok
SaysLast(r, s) == Grows(r, s) \/ Is(r, {"page", "lastId"}, s)
WrongLast(s, m) == {r \in Replies : SaysLast(r, s) /\ LastOf(r.messages) \notin {None, LastOf(m)}}
RightLast(s, m) ==
  {r \in Replies : Grows(r, s) /\ r.messages # <<>> /\ LastOf(r.messages) = LastOf(m)}
LastShows(s, q, c, m) ==
  Mended(c.last[s] \in {None, LastOf(m)}, q, WrongLast(s, m), RightLast(s, m))

Own(s, w, q, c, n, m, an, am) ==
  /\ Tracked(s, w) /\ Wiped(s, w, q, c) /\ Grown(s, w, q, c) /\ Deleted(s, w, c)
  /\ n = None => (an <=> am)
  /\ an /\ n = None => Gone(s, w, q, c)
  /\ an => NameShows(s, w, q, c, n)
  /\ am => MessagesShow(s, w, q, c, n, m)
  /\ am => PageShows(s, q, c, m)
  /\ am => LastShows(s, q, c, m)

-----------------------------------------------------------------------------
(* What a queue holds after a request or a reply is sent or taken off.       *)

Plus(w2, w, r) ==
  /\ Len(w) \in Nat /\ Len(w2) = Len(w) + 1
  /\ \A i \in 1..Len(w) : w2[i] = w[i]
  /\ w2[Len(w) + 1] = r
Less(w2, w, r) ==
  /\ Len(w2) \in Nat /\ Len(w) = Len(w2) + 1 /\ w[1] = r
  /\ \A i \in 1..Len(w2) : w2[i] = w[i + 1]

LEMMA PlusItems ==
  ASSUME NEW w, NEW w2, NEW r, Plus(w2, w, r)
  PROVE  /\ \A i \in 1..Len(w2) : (i \in 1..Len(w) /\ w2[i] = w[i]) \/ (i = Len(w) + 1 /\ w2[i] = r)
         /\ \A i \in 1..Len(w) : i \in 1..Len(w2) /\ w2[i] = w[i] /\ i < Len(w) + 1
         /\ Len(w) + 1 \in 1..Len(w2) /\ w2[Len(w) + 1] = r
         /\ 1..Len(w) \subseteq Nat /\ 1..Len(w2) \subseteq Nat /\ Len(w) \in Nat
BY DEF Plus

LEMMA LessItems ==
  ASSUME NEW w, NEW w2, NEW r, Less(w2, w, r)
  PROVE  /\ \A i \in 1..Len(w2) : i + 1 \in 1..Len(w) /\ w2[i] = w[i + 1] /\ i + 1 # 1
         /\ \A i \in 1..Len(w) : (i = 1 /\ w[i] = r) \/ (i - 1 \in 1..Len(w2) /\ w2[i - 1] = w[i])
         /\ 1 \in 1..Len(w) /\ w[1] = r
         /\ 1..Len(w) \subseteq Nat /\ 1..Len(w2) \subseteq Nat
<1>1. ASSUME NEW i \in 1..Len(w), i # 1
      PROVE  i - 1 \in 1..Len(w2) /\ w2[i - 1] = w[i]
  <2>1. i - 1 \in 1..Len(w2) /\ (i - 1) + 1 = i
    BY <1>1 DEF Less
  <2>2. w2[i - 1] = w[(i - 1) + 1]
    BY <2>1 DEF Less
  <2>. QED
    BY <2>1, <2>2
<1>. QED
  BY <1>1 DEF Less

LEMMA PlusAppend ==
  ASSUME NEW S, NEW w \in Seq(S), NEW r \in S
  PROVE  Plus(Append(w, r), w, r) /\ Append(w, r) \in Seq(S)
BY Appended DEF Plus

LEMMA LessTail ==
  ASSUME NEW S, NEW w \in Seq(S), w # <<>>
  PROVE  Less(Tail(w), w, Head(w)) /\ Tail(w) \in Seq(S)
BY TakenOff DEF Less

-----------------------------------------------------------------------------
(* What is put right stays so.                                               *)

LEMMA MendedTaken ==
  ASSUME NEW ok \in BOOLEAN, NEW now \in BOOLEAN, NEW q, NEW q2, NEW r, Less(q2, q, r),
         NEW wrong, NEW right, Mended(ok, q, wrong, right),
         r \in right => now, r \notin wrong /\ ok => now
  PROVE  Mended(now, q2, wrong, right)
<1>1. ASSUME NEW i \in 1..Len(q2), q2[i] \in wrong
      PROVE  \E j \in 1..Len(q2) : i < j /\ q2[j] \in right
  <2>1. i + 1 \in 1..Len(q) /\ q[i + 1] \in wrong
    BY <1>1, LessItems
  <2>2. PICK j \in 1..Len(q) : i + 1 < j /\ q[j] \in right
    BY <2>1 DEF Mended
  <2>3. j - 1 \in 1..Len(q2) /\ q2[j - 1] = q[j] /\ i < j - 1
    BY <2>1, <2>2, LessItems DEF Less
  <2>. QED
    BY <2>2, <2>3
<1>2. now \/ \E j \in 1..Len(q2) : q2[j] \in right
  <2>1. CASE r \in right
    BY <2>1
  <2>2. CASE r \notin right /\ \E j \in 1..Len(q) : q[j] \in right
    <3>1. PICK j \in 1..Len(q) : q[j] \in right
      BY <2>2
    <3>2. j - 1 \in 1..Len(q2) /\ q2[j - 1] = q[j]
      BY <2>2, <3>1, LessItems
    <3>. QED
      BY <3>1, <3>2
  <2>3. CASE ~\E j \in 1..Len(q) : q[j] \in right
    <3>1. ok /\ r \notin wrong
      BY <2>3, LessItems DEF Mended
    <3>. QED
      BY <3>1
  <2>. QED
    BY <2>1, <2>2, <2>3
<1>. QED
  BY <1>1, <1>2 DEF Mended

LEMMA MendedSent ==
  ASSUME NEW ok \in BOOLEAN, NEW q, NEW q2, NEW r, Plus(q2, q, r), NEW wrong, NEW right,
         r \notin wrong, Mended(ok, q, wrong, right) \/ r \in right
  PROVE  Mended(ok, q2, wrong, right)
<1>1. CASE Mended(ok, q, wrong, right)
  <2>1. ok \/ \E j \in 1..Len(q2) : q2[j] \in right
    BY <1>1, PlusItems DEF Mended
  <2>2. ASSUME NEW i \in 1..Len(q2), q2[i] \in wrong
        PROVE  \E j \in 1..Len(q2) : i < j /\ q2[j] \in right
    <3>1. i \in 1..Len(q) /\ q[i] \in wrong
      BY <2>2, PlusItems
    <3>2. PICK j \in 1..Len(q) : i < j /\ q[j] \in right
      BY <1>1, <3>1 DEF Mended
    <3>. QED
      BY <3>2, PlusItems
  <2>. QED
    BY <2>1, <2>2 DEF Mended
<1>2. CASE r \in right
  <2>1. ASSUME NEW i \in 1..Len(q2), q2[i] \in wrong
        PROVE  i < Len(q) + 1
    BY <2>1, PlusItems
  <2>2. Len(q) + 1 \in 1..Len(q2) /\ q2[Len(q) + 1] \in right
    BY <1>2, PlusItems
  <2>. QED
    BY <2>1, <2>2 DEF Mended
<1>. QED
  BY <1>1, <1>2

LEMMA MendedMore ==
  ASSUME NEW ok \in BOOLEAN, NEW now \in BOOLEAN, NEW q, NEW wrong, NEW right,
         NEW wrong2, NEW right2, Mended(ok, q, wrong, right), ok => now,
         wrong2 \subseteq wrong, right \subseteq right2
  PROVE  Mended(now, q, wrong2, right2)
BY DEF Mended

LEMMA TouchFacts ==
  ASSUME NEW s \in Sessions, NEW r
  PROVE  s \in Touches(r) <=>
           r.op = "list" \/ (r.op \notin {"list", "delete", "deleteAll"} /\ r.session = s)
BY DEF Touches
-----------------------------------------------------------------------------
(* A process calls: a request is sent, and the copy changes at once.         *)

LEMMA BornSent ==
  ASSUME NEW s, NEW w, NEW w2, NEW r, NEW c, NEW c2, NEW d \in Nat, d <= Len(w), Plus(w2, w, r),
         BornAfter(s, w, c, d),
         ~Is(r, {"reload"}, s),
         Is(r, {"rename", "clear", "append"}, s) => c.names[s] # None,
         c2.names[s] # None => c.names[s] # None \/ Is(r, {"ensure"}, s)
  PROVE  BornAfter(s, w2, c2, d)
<1>1. ASSUME NEW i \in 1..Len(w2), d < i, Is(w2[i], {"rename", "clear", "append"}, s)
      PROVE  \E j \in 1..Len(w2) : d < j /\ j < i /\ Is(w2[j], {"ensure"}, s)
  <2>1. CASE i \in 1..Len(w) /\ w2[i] = w[i]
    <3>1. PICK j \in 1..Len(w) : d < j /\ j < i /\ Is(w[j], {"ensure"}, s)
      BY <1>1, <2>1 DEF BornAfter
    <3>. QED
      BY <3>1, PlusItems
  <2>2. CASE i = Len(w) + 1 /\ w2[i] = r
    <3>1. c.names[s] # None
      BY <1>1, <2>2
    <3>2. PICK j \in 1..Len(w) : d < j /\ Is(w[j], {"ensure"}, s)
      BY <3>1 DEF BornAfter
    <3>. QED
      BY <2>2, <3>2, PlusItems
  <2>. QED
    BY <2>1, <2>2, PlusItems
<1>2. ASSUME NEW i \in 1..Len(w2), d < i PROVE ~Is(w2[i], {"reload"}, s)
  <2>1. (i \in 1..Len(w) /\ w2[i] = w[i]) \/ w2[i] = r
    BY PlusItems
  <2>. QED
    BY <1>2, <2>1 DEF BornAfter
<1>3. ASSUME c2.names[s] # None PROVE \E j \in 1..Len(w2) : d < j /\ Is(w2[j], {"ensure"}, s)
  <2>1. CASE c.names[s] # None
    <3>1. PICK j \in 1..Len(w) : d < j /\ Is(w[j], {"ensure"}, s)
      BY <2>1 DEF BornAfter
    <3>. QED
      BY <3>1, PlusItems
  <2>2. CASE Is(r, {"ensure"}, s)
    <3>1. Len(w) + 1 \in 1..Len(w2) /\ w2[Len(w) + 1] = r /\ d < Len(w) + 1
      BY PlusItems
    <3>. QED
      BY <2>2, <3>1
  <2>. QED
    BY <1>3, <2>1, <2>2
<1>. QED
  BY <1>1, <1>2, <1>3 DEF BornAfter

\* what a call of a process does to its copy, as far as one session is concerned
Called(s, w, q, c, c2, r) ==
  /\ r.awaited /\ ~Is(r, {"reload"}, s)
  /\ Is(r, {"rename", "clear", "append"}, s) => c.names[s] # None
  /\ \/ c2.names[s] = c.names[s] \/ Is(r, {"ensure"}, s)
     \/ Is(r, {"rename"}, s) \/ (Removes(r, s) /\ c2.names[s] = None)
  /\ c2.messages[s] \in {c.messages[s], None} \/ (Is(r, {"append"}, s) /\ c.messages[s] # None)
  /\ c2.page[s] \in {c.page[s], None}
  /\ c2.last[s] \in {c.last[s], None}
  /\ Removes(r, s) => c2.names[s] = None
  /\ Wipes(r, s) => Quiet(s, w) /\ Clean(s, q, c2)
  /\ Is(r, {"append"}, s) =>
       /\ \A i \in 1..Len(w) : w[i].awaited => ~Is(w[i], {"page"}, s)
       /\ NoPages(s, q, c2)

LEMMA OwnCall ==
  ASSUME NEW s, NEW w, NEW w2, NEW r, NEW q, NEW c, NEW c2, NEW n, NEW m,
         NEW an \in BOOLEAN, NEW am \in BOOLEAN,
         Own(s, w, q, c, n, m, an, am), Plus(w2, w, r), Called(s, w, q, c, c2, r)
  PROVE  Own(s, w2, q, c2, n, m, an, am)
<1>1. Tracked(s, w2)
  BY PlusItems DEF Own, Tracked, Called
<1>2. Wiped(s, w2, q, c2)
  <2> SUFFICES ASSUME NEW d \in 1..Len(w2), Wipes(w2[d], s)
               PROVE  /\ \A i \in 1..Len(w2) : i < d /\ w2[i].awaited => s \notin Touches(w2[i])
                      /\ Clean(s, q, c2)
    BY DEF Wiped
  <2>1. CASE d \in 1..Len(w) /\ w2[d] = w[d]
    <3>1. /\ \A i \in 1..Len(w) : i < d /\ w[i].awaited => s \notin Touches(w[i])
          /\ Clean(s, q, c)
      BY <2>1 DEF Own, Wiped
    <3>2. Clean(s, q, c2)
      BY <3>1 DEF Clean, Called
    <3>3. ASSUME NEW i \in 1..Len(w2), i < d PROVE i \in 1..Len(w) /\ w2[i] = w[i]
      BY <2>1, <3>3, PlusItems
    <3>. QED
      BY <3>1, <3>2, <3>3
  <2>2. CASE d = Len(w) + 1 /\ w2[d] = r
    <3>1. Quiet(s, w) /\ Clean(s, q, c2)
      BY <2>2 DEF Called
    <3>2. ASSUME NEW i \in 1..Len(w2), i < d PROVE i \in 1..Len(w) /\ w2[i] = w[i]
      BY <2>2, <3>2, PlusItems
    <3>. QED
      BY <3>1, <3>2 DEF Quiet
  <2>. QED
    BY <2>1, <2>2, PlusItems
<1>3. Grown(s, w2, q, c2)
  <2> SUFFICES ASSUME NEW d \in 1..Len(w2), Is(w2[d], {"append"}, s)
               PROVE  /\ \A i \in 1..Len(w2) : i < d /\ w2[i].awaited => ~Is(w2[i], {"page"}, s)
                      /\ NoPages(s, q, c2)
    BY DEF Grown
  <2>1. CASE d \in 1..Len(w) /\ w2[d] = w[d]
    <3>1. /\ \A i \in 1..Len(w) : i < d /\ w[i].awaited => ~Is(w[i], {"page"}, s)
          /\ NoPages(s, q, c)
      BY <2>1 DEF Own, Grown
    <3>2. NoPages(s, q, c2)
      BY <3>1 DEF NoPages, Called
    <3>3. ASSUME NEW i \in 1..Len(w2), i < d PROVE i \in 1..Len(w) /\ w2[i] = w[i]
      BY <2>1, <3>3, PlusItems
    <3>. QED
      BY <3>1, <3>2, <3>3
  <2>2. CASE d = Len(w) + 1 /\ w2[d] = r
    <3>1. /\ \A i \in 1..Len(w) : w[i].awaited => ~Is(w[i], {"page"}, s)
          /\ NoPages(s, q, c2)
      BY <2>2 DEF Called
    <3>2. ASSUME NEW i \in 1..Len(w2), i < d PROVE i \in 1..Len(w) /\ w2[i] = w[i]
      BY <2>2, <3>2, PlusItems
    <3>. QED
      BY <3>1, <3>2
  <2>. QED
    BY <2>1, <2>2, PlusItems
<1>4. ASSUME NEW d \in Nat, d <= Len(w), BornAfter(s, w, c, d) PROVE BornAfter(s, w2, c2, d)
  <2>1. /\ ~Is(r, {"reload"}, s)
        /\ Is(r, {"rename", "clear", "append"}, s) => c.names[s] # None
    BY DEF Called
  <2>2. c2.names[s] # None => c.names[s] # None \/ Is(r, {"ensure"}, s)
    BY DEF Called, Is
  <2>. QED
    BY <1>4, <2>1, <2>2, BornSent
<1>5. Deleted(s, w2, c2)
  <2> SUFFICES ASSUME NEW d \in 1..Len(w2), Removes(w2[d], s) PROVE BornAfter(s, w2, c2, d)
    BY DEF Deleted
  <2>1. CASE d \in 1..Len(w) /\ w2[d] = w[d]
    <3>1. BornAfter(s, w, c, d) /\ d \in Nat /\ d <= Len(w)
      BY <2>1 DEF Own, Deleted
    <3>. QED
      BY <3>1, <1>4
  <2>2. CASE d = Len(w) + 1 /\ w2[d] = r
    <3>1. c2.names[s] = None
      BY <2>2 DEF Called
    <3>2. \A i \in 1..Len(w2) : ~(d < i)
      BY <2>2 DEF Plus
    <3>. QED
      BY <3>1, <3>2 DEF BornAfter
  <2>. QED
    BY <2>1, <2>2, PlusItems
<1>6. an /\ n = None => Gone(s, w2, q, c2)
  <2> SUFFICES ASSUME an, n = None PROVE Gone(s, w2, q, c2)
    OBVIOUS
  <2>1. BornAfter(s, w, c, 0) /\ NoneSaid(s, q) /\ 0 <= Len(w)
    BY PlusItems DEF Own, Gone
  <2>. QED
    BY <2>1, <1>4 DEF Gone
<1>7. an => NameShows(s, w2, q, c2, n)
  <2> SUFFICES ASSUME an PROVE NameShows(s, w2, q, c2, n)
    OBVIOUS
  <2>1. CASE Is(r, {"ensure", "rename"}, s) \/ Removes(r, s)
    BY <2>1, PlusItems DEF NameShows
  <2>2. CASE ~(Is(r, {"ensure", "rename"}, s) \/ Removes(r, s))
    <3>1. c2.names[s] = c.names[s]
      BY <2>2 DEF Called, Is
    <3>2. NameShows(s, w, q, c, n)
      BY DEF Own
    <3>3. CASE \E i \in 1..Len(w) : Is(w[i], {"ensure", "rename"}, s) \/ Removes(w[i], s)
      BY <3>3, PlusItems DEF NameShows
    <3>4. CASE Mended(c.names[s] = n, q, WrongName(s, n), RightName(s, n))
      BY <3>1, <3>4 DEF NameShows
    <3>. QED
      BY <3>2, <3>3, <3>4 DEF NameShows
  <2>. QED
    BY <2>1, <2>2
<1>8. am => MessagesShow(s, w2, q, c2, n, m)
  <2> SUFFICES ASSUME am PROVE MessagesShow(s, w2, q, c2, n, m)
    OBVIOUS
  <2>1. MessagesShow(s, w, q, c, n, m)
    BY DEF Own
  <2>2. CASE Is(r, {"append"}, s) \/ \E i \in 1..Len(w) : Is(w[i], {"append", "reload"}, s)
    <3>1. \E i \in 1..Len(w2) : Is(w2[i], {"append", "reload"}, s)
      BY <2>2, PlusItems DEF Is
    <3>. QED
      BY <3>1 DEF MessagesShow
  <2>3. CASE \E i \in 1..Len(q) : Is(q[i], {"append"}, s) /\ q[i].ok
    BY <2>3 DEF MessagesShow
  <2>4. CASE /\ ~Is(r, {"append"}, s)
             /\ Mended(c.messages[s] = None \/ (n # None /\ c.messages[s] = m), q,
                       WrongMessages(s, n, m), RightMessages(s, n, m))
    <3>1. c2.messages[s] \in {c.messages[s], None}
      BY <2>4 DEF Called
    <3>2. (c.messages[s] = None \/ (n # None /\ c.messages[s] = m))
             => (c2.messages[s] = None \/ (n # None /\ c2.messages[s] = m))
      BY <3>1
    <3>3. Mended(c2.messages[s] = None \/ (n # None /\ c2.messages[s] = m), q,
                 WrongMessages(s, n, m), RightMessages(s, n, m))
      BY <2>4, <3>2, MendedMore
    <3>. QED
      BY <3>3 DEF MessagesShow
  <2>. QED
    BY <2>1, <2>2, <2>3, <2>4 DEF MessagesShow
<1>9. am => PageShows(s, q, c2, m)
  BY DEF Own, PageShows, Called
<1>10. am => LastShows(s, q, c2, m)
  <2> SUFFICES ASSUME am PROVE LastShows(s, q, c2, m)
    OBVIOUS
  <2> DEFINE ok == c.last[s] \in {None, LastOf(m)}
             now == c2.last[s] \in {None, LastOf(m)}
  <2>1. Mended(ok, q, WrongLast(s, m), RightLast(s, m))
    BY DEF Own, LastShows
  <2>2. ok \in BOOLEAN /\ now \in BOOLEAN /\ (ok => now)
    BY DEF Called
  <2> HIDE DEF ok, now
  <2>3. Mended(now, q, WrongLast(s, m), RightLast(s, m))
    BY <2>1, <2>2, MendedMore
  <2>. QED
    BY <2>3 DEF LastShows, now
<1>11. n = None => (an <=> am)
  BY DEF Own
<1>. QED
  BY <1>1, <1>2, <1>3, <1>5, <1>6, <1>7, <1>8, <1>9, <1>10, <1>11 DEF Own
-----------------------------------------------------------------------------
(* A reply arrives.                                                          *)

\* what a reply does to the copy, as far as one session is concerned
Heard(s, c, c2, r) ==
  /\ c2.names[s] = IF SaysName(r, s) /\ (r.names[s] # None \/ r.op = "list")
                   THEN r.names[s] ELSE c.names[s]
  /\ c2.messages[s] = IF Loads(r, s) THEN r.messages ELSE c.messages[s]
  /\ c2.page[s] = IF Is(r, {"page"}, s) THEN r.messages ELSE c.page[s]
  /\ c2.last[s] = IF Grows(r, s) \/ Is(r, {"page"}, s) THEN FromPage(c.last[s], r.messages)
                  ELSE IF Is(r, {"lastId"}, s) THEN LastOf(r.messages) ELSE c.last[s]

\* the request its continuation sends, if any
Continues(w2, w, r) ==
  \/ w2 = w /\ ~(r.op = "append" /\ r.ok)
  \/ \E x : /\ Plus(w2, w, x) /\ x.awaited /\ x.session = r.session
            /\ IF r.op = "append" THEN r.ok /\ x.op = "reload" ELSE x.op \in {"summary", "lastId"}

\* a reply that is not about the session leaves its part of the copy alone
LEMMA HeardElse ==
  ASSUME NEW s \in Sessions, NEW c, NEW c2, NEW r, Heard(s, c, c2, r), s \notin Touches(r)
  PROVE  /\ c2.names[s] = c.names[s] /\ c2.messages[s] = c.messages[s]
         /\ c2.page[s] = c.page[s] /\ c2.last[s] = c.last[s]
         /\ ~SaysName(r, s) /\ ~Is(r, {"append"}, s) /\ ~Is(r, {"page"}, s)
<1>1. r.op # "list" /\ (r.op \in {"delete", "deleteAll"} \/ r.session # s)
  BY TouchFacts
<1>2. /\ ~SaysName(r, s) /\ ~Is(r, {"append"}, s) /\ ~Is(r, {"page"}, s)
      /\ ~Loads(r, s) /\ ~Grows(r, s) /\ ~Is(r, {"lastId"}, s)
  BY <1>1 DEF SaysName, Is, Loads, Grows
<1>. QED
  BY <1>2 DEF Heard

LEMMA CleanHeard ==
  ASSUME NEW s \in Sessions, NEW q, NEW q2, NEW r, NEW c, NEW c2, Less(q2, q, r),
         Heard(s, c, c2, r), Clean(s, q, c)
  PROVE  /\ Clean(s, q2, c2) /\ c2.names[s] = c.names[s]
         /\ ~Is(r, {"append"}, s)
<1>1. s \notin Touches(r)
  BY LessItems DEF Clean
<1>2. \A i \in 1..Len(q2) : s \notin Touches(q2[i])
  BY LessItems DEF Clean
<1>. QED
  BY <1>1, <1>2, HeardElse DEF Clean

\* the requests before one that was there already are the same
LEMMA Continued ==
  ASSUME NEW s, NEW w, NEW w2, NEW r, Continues(w2, w, r)
  PROVE  /\ \A i \in 1..Len(w) : i \in 1..Len(w2) /\ w2[i] = w[i]
         /\ \A i \in 1..Len(w2) :
              \/ i \in 1..Len(w) /\ w2[i] = w[i]
              \/ /\ i = Len(w) + 1 /\ Len(w) \in Nat /\ w2[i].awaited /\ w2[i].session = r.session
                 /\ w2[i].op \in {"reload", "summary", "lastId"}
                 /\ w2[i].op = "reload" => r.op = "append" /\ r.ok
         /\ r.op = "append" /\ r.ok =>
              \E i \in 1..Len(w2) : w2[i].op = "reload" /\ w2[i].session = r.session
<1>1. CASE w2 = w /\ ~(r.op = "append" /\ r.ok)
  BY <1>1
<1>2. CASE ~(w2 = w /\ ~(r.op = "append" /\ r.ok))
  <2>1. PICK x :
          /\ Plus(w2, w, x) /\ x.awaited /\ x.session = r.session
          /\ IF r.op = "append" THEN r.ok /\ x.op = "reload" ELSE x.op \in {"summary", "lastId"}
    BY <1>2 DEF Continues
  <2>2. /\ x.op \in {"reload", "summary", "lastId"} /\ x.op = "reload" => r.op = "append" /\ r.ok
        /\ r.op = "append" /\ r.ok => x.op = "reload"
    BY <2>1
  <2>. QED
    BY <2>1, <2>2, PlusItems
<1>. QED
  BY <1>1, <1>2

LEMMA BornHeard ==
  ASSUME NEW s, NEW w, NEW w2, NEW r, NEW c, NEW c2, NEW d \in Nat,
         Continues(w2, w, r), BornAfter(s, w, c, d), d <= Len(w), Len(w) \in Nat,
         ~(Is(r, {"append"}, s) /\ r.ok), c2.names[s] \in {c.names[s], None}
  PROVE  BornAfter(s, w2, c2, d)
<1>1. ASSUME NEW i \in 1..Len(w2), Is(w2[i], {"rename", "clear", "append"}, s), d < i
      PROVE  \E j \in 1..Len(w2) : d < j /\ j < i /\ Is(w2[j], {"ensure"}, s)
  <2>1. i \in 1..Len(w) /\ w2[i] = w[i]
    BY <1>1, Continued DEF Is
  <2>2. PICK j \in 1..Len(w) : d < j /\ j < i /\ Is(w[j], {"ensure"}, s)
    BY <1>1, <2>1 DEF BornAfter
  <2>. QED
    BY <2>2, Continued
<1>2. ASSUME NEW i \in 1..Len(w2), d < i PROVE ~Is(w2[i], {"reload"}, s)
  <2>1. CASE i \in 1..Len(w) /\ w2[i] = w[i]
    BY <1>2, <2>1 DEF BornAfter
  <2>2. CASE ~(i \in 1..Len(w) /\ w2[i] = w[i])
    BY <2>2, Continued DEF Is
  <2>. QED
    BY <2>1, <2>2
<1>3. ASSUME c2.names[s] # None PROVE \E j \in 1..Len(w2) : d < j /\ Is(w2[j], {"ensure"}, s)
  <2>1. PICK j \in 1..Len(w) : d < j /\ Is(w[j], {"ensure"}, s)
    BY <1>3 DEF BornAfter
  <2>. QED
    BY <2>1, Continued
<1>. QED
  BY <1>1, <1>2, <1>3 DEF BornAfter
LEMMA OwnHeard ==
  ASSUME NEW s \in Sessions, NEW w, NEW w2, NEW q, NEW q2, NEW r \in Replies, NEW c, NEW c2,
         NEW n, NEW m, NEW an \in BOOLEAN, NEW am \in BOOLEAN,
         Own(s, w, q, c, n, m, an, am), Len(w) \in Nat,
         Less(q2, q, r), Continues(w2, w, r), Heard(s, c, c2, r)
  PROVE  Own(s, w2, q2, c2, n, m, an, am)
<1>1. Tracked(s, w2)
  BY Continued DEF Own, Tracked
<1>2. Wiped(s, w2, q2, c2)
  <2> SUFFICES ASSUME NEW d \in 1..Len(w2), Wipes(w2[d], s)
               PROVE  /\ \A i \in 1..Len(w2) : i < d /\ w2[i].awaited => s \notin Touches(w2[i])
                      /\ Clean(s, q2, c2)
    BY DEF Wiped
  <2>1. d \in 1..Len(w) /\ w2[d] = w[d]
    BY Continued DEF Wipes, Is
  <2>2. /\ \A i \in 1..Len(w) : i < d /\ w[i].awaited => s \notin Touches(w[i])
        /\ Clean(s, q, c)
    BY <2>1 DEF Own, Wiped
  <2>3. Clean(s, q2, c2)
    BY <2>2, CleanHeard
  <2>4. ASSUME NEW i \in 1..Len(w2), i < d PROVE i \in 1..Len(w) /\ w2[i] = w[i]
    BY <2>1, <2>4, Continued
  <2>. QED
    BY <2>2, <2>3, <2>4
<1>3. Grown(s, w2, q2, c2)
  <2> SUFFICES ASSUME NEW d \in 1..Len(w2), Is(w2[d], {"append"}, s)
               PROVE  /\ \A i \in 1..Len(w2) : i < d /\ w2[i].awaited => ~Is(w2[i], {"page"}, s)
                      /\ NoPages(s, q2, c2)
    BY DEF Grown
  <2>1. d \in 1..Len(w) /\ w2[d] = w[d]
    BY Continued DEF Is
  <2>2. /\ \A i \in 1..Len(w) : i < d /\ w[i].awaited => ~Is(w[i], {"page"}, s)
        /\ NoPages(s, q, c)
    BY <2>1 DEF Own, Grown
  <2>3. ~Is(r, {"page"}, s) /\ \A i \in 1..Len(q2) : ~Is(q2[i], {"page"}, s)
    BY <2>2, LessItems DEF NoPages
  <2>4. NoPages(s, q2, c2)
    BY <2>2, <2>3 DEF NoPages, Heard
  <2>5. ASSUME NEW i \in 1..Len(w2), i < d PROVE i \in 1..Len(w) /\ w2[i] = w[i]
    BY <2>1, <2>5, Continued
  <2>. QED
    BY <2>2, <2>4, <2>5
<1>4. Deleted(s, w2, c2)
  <2> SUFFICES ASSUME NEW d \in 1..Len(w2), Removes(w2[d], s) PROVE BornAfter(s, w2, c2, d)
    BY DEF Deleted
  <2>1. d \in 1..Len(w) /\ w2[d] = w[d]
    BY Continued DEF Removes, Is
  <2>2. BornAfter(s, w, c, d) /\ Clean(s, q, c) /\ d \in Nat /\ d <= Len(w)
    BY <2>1 DEF Own, Deleted, Wiped, Removes, Wipes, Is
  <2>3. c2.names[s] = c.names[s] /\ ~Is(r, {"append"}, s)
    BY <2>2, CleanHeard
  <2>. QED
    BY <2>2, <2>3, BornHeard
<1>5. an /\ n = None => Gone(s, w2, q2, c2)
  <2> SUFFICES ASSUME an, n = None PROVE Gone(s, w2, q2, c2)
    OBVIOUS
  <2>1. BornAfter(s, w, c, 0) /\ NoneSaid(s, q) /\ 0 \in Nat /\ 0 <= Len(w)
    BY DEF Own, Gone
  <2>2. ~(Is(r, {"append"}, s) /\ r.ok) /\ (SaysName(r, s) => r.names[s] = None)
    BY <2>1, LessItems DEF NoneSaid
  <2>3. c2.names[s] \in {c.names[s], None}
    BY <2>2 DEF Heard
  <2>4. NoneSaid(s, q2)
    BY <2>1, LessItems DEF NoneSaid
  <2>. QED
    BY <2>1, <2>2, <2>3, <2>4, BornHeard DEF Gone
<1>6. an => NameShows(s, w2, q2, c2, n)
  <2> SUFFICES ASSUME an PROVE NameShows(s, w2, q2, c2, n)
    OBVIOUS
  <2>1. CASE \E i \in 1..Len(w) : Is(w[i], {"ensure", "rename"}, s) \/ Removes(w[i], s)
    BY <2>1, Continued DEF NameShows
  <2>2. CASE Mended(c.names[s] = n, q, WrongName(s, n), RightName(s, n))
    <3> DEFINE ok == c.names[s] = n
               now == c2.names[s] = n
    <3>1. r \in RightName(s, n) => now
      BY DEF RightName, Heard, SaysName, Is
    <3>2. r \notin WrongName(s, n) /\ ok => now
      BY DEF WrongName, Heard
    <3>3. ok \in BOOLEAN /\ now \in BOOLEAN
      OBVIOUS
    <3>4. Mended(ok, q, WrongName(s, n), RightName(s, n))
      BY <2>2
    <3> HIDE DEF ok, now
    <3>5. Mended(now, q2, WrongName(s, n), RightName(s, n))
      BY <3>1, <3>2, <3>3, <3>4, MendedTaken
    <3>. QED
      BY <3>5 DEF NameShows, now
  <2>. QED
    BY <2>1, <2>2 DEF Own, NameShows
<1>7. am => MessagesShow(s, w2, q2, c2, n, m)
  <2> SUFFICES ASSUME am PROVE MessagesShow(s, w2, q2, c2, n, m)
    OBVIOUS
  <2>1. CASE \E i \in 1..Len(w) : Is(w[i], {"append", "reload"}, s)
    BY <2>1, Continued DEF MessagesShow
  <2>2. CASE \E i \in 1..Len(q) : Is(q[i], {"append"}, s) /\ q[i].ok
    <3>1. PICK i \in 1..Len(q) : Is(q[i], {"append"}, s) /\ q[i].ok
      BY <2>2
    <3>2. CASE q[i] = r
      <4>1. \E k \in 1..Len(w2) : w2[k].op = "reload" /\ w2[k].session = r.session
        BY <3>1, <3>2, Continued DEF Is
      <4>. QED
        BY <3>1, <3>2, <4>1 DEF MessagesShow, Is
    <3>3. CASE i - 1 \in 1..Len(q2) /\ q2[i - 1] = q[i]
      BY <3>1, <3>3 DEF MessagesShow
    <3>. QED
      BY <3>2, <3>3, LessItems
  <2>3. CASE Mended(c.messages[s] = None \/ (n # None /\ c.messages[s] = m), q,
                    WrongMessages(s, n, m), RightMessages(s, n, m))
    <3> DEFINE ok == c.messages[s] = None \/ (n # None /\ c.messages[s] = m)
               now == c2.messages[s] = None \/ (n # None /\ c2.messages[s] = m)
    <3>1. r \in RightMessages(s, n, m) => now
      BY DEF RightMessages, Heard
    <3>2. r \notin WrongMessages(s, n, m) /\ ok => now
      BY DEF WrongMessages, Heard
    <3>3. ok \in BOOLEAN /\ now \in BOOLEAN
      OBVIOUS
    <3>4. Mended(ok, q, WrongMessages(s, n, m), RightMessages(s, n, m))
      BY <2>3
    <3> HIDE DEF ok, now
    <3>5. Mended(now, q2, WrongMessages(s, n, m), RightMessages(s, n, m))
      BY <3>1, <3>2, <3>3, <3>4, MendedTaken
    <3>. QED
      BY <3>5 DEF MessagesShow, now
  <2>. QED
    BY <2>1, <2>2, <2>3 DEF Own, MessagesShow
<1>8. am => PageShows(s, q2, c2, m)
  <2> SUFFICES ASSUME am PROVE PageShows(s, q2, c2, m)
    OBVIOUS
  <2>1. PageShows(s, q, c, m)
    BY DEF Own
  <2>2. \A i \in 1..Len(q) : Is(q[i], {"page"}, s) => q[i].messages = m
    BY <2>1 DEF PageShows
  <2>3. Is(r, {"page"}, s) => r.messages = m
    BY <2>2, LessItems
  <2>4. ASSUME NEW i \in 1..Len(q2), Is(q2[i], {"page"}, s) PROVE q2[i].messages = m
    BY <2>2, <2>4, LessItems
  <2>. QED
    BY <2>1, <2>3, <2>4 DEF PageShows, Heard
<1>9. am => LastShows(s, q2, c2, m)
  <2> SUFFICES ASSUME am PROVE LastShows(s, q2, c2, m)
    OBVIOUS
  <2> DEFINE ok == c.last[s] \in {None, LastOf(m)}
             now == c2.last[s] \in {None, LastOf(m)}
  <2>1. Mended(ok, q, WrongLast(s, m), RightLast(s, m))
    BY DEF Own, LastShows
  <2>2. r \in RightLast(s, m) => now
    BY DEF RightLast, Heard, FromPage
  <2>3. r \notin WrongLast(s, m) /\ ok => now
    <3>1. CASE SaysLast(r, s)
      BY <3>1 DEF WrongLast, Heard, SaysLast, FromPage, Is, Grows
    <3>2. CASE ~SaysLast(r, s)
      BY <3>2 DEF Heard, SaysLast, Is, Grows
    <3>. QED
      BY <3>1, <3>2
  <2>4. ok \in BOOLEAN /\ now \in BOOLEAN
    OBVIOUS
  <2> HIDE DEF ok, now
  <2>5. Mended(now, q2, WrongLast(s, m), RightLast(s, m))
    BY <2>1, <2>2, <2>3, <2>4, MendedTaken
  <2>. QED
    BY <2>5 DEF LastShows, now
<1>10. n = None => (an <=> am)
  BY DEF Own
<1>. QED
  BY <1>1, <1>2, <1>3, <1>4, <1>5, <1>6, <1>7, <1>8, <1>9, <1>10 DEF Own
-----------------------------------------------------------------------------
(* queue-service answers a request of the process.                           *)

\* what the table says, once the request is served, is what the reply says
Truthful(a, s, n, m) ==
  /\ SaysName(a, s) => a.names[s] = n
  /\ Loads(a, s) => a.messages = m
  /\ SaysLast(a, s) => a.messages = m

LEMMA TruthIsNotWrong ==
  ASSUME NEW s \in Sessions, NEW a, NEW n, NEW m, Truthful(a, s, n, m)
  PROVE  /\ a.op = "list" => a \notin WrongName(s, n)
         /\ a \notin WrongName(s, n)
         /\ n # None => a \notin WrongMessages(s, n, m)
         /\ n = None => a \notin WrongMessages(s, n, m)
         /\ a \notin WrongLast(s, m)
<1>1. a \notin WrongName(s, n)
  BY DEF Truthful, WrongName
<1>2. Loads(a, s) => SaysName(a, s) /\ a.names[s] # None
  BY DEF Loads, SaysName, Is
<1>3. a \notin WrongMessages(s, n, m)
  BY <1>2 DEF Truthful, WrongMessages
<1>4. a \notin WrongLast(s, m)
  BY DEF Truthful, WrongLast
<1>. QED
  BY <1>1, <1>3, <1>4

\* the reply, if somebody waits for it
Replied(q2, q, r, a) ==
  /\ a \in Replies /\ a.op = r.op /\ a.session = r.session
  /\ IF r.awaited THEN Plus(q2, q, a) ELSE q2 = q

LEMMA RepliedItems ==
  ASSUME NEW q, NEW q2, NEW r, NEW a, Replied(q2, q, r, a)
  PROVE  /\ \A i \in 1..Len(q2) : (i \in 1..Len(q) /\ q2[i] = q[i]) \/ (r.awaited /\ q2[i] = a)
         /\ \A i \in 1..Len(q) : i \in 1..Len(q2) /\ q2[i] = q[i]
         /\ r.awaited => \E i \in 1..Len(q2) : q2[i] = a
<1>1. CASE r.awaited
  BY <1>1, PlusItems DEF Replied
<1>2. CASE ~r.awaited
  BY <1>2 DEF Replied
<1>. QED
  BY <1>1, <1>2

LEMMA MendedReplied ==
  ASSUME NEW ok \in BOOLEAN, NEW q, NEW q2, NEW r, NEW a, Replied(q2, q, r, a),
         NEW wrong, NEW right, a \notin wrong,
         Mended(ok, q, wrong, right) \/ (r.awaited /\ a \in right)
  PROVE  Mended(ok, q2, wrong, right)
<1>1. CASE r.awaited
  BY <1>1, MendedSent DEF Replied
<1>2. CASE ~r.awaited
  BY <1>2 DEF Replied
<1>. QED
  BY <1>1, <1>2

LEMMA BornServed ==
  ASSUME NEW s, NEW w, NEW w2, NEW r, NEW c, NEW d \in Nat, Less(w2, w, r), BornAfter(s, w, c, d),
         d > 0 \/ ~Is(r, {"ensure"}, s)
  PROVE  BornAfter(s, w2, c, IF d = 0 THEN 0 ELSE d - 1)
<1> DEFINE e == IF d = 0 THEN 0 ELSE d - 1
<1>1. e \in Nat /\ \A j \in Nat : (j > 0 /\ d < j + 1) <=> (j > 0 /\ e < j)
  OBVIOUS
<1>0. ASSUME NEW j \in 1..Len(w), d < j, Is(w[j], {"ensure"}, s)
      PROVE  j - 1 \in 1..Len(w2) /\ w2[j - 1] = w[j] /\ e < j - 1
  <2>1. j # 1
    BY <1>0, LessItems
  <2>2. j - 1 \in 1..Len(w2) /\ w2[j - 1] = w[j]
    BY <2>1, LessItems
  <2>. QED
    BY <1>0, <2>1, <2>2
<1> HIDE DEF e
<1>2. ASSUME NEW i \in 1..Len(w2), e < i, Is(w2[i], {"rename", "clear", "append"}, s)
      PROVE  \E j \in 1..Len(w2) : e < j /\ j < i /\ Is(w2[j], {"ensure"}, s)
  <2>1. i + 1 \in 1..Len(w) /\ w2[i] = w[i + 1] /\ d < i + 1 /\ i \in Nat
    BY <1>1, <1>2, LessItems
  <2>2. PICK j \in 1..Len(w) : d < j /\ j < i + 1 /\ Is(w[j], {"ensure"}, s)
    BY <1>2, <2>1 DEF BornAfter
  <2>3. j - 1 \in 1..Len(w2) /\ w2[j - 1] = w[j] /\ e < j - 1
    BY <1>0, <2>2
  <2>. QED
    BY <2>1, <2>2, <2>3
<1>3. ASSUME NEW i \in 1..Len(w2), e < i PROVE ~Is(w2[i], {"reload"}, s)
  <2>1. i + 1 \in 1..Len(w) /\ w2[i] = w[i + 1] /\ i \in Nat /\ i > 0
    BY LessItems
  <2>2. d < i + 1
    BY <1>1, <1>3, <2>1
  <2>. QED
    BY <2>1, <2>2 DEF BornAfter
<1>4. ASSUME c.names[s] # None PROVE \E j \in 1..Len(w2) : e < j /\ Is(w2[j], {"ensure"}, s)
  <2>1. PICK j \in 1..Len(w) : d < j /\ Is(w[j], {"ensure"}, s)
    BY <1>4 DEF BornAfter
  <2>2. j - 1 \in 1..Len(w2) /\ w2[j - 1] = w[j] /\ e < j - 1
    BY <1>0, <2>1
  <2>. QED
    BY <2>1, <2>2
<1>5. BornAfter(s, w2, c, e)
  BY <1>2, <1>3, <1>4 DEF BornAfter
<1>. QED
  BY <1>5 DEF e

\* the first request is not used before the session is ensured
LEMMA BornFirst ==
  ASSUME NEW s, NEW w, NEW w2, NEW r, NEW c, Less(w2, w, r), BornAfter(s, w, c, 0)
  PROVE  ~Is(r, {"rename", "clear", "append", "reload"}, s)
<1>1. 1 \in 1..Len(w) /\ w[1] = r /\ 0 < 1 /\ \A j \in 1..Len(w) : ~(0 < j /\ j < 1)
  BY LessItems
<1>2. ~Is(r, {"rename", "clear", "append"}, s)
  BY <1>1 DEF BornAfter
<1>3. ~Is(r, {"reload"}, s)
  BY <1>1 DEF BornAfter
<1>. QED
  BY <1>2, <1>3 DEF Is

\* the parts of the invariant that do not depend on the table
LEMMA WireServed ==
  ASSUME NEW s \in Sessions, NEW w, NEW w2, NEW r, NEW q, NEW q2, NEW a, NEW c,
         Less(w2, w, r), Replied(q2, q, r, a),
         Tracked(s, w), Wiped(s, w, q, c), Grown(s, w, q, c), Deleted(s, w, c)
  PROVE  /\ Tracked(s, w2) /\ Wiped(s, w2, q2, c) /\ Grown(s, w2, q2, c) /\ Deleted(s, w2, c)
         /\ r.session = s /\ r.write # 0 => r.awaited
         /\ Wipes(r, s) => Clean(s, q, c)
         /\ Removes(r, s) => Clean(s, q2, c)
         /\ Is(r, {"append"}, s) => NoPages(s, q2, c)
         /\ Removes(r, s) => BornAfter(s, w2, c, 0)
<1>1. Tracked(s, w2)
  BY LessItems DEF Tracked
<1>2. r.session = s /\ r.write # 0 => r.awaited
  BY LessItems DEF Tracked
<1>3. Touches(a) = Touches(r)
  BY DEF Replied, Touches
<1>4. Wiped(s, w2, q2, c)
  <2> SUFFICES ASSUME NEW d \in 1..Len(w2), Wipes(w2[d], s)
               PROVE  /\ \A i \in 1..Len(w2) : i < d /\ w2[i].awaited => s \notin Touches(w2[i])
                      /\ Clean(s, q2, c)
    BY DEF Wiped
  <2>1. d + 1 \in 1..Len(w) /\ w2[d] = w[d + 1]
    BY LessItems
  <2>2. /\ \A i \in 1..Len(w) : i < d + 1 /\ w[i].awaited => s \notin Touches(w[i])
        /\ Clean(s, q, c)
    BY <2>1 DEF Wiped
  <2>3. ASSUME NEW i \in 1..Len(w2), i < d, w2[i].awaited PROVE s \notin Touches(w2[i])
    <3>1. i + 1 \in 1..Len(w) /\ w2[i] = w[i + 1] /\ i + 1 < d + 1
      BY <2>3, LessItems
    <3>. QED
      BY <2>2, <2>3, <3>1
  <2>4. r.awaited => s \notin Touches(r)
    <3>1. 1 \in 1..Len(w) /\ w[1] = r /\ 1 < d + 1
      BY LessItems
    <3>. QED
      BY <2>2, <3>1
  <2>5. Clean(s, q2, c)
    BY <1>3, <2>2, <2>4, RepliedItems DEF Clean
  <2>. QED
    BY <2>3, <2>5
<1>5. Grown(s, w2, q2, c)
  <2> SUFFICES ASSUME NEW d \in 1..Len(w2), Is(w2[d], {"append"}, s)
               PROVE  /\ \A i \in 1..Len(w2) : i < d /\ w2[i].awaited => ~Is(w2[i], {"page"}, s)
                      /\ NoPages(s, q2, c)
    BY DEF Grown
  <2>1. d + 1 \in 1..Len(w) /\ w2[d] = w[d + 1]
    BY LessItems
  <2>2. /\ \A i \in 1..Len(w) : i < d + 1 /\ w[i].awaited => ~Is(w[i], {"page"}, s)
        /\ NoPages(s, q, c)
    BY <2>1 DEF Grown
  <2>3. ASSUME NEW i \in 1..Len(w2), i < d, w2[i].awaited PROVE ~Is(w2[i], {"page"}, s)
    <3>1. i + 1 \in 1..Len(w) /\ w2[i] = w[i + 1] /\ i + 1 < d + 1
      BY <2>3, LessItems
    <3>. QED
      BY <2>2, <2>3, <3>1
  <2>4. r.awaited => ~Is(r, {"page"}, s)
    <3>1. 1 \in 1..Len(w) /\ w[1] = r /\ 1 < d + 1
      BY LessItems
    <3>. QED
      BY <2>2, <3>1
  <2>5. r.awaited => ~Is(a, {"page"}, s)
    BY <2>4 DEF Replied, Is
  <2>6. NoPages(s, q2, c)
    BY <2>2, <2>5, RepliedItems DEF NoPages
  <2>. QED
    BY <2>3, <2>6
<1>6. Deleted(s, w2, c)
  <2> SUFFICES ASSUME NEW d \in 1..Len(w2), Removes(w2[d], s) PROVE BornAfter(s, w2, c, d)
    BY DEF Deleted
  <2>1. d + 1 \in 1..Len(w) /\ w2[d] = w[d + 1] /\ d \in Nat
    BY LessItems
  <2>2. BornAfter(s, w, c, d + 1) /\ d + 1 \in Nat /\ d + 1 > 0 /\ (d + 1) - 1 = d /\ d + 1 # 0
    BY <2>1 DEF Deleted
  <2>3. BornAfter(s, w2, c, IF d + 1 = 0 THEN 0 ELSE (d + 1) - 1)
    BY <2>2, BornServed
  <2>. QED
    BY <2>2, <2>3
<1>7. Wipes(r, s) => Clean(s, q, c)
  BY LessItems DEF Wiped
<1>10. ASSUME Removes(r, s) PROVE Clean(s, q2, c)
  <2>1. Clean(s, q, c)
    BY <1>7, <1>10 DEF Removes, Wipes, Is
  <2>2. s \notin Touches(a)
    BY <1>3, <1>10, TouchFacts DEF Removes, Is
  <2>. QED
    BY <2>1, <2>2, RepliedItems DEF Clean
<1>8. Is(r, {"append"}, s) => NoPages(s, q2, c)
  <2> SUFFICES ASSUME Is(r, {"append"}, s) PROVE NoPages(s, q2, c)
    OBVIOUS
  <2>1. NoPages(s, q, c)
    BY LessItems DEF Grown
  <2>2. ~Is(a, {"page"}, s)
    BY DEF Replied, Is
  <2>. QED
    BY <2>1, <2>2, RepliedItems DEF NoPages
<1>9. Removes(r, s) => BornAfter(s, w2, c, 0)
  <2> SUFFICES ASSUME Removes(r, s) PROVE BornAfter(s, w2, c, 0)
    OBVIOUS
  <2>1. BornAfter(s, w, c, 1)
    BY LessItems DEF Deleted
  <2>2. BornAfter(s, w2, c, IF 1 = 0 THEN 0 ELSE 1 - 1)
    BY <2>1, BornServed
  <2>. QED
    BY <2>2
<1>. QED
  BY <1>1, <1>2, <1>4, <1>5, <1>6, <1>7, <1>8, <1>9, <1>10
\* What serving a request does to the row of one session, and whose change the row is then.
ChangesRow(s, r, a, n, m, an, am, n2, m2, an2, am2) ==
  \/ Is(r, {"ensure"}, s) /\ n2 # None /\ m2 = m /\ am2 = am
  \/ Is(r, {"rename"}, s) /\ (n2 = None => n = None /\ an2 = an) /\ m2 = m /\ am2 = am
       /\ (n # None => n2 # None)
  \/ Is(r, {"clear"}, s) /\ n2 # None
  \/ Removes(r, s) /\ n2 = None /\ an2 /\ am2
  \/ Is(r, {"append"}, s) /\ n # None /\ n2 = n /\ an2 = an /\ a.ok /\ m2 # <<>>
  \/ Is(r, {"append"}, s) /\ n = None /\ n2 = n /\ an2 = an /\ am2 = am /\ m2 = m /\ ~a.ok
  \/ /\ ~Is(r, {"ensure", "rename", "clear", "append"}, s) /\ ~Removes(r, s)
     /\ n2 = n /\ m2 = m /\ an2 = an /\ am2 = am

\* a process writes with a number
Numbered(s, r) == Is(r, {"ensure", "rename", "clear", "append", "reload"}, s) => r.write # 0

LEMMA SilentReplies ==
  ASSUME NEW s \in Sessions, NEW q, NEW c, Clean(s, q, c)
  PROVE  \A i \in 1..Len(q) : /\ ~SaysName(q[i], s) /\ ~Loads(q[i], s) /\ ~SaysLast(q[i], s)
                              /\ ~Is(q[i], {"append"}, s) /\ ~Is(q[i], {"page"}, s)
<1> TAKE i \in 1..Len(q)
<1>1. q[i].op # "list" /\ (q[i].op \in {"delete", "deleteAll"} \/ q[i].session # s)
  BY TouchFacts DEF Clean
<1>. QED
  BY <1>1 DEF SaysName, Loads, SaysLast, Grows, Is

LEMMA OwnServed ==
  ASSUME NEW s \in Sessions, NEW w, NEW w2, NEW r, NEW q, NEW q2, NEW a, NEW c, NEW n, NEW m,
         NEW an \in BOOLEAN, NEW am \in BOOLEAN, NEW n2, NEW m2,
         NEW an2 \in BOOLEAN, NEW am2 \in BOOLEAN,
         Own(s, w, q, c, n, m, an, am), Less(w2, w, r), Replied(q2, q, r, a), Numbered(s, r),
         ChangesRow(s, r, a, n, m, an, am, n2, m2, an2, am2), Truthful(a, s, n2, m2)
  PROVE  Own(s, w2, q2, c, n2, m2, an2, am2)
<1>1. /\ Tracked(s, w2) /\ Wiped(s, w2, q2, c) /\ Grown(s, w2, q2, c) /\ Deleted(s, w2, c)
      /\ r.session = s /\ r.write # 0 => r.awaited
      /\ Wipes(r, s) => Clean(s, q, c)
      /\ Removes(r, s) => Clean(s, q2, c)
      /\ Is(r, {"append"}, s) => NoPages(s, q2, c)
      /\ Removes(r, s) => BornAfter(s, w2, c, 0)
  BY WireServed DEF Own
<1>2. /\ a \in Replies /\ a.op = r.op /\ a.session = r.session
      /\ a \notin WrongName(s, n2) /\ a \notin WrongMessages(s, n2, m2) /\ a \notin WrongLast(s, m2)
  BY TruthIsNotWrong DEF Replied
<1>3. Is(r, {"ensure", "rename", "clear", "append", "reload"}, s) => r.awaited
  BY <1>1 DEF Numbered, Is
<1>4. n = None => (an <=> am)
  BY DEF Own
<1>5. ASSUME n2 = None, ~Removes(r, s)
      PROVE  n = None /\ an2 = an /\ am2 = am /\ ~Is(r, {"ensure"}, s)
  BY <1>5 DEF ChangesRow, Is
<1>6. n2 = None => (an2 <=> am2)
  <2>1. CASE Removes(r, s)
    BY <2>1 DEF ChangesRow, Removes, Is
  <2>. QED
    BY <1>4, <1>5, <2>1
<1>7. an /\ n = None => /\ BornAfter(s, w, c, 0) /\ NoneSaid(s, q)
                        /\ ~Is(r, {"rename", "clear", "append", "reload"}, s)
  BY BornFirst DEF Own, Gone
<1>8. ASSUME an2, n2 = None PROVE Gone(s, w2, q2, c)
  <2>1. CASE Removes(r, s)
    <3>1. BornAfter(s, w2, c, 0) /\ Clean(s, q2, c)
      BY <1>1, <2>1
    <3>2. NoneSaid(s, q2)
      BY <3>1, SilentReplies DEF NoneSaid
    <3>. QED
      BY <3>1, <3>2 DEF Gone
  <2>2. CASE ~Removes(r, s)
    <3>1. /\ BornAfter(s, w, c, 0) /\ NoneSaid(s, q) /\ ~Is(r, {"append"}, s)
          /\ ~Is(r, {"ensure"}, s)
      BY <1>5, <1>7, <1>8, <2>2 DEF Is
    <3>2. BornAfter(s, w2, c, IF 0 = 0 THEN 0 ELSE 0 - 1)
      BY <3>1, BornServed
    <3>3. ~Is(a, {"append"}, s) /\ (SaysName(a, s) => a.names[s] = None)
      BY <1>2, <1>8, <3>1 DEF Is, Truthful
    <3>4. NoneSaid(s, q2)
      BY <3>1, <3>3, RepliedItems DEF NoneSaid
    <3>. QED
      BY <3>2, <3>4 DEF Gone
  <2>. QED
    BY <2>1, <2>2
<1>9. ASSUME an2 PROVE NameShows(s, w2, q2, c, n2)
  <2>1. CASE Is(r, {"ensure", "rename", "clear"}, s) /\ n2 # None
    <3>1. r.awaited
      BY <1>3, <2>1 DEF Is
    <3>2. SaysName(a, s)
      BY <1>2, <2>1 DEF SaysName, Is
    <3>3. a \in RightName(s, n2)
      BY <1>2, <2>1, <3>2 DEF RightName, Truthful, Is
    <3>4. Mended(c.names[s] = n2, q2, WrongName(s, n2), RightName(s, n2))
      BY <1>2, <3>1, <3>3, MendedReplied
    <3>. QED
      BY <3>4 DEF NameShows
  <2>2. CASE Removes(r, s)
    <3>1. BornAfter(s, w2, c, 0) /\ Clean(s, q2, c) /\ n2 = None
      BY <1>1, <2>2 DEF ChangesRow, Removes, Is
    <3>2. CASE c.names[s] # None
      BY <3>1, <3>2 DEF BornAfter, NameShows, Is
    <3>3. CASE c.names[s] = None
      <4>1. \A i \in 1..Len(q2) : q2[i] \notin WrongName(s, n2)
        BY <3>1, SilentReplies DEF WrongName
      <4>. QED
        BY <3>1, <3>3, <4>1 DEF NameShows, Mended
    <3>. QED
      BY <3>2, <3>3
  <2>3. CASE ~Removes(r, s) /\ ~(Is(r, {"ensure", "rename", "clear"}, s) /\ n2 # None)
    <3>1. an /\ n2 = n
      BY <1>5, <1>9, <2>3 DEF ChangesRow, Is
    <3>2. ~Is(r, {"ensure", "rename"}, s)
      BY <1>5, <1>7, <2>3, <3>1 DEF Is
    <3>3. CASE \E i \in 1..Len(w) : Is(w[i], {"ensure", "rename"}, s) \/ Removes(w[i], s)
      <4>1. PICK i \in 1..Len(w) : Is(w[i], {"ensure", "rename"}, s) \/ Removes(w[i], s)
        BY <3>3
      <4>2. i - 1 \in 1..Len(w2) /\ w2[i - 1] = w[i]
        BY <2>3, <3>2, <4>1, LessItems
      <4>. QED
        BY <4>1, <4>2 DEF NameShows
    <3>4. CASE Mended(c.names[s] = n, q, WrongName(s, n), RightName(s, n))
      <4>1. Mended(c.names[s] = n, q2, WrongName(s, n), RightName(s, n))
        BY <1>2, <3>1, <3>4, MendedReplied
      <4>. QED
        BY <3>1, <4>1 DEF NameShows
    <3>. QED
      BY <3>1, <3>3, <3>4 DEF Own, NameShows
  <2>. QED
    BY <2>1, <2>2, <2>3
<1>10. ASSUME am2 PROVE MessagesShow(s, w2, q2, c, n2, m2)
  <2>1. CASE Is(r, {"append"}, s)
    <3>1. n # None
      <4>1. CASE n = None
        <5>1. am
          BY <1>10, <2>1, <4>1 DEF ChangesRow, Is, Removes
        <5>. QED
          BY <1>4, <1>7, <2>1, <4>1, <5>1 DEF Is
      <4>. QED
        BY <4>1
    <3>2. a.ok /\ Is(a, {"append"}, s)
      BY <1>2, <2>1, <3>1 DEF ChangesRow, Is, Removes
    <3>3. \E i \in 1..Len(q2) : q2[i] = a
      BY <1>3, <2>1, RepliedItems DEF Is
    <3>. QED
      BY <3>2, <3>3 DEF MessagesShow
  <2> DEFINE ok == c.messages[s] = None \/ (n # None /\ c.messages[s] = m)
             now == c.messages[s] = None \/ (n2 # None /\ c.messages[s] = m2)
             wrong == WrongMessages(s, n2, m2)
             right == RightMessages(s, n2, m2)
  <2>2. CASE Is(r, {"reload"}, s)
    <3>1. n2 = n /\ m2 = m /\ am
      BY <1>10, <2>2 DEF ChangesRow, Is, Removes
    <3>2. n2 # None
      BY <1>4, <1>7, <2>2, <3>1 DEF Is
    <3>3. SaysName(a, s) /\ a.op = "reload" /\ Is(a, {"load", "reload"}, s) /\ r.awaited
      BY <1>2, <1>3, <2>2 DEF SaysName, Is
    <3>4. a.names[s] = n2
      BY <3>3 DEF Truthful
    <3>5. a \in right
      BY <1>2, <3>2, <3>3, <3>4 DEF RightMessages, Loads, Truthful
    <3>6. Mended(now, q2, wrong, right)
      BY <1>2, <3>3, <3>5, MendedReplied
    <3>. QED
      BY <3>6 DEF MessagesShow
  <2>3. CASE Wipes(r, s)
    <3>1. Clean(s, q, c)
      BY <1>1, <2>3
    <3>2. ~Loads(a, s)
      BY <1>2, <2>3 DEF Loads, Wipes, Is
    <3>3. \A i \in 1..Len(q2) : q2[i] \notin wrong
      BY <3>1, <3>2, SilentReplies, RepliedItems DEF WrongMessages
    <3>4. now
      BY <3>1 DEF Clean
    <3>. QED
      BY <3>3, <3>4 DEF MessagesShow, Mended
  <2>4. CASE ~Is(r, {"append"}, s) /\ ~Is(r, {"reload"}, s) /\ ~Wipes(r, s)
    <3>1. am /\ m2 = m /\ (n # None => n2 # None)
      BY <1>10, <2>4 DEF ChangesRow, Is, Removes, Wipes
    <3>2. CASE \E i \in 1..Len(w) : Is(w[i], {"append", "reload"}, s)
      <4>1. PICK i \in 1..Len(w) : Is(w[i], {"append", "reload"}, s)
        BY <3>2
      <4>2. i - 1 \in 1..Len(w2) /\ w2[i - 1] = w[i]
        BY <2>4, <4>1, LessItems DEF Is
      <4>. QED
        BY <4>1, <4>2 DEF MessagesShow
    <3>3. CASE \E i \in 1..Len(q) : Is(q[i], {"append"}, s) /\ q[i].ok
      BY <3>3, RepliedItems DEF MessagesShow
    <3>4. CASE Mended(ok, q, WrongMessages(s, n, m), RightMessages(s, n, m))
      <4>1. (ok => now) /\ ok \in BOOLEAN /\ now \in BOOLEAN
        BY <3>1
      <4>2. wrong \subseteq WrongMessages(s, n, m) /\ RightMessages(s, n, m) \subseteq right
        BY <3>1 DEF WrongMessages, RightMessages
      <4>3. a \notin wrong
        BY <1>2
      <4> HIDE DEF ok, now, wrong, right
      <4>4. Mended(now, q, wrong, right)
        BY <3>4, <4>1, <4>2, MendedMore
      <4>5. Mended(now, q2, wrong, right)
        BY <4>1, <4>3, <4>4, MendedReplied
      <4>. QED
        BY <4>5 DEF MessagesShow, now, wrong, right
    <3>. QED
      BY <3>1, <3>2, <3>3, <3>4 DEF Own, MessagesShow
  <2>. QED
    BY <2>1, <2>2, <2>3, <2>4
<1>11. ASSUME am2 PROVE PageShows(s, q2, c, m2)
  <2>1. CASE Is(r, {"append"}, s)
    BY <1>1, <2>1 DEF PageShows, NoPages
  <2>2. CASE Wipes(r, s)
    <3>1. Clean(s, q, c) /\ ~Is(a, {"page"}, s)
      BY <1>1, <1>2, <2>2 DEF Wipes, Is
    <3>2. \A i \in 1..Len(q2) : ~Is(q2[i], {"page"}, s)
      BY <3>1, SilentReplies, RepliedItems
    <3>. QED
      BY <3>1, <3>2 DEF PageShows, Clean
  <2>3. CASE ~Is(r, {"append"}, s) /\ ~Wipes(r, s)
    <3>1. am /\ m2 = m
      BY <1>11, <2>3 DEF ChangesRow, Is, Removes, Wipes
    <3>2. PageShows(s, q, c, m)
      BY <3>1 DEF Own
    <3>3. Is(a, {"page"}, s) => a.messages = m
      BY <3>1 DEF Truthful, SaysLast, Is
    <3>. QED
      BY <3>1, <3>2, <3>3, RepliedItems DEF PageShows
  <2>. QED
    BY <2>1, <2>2, <2>3
<1>12. ASSUME am2 PROVE LastShows(s, q2, c, m2)
  <2> DEFINE ok == c.last[s] \in {None, LastOf(m2)}
             wrong == WrongLast(s, m2)
             right == RightLast(s, m2)
  <2>0. ok \in BOOLEAN /\ a \notin wrong
    BY <1>2
  <2>1. CASE Is(r, {"append"}, s) /\ n # None
    <3>1. a.ok /\ m2 # <<>> /\ Is(a, {"append"}, s) /\ r.awaited
      BY <1>2, <1>3, <2>1 DEF ChangesRow, Is, Removes
    <3>2. a \in right
      BY <1>2, <3>1 DEF RightLast, Truthful, SaysLast, Grows
    <3> HIDE DEF ok, wrong, right
    <3>3. Mended(ok, q2, wrong, right)
      BY <2>0, <3>1, <3>2, MendedReplied
    <3>. QED
      BY <3>3 DEF LastShows, ok, wrong, right
  <2>2. CASE Wipes(r, s)
    <3>1. Clean(s, q, c) /\ ~SaysLast(a, s)
      BY <1>1, <1>2, <2>2 DEF Wipes, Is, SaysLast, Grows
    <3>2. \A i \in 1..Len(q2) : q2[i] \notin wrong
      BY <3>1, SilentReplies, RepliedItems DEF WrongLast
    <3>3. ok
      BY <3>1 DEF Clean
    <3>. QED
      BY <3>2, <3>3 DEF LastShows, Mended
  <2>3. CASE ~(Is(r, {"append"}, s) /\ n # None) /\ ~Wipes(r, s)
    <3>1. am /\ m2 = m
      BY <1>12, <2>3 DEF ChangesRow, Is, Removes, Wipes
    <3>2. Mended(ok, q, wrong, right)
      BY <3>1 DEF Own, LastShows
    <3> HIDE DEF ok, wrong, right
    <3>3. Mended(ok, q2, wrong, right)
      BY <2>0, <3>2, MendedReplied
    <3>. QED
      BY <3>3 DEF LastShows, ok, wrong, right
  <2>. QED
    BY <2>1, <2>2, <2>3
<1>. QED
  BY <1>1, <1>6, <1>8, <1>9, <1>10, <1>11, <1>12 DEF Own
-----------------------------------------------------------------------------
(* Others change the table, and requests time out.                           *)

\* Another process changes the row, or nobody does.
LEMMA OwnElse ==
  ASSUME NEW s, NEW w, NEW q, NEW c, NEW n, NEW m, NEW an \in BOOLEAN, NEW am \in BOOLEAN,
         NEW n2, NEW m2, NEW an2 \in BOOLEAN, NEW am2 \in BOOLEAN,
         Own(s, w, q, c, n, m, an, am),
         an2 => an /\ n2 = n,
         am2 => am /\ m2 = m /\ (n # None => n2 # None),
         n2 = None => (an2 <=> am2)
  PROVE  Own(s, w, q, c, n2, m2, an2, am2)
<1>1. /\ Tracked(s, w) /\ Wiped(s, w, q, c) /\ Grown(s, w, q, c) /\ Deleted(s, w, c)
      /\ an2 /\ n2 = None => Gone(s, w, q, c)
      /\ an2 => NameShows(s, w, q, c, n2)
  BY DEF Own
<1>2. ASSUME am2 PROVE MessagesShow(s, w, q, c, n2, m2)
  <2> DEFINE ok == c.messages[s] = None \/ (n # None /\ c.messages[s] = m)
             now == c.messages[s] = None \/ (n2 # None /\ c.messages[s] = m2)
  <2>1. MessagesShow(s, w, q, c, n, m)
    BY <1>2 DEF Own
  <2>2. CASE Mended(ok, q, WrongMessages(s, n, m), RightMessages(s, n, m))
    <3>1. (ok => now) /\ ok \in BOOLEAN /\ now \in BOOLEAN
      BY <1>2
    <3>2. /\ WrongMessages(s, n2, m2) \subseteq WrongMessages(s, n, m)
          /\ RightMessages(s, n, m) \subseteq RightMessages(s, n2, m2)
      BY <1>2 DEF WrongMessages, RightMessages
    <3> HIDE DEF ok, now
    <3>3. Mended(now, q, WrongMessages(s, n2, m2), RightMessages(s, n2, m2))
      BY <2>2, <3>1, <3>2, MendedMore
    <3>. QED
      BY <3>3 DEF MessagesShow, now
  <2>. QED
    BY <2>1, <2>2 DEF MessagesShow
<1>3. am2 => PageShows(s, q, c, m2) /\ LastShows(s, q, c, m2)
  BY DEF Own
<1>. QED
  BY <1>1, <1>2, <1>3 DEF Own

\* A request times out on its way to queue-service: nobody waits for it any more.
Forgets(s, w2, w) ==
  /\ Len(w2) = Len(w)
  /\ \A i \in 1..Len(w) : /\ w2[i].op = w[i].op /\ w2[i].session = w[i].session
                          /\ w2[i].write = w[i].write
                          /\ w2[i].awaited => w[i].awaited
                          /\ w[i].session = s /\ w[i].write # 0 => w2[i].awaited = w[i].awaited

LEMMA OwnForgets ==
  ASSUME NEW s \in Sessions, NEW w, NEW w2, NEW q, NEW c, NEW n, NEW m,
         NEW an \in BOOLEAN, NEW am \in BOOLEAN,
         Own(s, w, q, c, n, m, an, am), Forgets(s, w2, w)
  PROVE  Own(s, w2, q, c, n, m, an, am)
<1>1. /\ Len(w2) = Len(w)
      /\ \A i \in 1..Len(w) : /\ Touches(w2[i]) = Touches(w[i]) /\ Wipes(w2[i], s) = Wipes(w[i], s)
                              /\ Removes(w2[i], s) = Removes(w[i], s)
                              /\ w2[i].awaited => w[i].awaited
                              /\ \A ops : Is(w2[i], ops, s) = Is(w[i], ops, s)
  BY DEF Forgets, Touches, Wipes, Removes, Is
<1>2. Tracked(s, w2)
  BY DEF Own, Tracked, Forgets
<1>3. Wiped(s, w2, q, c)
  <2>1. Wiped(s, w, q, c)
    BY DEF Own
  <2>. QED
    BY <1>1, <2>1 DEF Wiped
<1>4. Grown(s, w2, q, c)
  <2>1. Grown(s, w, q, c)
    BY DEF Own
  <2>. QED
    BY <1>1, <2>1 DEF Grown
<1>5. ASSUME NEW d, BornAfter(s, w, c, d) PROVE BornAfter(s, w2, c, d)
  BY <1>1, <1>5 DEF BornAfter
<1>6. Deleted(s, w2, c)
  BY <1>1, <1>5 DEF Own, Deleted
<1>7. an /\ n = None => Gone(s, w2, q, c)
  BY <1>5 DEF Own, Gone
<1>8. an => NameShows(s, w2, q, c, n)
  BY <1>1 DEF Own, NameShows
<1>9. am => MessagesShow(s, w2, q, c, n, m)
  BY <1>1 DEF Own, MessagesShow
<1>. QED
  BY <1>2, <1>3, <1>4, <1>6, <1>7, <1>8, <1>9 DEF Own

\* A request times out while its reply is on its way: the reply is ignored.
Loses(s, q2, q, i) ==
  /\ i \in 1..Len(q) /\ Len(q) \in Nat /\ Len(q2) = Len(q) - 1
  /\ \A k \in 1..(Len(q) - 1) : q2[k] = IF k < i THEN q[k] ELSE q[k + 1]
  /\ ~Is(q[i], {"ensure", "rename", "clear", "append", "reload"}, s)

LEMMA LostItems ==
  ASSUME NEW s, NEW q, NEW q2, NEW i, Loses(s, q2, q, i)
  PROVE  /\ \A k \in 1..Len(q2) : \E j \in 1..Len(q) :
              j = (IF k < i THEN k ELSE k + 1) /\ q2[k] = q[j]
         /\ \A j \in 1..Len(q) : j # i => \E k \in 1..Len(q2) :
              k = (IF j < i THEN j ELSE j - 1) /\ q2[k] = q[j]
<1>1. ASSUME NEW k \in 1..Len(q2)
      PROVE  (IF k < i THEN k ELSE k + 1) \in 1..Len(q) /\ q2[k] = q[IF k < i THEN k ELSE k + 1]
  BY DEF Loses
<1>2. ASSUME NEW j \in 1..Len(q), j # i
      PROVE  (IF j < i THEN j ELSE j - 1) \in 1..Len(q2) /\ q2[IF j < i THEN j ELSE j - 1] = q[j]
  <2>1. CASE j < i
    BY <2>1 DEF Loses
  <2>2. CASE ~(j < i)
    <3>1. j - 1 \in 1..(Len(q) - 1) /\ ~(j - 1 < i) /\ (j - 1) + 1 = j
      BY <1>2, <2>2 DEF Loses
    <3>. QED
      BY <2>2, <3>1 DEF Loses
  <2>. QED
    BY <2>1, <2>2
<1>. QED
  BY <1>1, <1>2

LEMMA MendedLost ==
  ASSUME NEW s, NEW q, NEW q2, NEW i, Loses(s, q2, q, i), NEW ok \in BOOLEAN, NEW wrong,
         NEW right, Mended(ok, q, wrong, right), q[i] \notin right
  PROVE  Mended(ok, q2, wrong, right)
<1>1. ok \/ \E j \in 1..Len(q2) : q2[j] \in right
  <2>1. CASE \E j \in 1..Len(q) : q[j] \in right
    <3>1. PICK j \in 1..Len(q) : q[j] \in right
      BY <2>1
    <3>2. j # i
      BY <3>1
    <3>3. \E k \in 1..Len(q2) : q2[k] = q[j]
      BY <3>2, LostItems
    <3>. QED
      BY <3>1, <3>3
  <2>. QED
    BY <2>1 DEF Mended
<1>2. ASSUME NEW k \in 1..Len(q2), q2[k] \in wrong
      PROVE  \E j \in 1..Len(q2) : k < j /\ q2[j] \in right
  <2>1. PICK a \in 1..Len(q) : a = (IF k < i THEN k ELSE k + 1) /\ q2[k] = q[a]
    BY LostItems
  <2>2. PICK b \in 1..Len(q) : a < b /\ q[b] \in right
    BY <1>2, <2>1 DEF Mended
  <2>3. PICK j \in 1..Len(q2) : j = (IF b < i THEN b ELSE b - 1) /\ q2[j] = q[b]
    BY <2>2, LostItems
  <2>4. i \in Nat /\ a \in Nat /\ b \in Nat /\ k \in Nat /\ b # i
    BY <2>2 DEF Loses
  <2>5. k < j
    BY <2>1, <2>2, <2>3, <2>4
  <2>. QED
    BY <2>2, <2>3, <2>5
<1>. QED
  BY <1>1, <1>2 DEF Mended

LEMMA OwnLoses ==
  ASSUME NEW s \in Sessions, NEW w, NEW q, NEW q2, NEW i, NEW c, NEW n, NEW m,
         NEW an \in BOOLEAN, NEW am \in BOOLEAN,
         Own(s, w, q, c, n, m, an, am), Loses(s, q2, q, i)
  PROVE  Own(s, w, q2, c, n, m, an, am)
<1>1. \A k \in 1..Len(q2) : \E j \in 1..Len(q) : q2[k] = q[j]
  BY LostItems
<1>2. /\ q[i] \notin RightName(s, n) /\ q[i] \notin RightMessages(s, n, m)
      /\ q[i] \notin RightLast(s, m) /\ ~Is(q[i], {"append"}, s)
  BY DEF Loses, RightName, RightMessages, RightLast, Grows, Loads, Is
<1>3. Clean(s, q, c) => Clean(s, q2, c)
  BY <1>1 DEF Clean
<1>4. NoPages(s, q, c) => NoPages(s, q2, c)
  BY <1>1 DEF NoPages
<1>5. Wiped(s, w, q2, c)
  BY <1>3 DEF Own, Wiped
<1>6. Grown(s, w, q2, c)
  BY <1>4 DEF Own, Grown
<1>7. an /\ n = None => Gone(s, w, q2, c)
  BY <1>1 DEF Own, Gone, NoneSaid
<1>8. ASSUME an PROVE NameShows(s, w, q2, c, n)
  <2>1. NameShows(s, w, q, c, n)
    BY <1>8 DEF Own
  <2>. QED
    BY <1>2, <2>1, MendedLost DEF NameShows
<1>9. ASSUME am PROVE MessagesShow(s, w, q2, c, n, m)
  <2> DEFINE ok == c.messages[s] = None \/ (n # None /\ c.messages[s] = m)
  <2>1. MessagesShow(s, w, q, c, n, m) /\ ok \in BOOLEAN
    BY <1>9 DEF Own
  <2>2. CASE \E j \in 1..Len(q) : Is(q[j], {"append"}, s) /\ q[j].ok
    <3>1. PICK j \in 1..Len(q) : Is(q[j], {"append"}, s) /\ q[j].ok
      BY <2>2
    <3>2. j # i
      BY <1>2, <3>1
    <3>. QED
      BY <3>1, <3>2, LostItems DEF MessagesShow
  <2>3. CASE Mended(ok, q, WrongMessages(s, n, m), RightMessages(s, n, m))
    <3> HIDE DEF ok
    <3>1. Mended(ok, q2, WrongMessages(s, n, m), RightMessages(s, n, m))
      BY <1>2, <2>1, <2>3, MendedLost
    <3>. QED
      BY <3>1 DEF MessagesShow, ok
  <2>. QED
    BY <2>1, <2>2, <2>3 DEF MessagesShow
<1>10. am => PageShows(s, q2, c, m)
  <2> SUFFICES ASSUME am PROVE PageShows(s, q2, c, m)
    OBVIOUS
  <2>1. PageShows(s, q, c, m)
    BY DEF Own
  <2>. QED
    BY <1>1, <2>1 DEF PageShows
<1>11. ASSUME am PROVE LastShows(s, q2, c, m)
  <2> DEFINE ok == c.last[s] \in {None, LastOf(m)}
  <2>1. Mended(ok, q, WrongLast(s, m), RightLast(s, m)) /\ ok \in BOOLEAN
    BY <1>11 DEF Own, LastShows
  <2> HIDE DEF ok
  <2>2. Mended(ok, q2, WrongLast(s, m), RightLast(s, m))
    BY <1>2, <2>1, MendedLost
  <2>. QED
    BY <2>2 DEF LastShows, ok
<1>. QED
  BY <1>5, <1>6, <1>7, <1>8, <1>9, <1>10, <1>11 DEF Own
-----------------------------------------------------------------------------
(* The copies, who changed what, and what replies carry: their types.        *)

\* the id of a last message, if there is one
Ids == {None, 0} \cup Writes

Copies ==
  [names : [Sessions -> MaybeName], messages : [Sessions -> MaybeMessages],
   page : [Sessions -> MaybeMessages], last : [Sessions -> Ids]]

Carries(r) ==
  /\ r.op \in {"ensure", "rename", "clear", "load", "reload", "summary"} =>
       r.names \in [{r.session} -> MaybeName]
  /\ r.op = "list" => r.names \in [Sessions -> MaybeName]
  /\ r.op \in {"page", "lastId"} \/ (r.op = "append" /\ r.ok) => r.messages \in Messages

Authors == [{"name", "messages"} -> [Sessions -> Processes \cup {None}]]
CopyTyped ==
  /\ copy \in [Processes -> Copies]
  /\ raced \in [Processes -> SUBSET Sessions]
  /\ author \in Authors
  /\ \A p \in Processes : \A r \in ToSet(replies[p]) : Carries(r)

LEMMA CopyFields ==
  ASSUME NEW c \in Copies
  PROVE  /\ c.names \in [Sessions -> MaybeName] /\ c.messages \in [Sessions -> MaybeMessages]
         /\ c.page \in [Sessions -> MaybeMessages]
         /\ c.last \in [Sessions -> Ids]
         /\ c = [names |-> c.names, messages |-> c.messages, page |-> c.page, last |-> c.last]
BY DEF Copies

LEMMA CopyOf ==
  ASSUME NEW names \in [Sessions -> MaybeName], NEW messages \in [Sessions -> MaybeMessages],
         NEW page \in [Sessions -> MaybeMessages], NEW last \in [Sessions -> Ids]
  PROVE  [names |-> names, messages |-> messages, page |-> page, last |-> last] \in Copies
BY DEF Copies

LEMMA CopyNames ==
  ASSUME NEW c \in Copies, NEW s \in Sessions, NEW v \in MaybeName
  PROVE  /\ [c EXCEPT !.names[s] = v] \in Copies
         /\ [c EXCEPT !.names[s] = v].names = [c.names EXCEPT ![s] = v]
         /\ [c EXCEPT !.names[s] = v].messages = c.messages
         /\ [c EXCEPT !.names[s] = v].page = c.page
         /\ [c EXCEPT !.names[s] = v].last = c.last
<1> DEFINE d == [c EXCEPT !.names[s] = v]
           new == [c.names EXCEPT ![s] = v]
<1>1. new \in [Sessions -> MaybeName]
  BY CopyFields
<1>2. d = [c EXCEPT !.names = new]
  OBVIOUS
<1> HIDE DEF new, d
<1>3. d = [names |-> new, messages |-> c.messages, page |-> c.page, last |-> c.last]
  BY <1>2, CopyFields
<1>4. d \in Copies
  BY <1>1, <1>3, CopyFields, CopyOf
<1>. QED
  BY <1>3, <1>4 DEF new, d

LEMMA CopyMessages ==
  ASSUME NEW c \in Copies, NEW s \in Sessions, NEW v \in MaybeMessages
  PROVE  /\ [c EXCEPT !.messages[s] = v] \in Copies
         /\ [c EXCEPT !.messages[s] = v].messages = [c.messages EXCEPT ![s] = v]
         /\ [c EXCEPT !.messages[s] = v].names = c.names
         /\ [c EXCEPT !.messages[s] = v].page = c.page
         /\ [c EXCEPT !.messages[s] = v].last = c.last
<1> DEFINE d == [c EXCEPT !.messages[s] = v]
           new == [c.messages EXCEPT ![s] = v]
<1>1. new \in [Sessions -> MaybeMessages]
  BY CopyFields
<1>2. d = [c EXCEPT !.messages = new]
  OBVIOUS
<1> HIDE DEF new, d
<1>3. d = [names |-> c.names, messages |-> new, page |-> c.page, last |-> c.last]
  BY <1>2, CopyFields
<1>4. d \in Copies
  BY <1>1, <1>3, CopyFields, CopyOf
<1>. QED
  BY <1>3, <1>4 DEF new, d

LEMMA CopyPage ==
  ASSUME NEW c \in Copies, NEW s \in Sessions, NEW v \in MaybeMessages
  PROVE  /\ [c EXCEPT !.page[s] = v] \in Copies
         /\ [c EXCEPT !.page[s] = v].page = [c.page EXCEPT ![s] = v]
         /\ [c EXCEPT !.page[s] = v].names = c.names
         /\ [c EXCEPT !.page[s] = v].messages = c.messages
         /\ [c EXCEPT !.page[s] = v].last = c.last
<1> DEFINE d == [c EXCEPT !.page[s] = v]
           new == [c.page EXCEPT ![s] = v]
<1>1. new \in [Sessions -> MaybeMessages]
  BY CopyFields
<1>2. d = [c EXCEPT !.page = new]
  OBVIOUS
<1> HIDE DEF new, d
<1>3. d = [names |-> c.names, messages |-> c.messages, page |-> new, last |-> c.last]
  BY <1>2, CopyFields
<1>4. d \in Copies
  BY <1>1, <1>3, CopyFields, CopyOf
<1>. QED
  BY <1>3, <1>4 DEF new, d

LEMMA CopyLast ==
  ASSUME NEW c \in Copies, NEW s \in Sessions, NEW v \in Ids
  PROVE  /\ [c EXCEPT !.last[s] = v] \in Copies
         /\ [c EXCEPT !.last[s] = v].last = [c.last EXCEPT ![s] = v]
         /\ [c EXCEPT !.last[s] = v].names = c.names
         /\ [c EXCEPT !.last[s] = v].messages = c.messages
         /\ [c EXCEPT !.last[s] = v].page = c.page
<1> DEFINE d == [c EXCEPT !.last[s] = v]
           new == [c.last EXCEPT ![s] = v]
<1>1. new \in [Sessions -> Ids]
  BY CopyFields
<1>2. d = [c EXCEPT !.last = new]
  OBVIOUS
<1> HIDE DEF new, d
<1>3. d = [names |-> c.names, messages |-> c.messages, page |-> c.page, last |-> new]
  BY <1>2, CopyFields
<1>4. d \in Copies
  BY <1>1, <1>3, CopyFields, CopyOf
<1>. QED
  BY <1>3, <1>4 DEF new, d

\* one entry of a function on the sessions is changed
LEMMA EntryChanged ==
  ASSUME NEW S, NEW f \in [Sessions -> S], NEW s \in Sessions, NEW v
  PROVE  \A t \in Sessions : [f EXCEPT ![s] = v][t] = IF t = s THEN v ELSE f[t]
OBVIOUS

LEMMA EmptiedFields ==
  ASSUME NEW c \in Copies, NEW s \in Sessions
  PROVE  /\ Emptied(c, s) \in Copies /\ Emptied(c, s).names = c.names
         /\ Emptied(c, s).messages = [c.messages EXCEPT ![s] = None]
         /\ Emptied(c, s).page = [c.page EXCEPT ![s] = None]
         /\ Emptied(c, s).last = [c.last EXCEPT ![s] = None]
<1> DEFINE d == [c EXCEPT !.messages[s] = None]
           e == [d EXCEPT !.page[s] = None]
           f == [e EXCEPT !.last[s] = None]
<1>1. None \in MaybeMessages /\ None \in Ids
  BY DEF Ids, MaybeMessages
<1>2. Emptied(c, s) = f
  BY DEF Emptied
<1>3. d \in Copies /\ d.names = c.names /\ d.messages = [c.messages EXCEPT ![s] = None]
      /\ d.page = c.page /\ d.last = c.last
  BY <1>1, CopyMessages
<1> HIDE DEF d
<1>4. e \in Copies /\ e.names = d.names /\ e.messages = d.messages
      /\ e.page = [d.page EXCEPT ![s] = None] /\ e.last = d.last
  BY <1>1, <1>3, CopyPage
<1> HIDE DEF e
<1>5. f \in Copies /\ f.names = e.names /\ f.messages = e.messages /\ f.page = e.page
      /\ f.last = [e.last EXCEPT ![s] = None]
  BY <1>1, <1>4, CopyLast
<1> HIDE DEF f
<1>. QED
  BY <1>2, <1>3, <1>4, <1>5

LEMMA EmptiedAt ==
  ASSUME NEW c \in Copies, NEW s \in Sessions
  PROVE  /\ \A t \in Sessions : Emptied(c, s).messages[t] = IF t = s THEN None ELSE c.messages[t]
         /\ \A t \in Sessions : Emptied(c, s).page[t] = IF t = s THEN None ELSE c.page[t]
         /\ \A t \in Sessions : Emptied(c, s).last[t] = IF t = s THEN None ELSE c.last[t]
<1>1. \A t \in Sessions : [c.messages EXCEPT ![s] = None][t] = IF t = s THEN None ELSE c.messages[t]
  BY CopyFields
<1>2. \A t \in Sessions : [c.page EXCEPT ![s] = None][t] = IF t = s THEN None ELSE c.page[t]
  BY CopyFields
<1>3. \A t \in Sessions : [c.last EXCEPT ![s] = None][t] = IF t = s THEN None ELSE c.last[t]
  BY CopyFields
<1>. QED
  BY <1>1, <1>2, <1>3, EmptiedFields, Zenon

LEMMA NothingKnown ==
  /\ EmptyCopy \in Copies
  /\ \A s \in Sessions : /\ EmptyCopy.names[s] = None /\ EmptyCopy.messages[s] = None
                         /\ EmptyCopy.page[s] = None /\ EmptyCopy.last[s] = None
<1>1. /\ Nothing \in [Sessions -> MaybeName] /\ Nothing \in [Sessions -> MaybeMessages]
      /\ Nothing \in [Sessions -> Ids] /\ \A s \in Sessions : Nothing[s] = None
  BY DEF Ids, Nothing, MaybeName, MaybeMessages
<1> HIDE DEF Nothing
<1>2. EmptyCopy \in Copies
  BY <1>1, CopyOf DEF EmptyCopy
<1>. QED
  BY <1>1, <1>2 DEF EmptyCopy

LEMMA LastOfTypes ==
  ASSUME NEW m \in Messages
  PROVE  LastOf(m) \in Ids
<1>1. CASE m = <<>>
  BY <1>1 DEF Ids, LastOf
<1>2. CASE m # <<>>
  <2>1. m \in Seq({0} \cup Writes) /\ Len(m) \in 1..Len(m)
    <3>1. m \in Seq({0} \cup Writes)
      BY DEF Messages
    <3>2. Len(m) \in Nat /\ Len(m) > 0
      BY <1>2, <3>1, EmptySeq, LenProperties
    <3>. QED
      BY <3>1, <3>2
  <2>2. m[Len(m)] \in {0} \cup Writes
    BY <2>1, ElementOfSeq
  <2>. QED
    BY <1>2, <2>2 DEF Ids, LastOf, Last
<1>. QED
  BY <1>1, <1>2
-----------------------------------------------------------------------------
(* The calls of a process.                                                   *)

LEMMA TrackSends ==
  ASSUME FlowTyped, NEW p \in Processes, NEW op, NEW s, NEW n \in Names,
         Sent(op, s), op \notin ReadOps, Track(p, op, s, n)
  PROVE  /\ \E r \in Requests : /\ r.op = op /\ r.session = s /\ r.awaited
                                /\ wire' = [wire EXCEPT ![p] = Append(wire[p], r)]
         /\ UNCHANGED <<table, replies, author>>
         /\ used.writes + 1 \in Writes
<1> DEFINE w == used.writes + 1
           r == Request(op, s, w, n)
<1>1. /\ w \in Writes
      /\ wire' = [wire EXCEPT ![p] = Append(wire[p], r)]
      /\ UNCHANGED <<table, replies, author>>
  BY SessionStateAssumption DEF Track, FlowTyped, Writes
<1>2. r \in Requests /\ r = [op |-> op, session |-> s, write |-> w, name |-> n, awaited |-> TRUE]
  BY <1>1, RequestTypes
<1>3. r.op = op /\ r.session = s /\ r.awaited
  BY <1>2
<1> HIDE DEF r
<1>. QED
  BY <1>1, <1>2, <1>3

LEMMA PreloadSends ==
  ASSUME FlowTyped, NEW p \in Processes, NEW op \in ReadOps, NEW s, Sent(op, s), Preload(p, op, s)
  PROVE  /\ \E r \in Requests : /\ r.op = op /\ r.session = s /\ r.awaited
                                /\ wire' = [wire EXCEPT ![p] = Append(wire[p], r)]
         /\ UNCHANGED <<table, replies, author, copy, raced>>
<1> DEFINE r == Request(op, s, 0, DefaultName)
<1>1. /\ wire' = [wire EXCEPT ![p] = Append(wire[p], r)]
      /\ UNCHANGED <<table, replies, author, copy, raced>>
  BY DEF Preload, ghosts
<1>2. r \in Requests /\ r = [op |-> op, session |-> s, write |-> 0, name |-> DefaultName,
                             awaited |-> TRUE]
  BY RequestTypes, SessionStateAssumption
<1>3. r.op = op /\ r.session = s /\ r.awaited
  BY <1>2
<1> HIDE DEF r
<1>. QED
  BY <1>1, <1>2, <1>3

\* a call sends one request, changes the copy and may race with a reply
Sends(p, r, c2) ==
  /\ wire' = [wire EXCEPT ![p] = Append(wire[p], r)]
  /\ copy' = [copy EXCEPT ![p] = c2]
  /\ UNCHANGED <<table, replies, author>>
  /\ raced' \in [Processes -> SUBSET Sessions] /\ raced[p] \subseteq raced'[p]
  /\ \A q \in Processes \ {p} : raced'[q] = raced[q]
  /\ \A s \in Sessions \ raced'[p] : Called(s, wire[p], replies[p], copy[p], c2, r)

\* a session no reply may put back into the copy
LEMMA NotInFlight ==
  ASSUME FlowTyped, NEW p \in Processes, NEW s, s \notin InFlight(p)
  PROVE  Quiet(s, wire[p]) /\ \A i \in 1..Len(replies[p]) : s \notin Touches(replies[p][i])
<1>1. wire[p] \in Seq(Requests) /\ replies[p] \in Seq(Replies)
  BY DEF FlowTyped
<1>2. /\ \A i \in 1..Len(wire[p]) : wire[p][i] \in ToSet(wire[p])
      /\ \A i \in 1..Len(replies[p]) : replies[p][i] \in ToSet(replies[p])
                                       /\ replies[p][i] \in Replies
  BY <1>1, Held
<1>3. \A i \in 1..Len(replies[p]) : replies[p][i].awaited
  BY <1>2 DEF Replies
<1>4. \A r \in Awaited(p) : s \notin Touches(r)
  BY DEF InFlight
<1>. QED
  BY <1>2, <1>3, <1>4 DEF Awaited, Quiet

\* a request about another session, or a preload
LEMMA CalledElse ==
  ASSUME NEW s, NEW w, NEW q, NEW c, NEW c2, NEW r, r.awaited,
         r.session # s \/ r.op \in ReadOps, r.op # "deleteAll",
         c2.names[s] = c.names[s], c2.messages[s] = c.messages[s],
         c2.page[s] = c.page[s], c2.last[s] = c.last[s]
  PROVE  Called(s, w, q, c, c2, r)
<1>1. /\ ~Is(r, {"reload"}, s) /\ ~Is(r, {"rename", "clear", "append"}, s)
      /\ ~Is(r, {"append"}, s) /\ ~Wipes(r, s) /\ ~Removes(r, s)
  BY DEF Is, Wipes, Removes, ReadOps, SessionReads
<1>. QED
  BY <1>1 DEF Called

LEMMA CopyOfProcess ==
  ASSUME CopyTyped, NEW p \in Processes
  PROVE  /\ copy[p] \in Copies /\ raced[p] \subseteq Sessions
         /\ \A c2 : [copy EXCEPT ![p] = c2][p] = c2
         /\ \A x : x \subseteq Sessions =>
              /\ [raced EXCEPT ![p] = x] \in [Processes -> SUBSET Sessions]
              /\ [raced EXCEPT ![p] = x][p] = x
              /\ \A q \in Processes \ {p} : [raced EXCEPT ![p] = x][q] = raced[q]
BY DEF CopyTyped

LEMMA EnsureCalls ==
  ASSUME FlowTyped, CopyTyped, NEW p \in Processes, NEW s \in Sessions, EnsureSession(p, s)
  PROVE  \E r \in Requests, c2 \in Copies : Sends(p, r, c2)
<1> DEFINE c == copy[p]
           c2 == [c EXCEPT !.names[s] = DefaultName]
<1>1. /\ copy' = [copy EXCEPT ![p] = c2] /\ raced' = raced
      /\ Track(p, "ensure", s, DefaultName)
  BY DEF EnsureSession
<1>2. Sent("ensure", s) /\ "ensure" \notin ReadOps /\ DefaultName \in Names
      /\ DefaultName \in MaybeName
  BY SessionStateAssumption DEF Sent, ReadOps, SessionReads, SessionWrites, MaybeName
<1>3. /\ UNCHANGED <<table, replies, author>>
      /\ \E r \in Requests : /\ r.op = "ensure" /\ r.session = s /\ r.awaited
                             /\ wire' = [wire EXCEPT ![p] = Append(wire[p], r)]
  BY <1>1, <1>2, TrackSends
<1>4. PICK r \in Requests : /\ r.op = "ensure" /\ r.session = s /\ r.awaited
                            /\ wire' = [wire EXCEPT ![p] = Append(wire[p], r)]
  BY <1>3
<1>5. c \in Copies
  BY CopyOfProcess
<1>6. c2 \in Copies /\ c2.names = [c.names EXCEPT ![s] = DefaultName]
      /\ c2.messages = c.messages /\ c2.page = c.page /\ c2.last = c.last
  BY <1>2, <1>5, CopyNames
<1> HIDE DEF c, c2
<1>7. ASSUME NEW t \in Sessions PROVE Called(t, wire[p], replies[p], c, c2, r)
  <2>1. CASE t = s
    <3>1. /\ Is(r, {"ensure"}, t) /\ ~Is(r, {"reload"}, t) /\ ~Removes(r, t) /\ ~Wipes(r, t)
          /\ ~Is(r, {"rename", "clear", "append"}, t) /\ ~Is(r, {"append"}, t)
      BY <1>4, <2>1 DEF Is, Removes, Wipes
    <3>. QED
      BY <1>4, <1>6, <3>1 DEF Called
  <2>2. CASE t # s
    <3>1. c2.names[t] = c.names[t]
      BY <1>5, <1>6, <2>2, CopyFields
    <3>. QED
      BY <1>4, <1>6, <2>2, <3>1, CalledElse
  <2>. QED
    BY <2>1, <2>2
<1>8. copy' = [copy EXCEPT ![p] = c2] /\ raced \in [Processes -> SUBSET Sessions]
  BY <1>1 DEF c, c2, CopyTyped
<1>9. Sends(p, r, c2)
  BY <1>1, <1>3, <1>4, <1>7, <1>8 DEF Sends, c
<1>. QED
  BY <1>6, <1>9

LEMMA RenameCalls ==
  ASSUME FlowTyped, CopyTyped, NEW p \in Processes, NEW s \in Sessions, NEW n \in Names,
         RenameSession(p, s, n)
  PROVE  \E r \in Requests, c2 \in Copies : Sends(p, r, c2)
<1> DEFINE c == copy[p]
           c2 == [c EXCEPT !.names[s] = n]
<1>1. /\ copy' = [copy EXCEPT ![p] = c2] /\ raced' = raced /\ c.names[s] # None
      /\ Track(p, "rename", s, n)
  BY DEF RenameSession
<1>2. Sent("rename", s) /\ "rename" \notin ReadOps /\ n \in MaybeName
  BY DEF Sent, ReadOps, SessionReads, SessionWrites, MaybeName
<1>3. /\ UNCHANGED <<table, replies, author>>
      /\ \E r \in Requests : /\ r.op = "rename" /\ r.session = s /\ r.awaited
                             /\ wire' = [wire EXCEPT ![p] = Append(wire[p], r)]
  BY <1>1, <1>2, TrackSends
<1>4. PICK r \in Requests : /\ r.op = "rename" /\ r.session = s /\ r.awaited
                            /\ wire' = [wire EXCEPT ![p] = Append(wire[p], r)]
  BY <1>3
<1>5. c \in Copies
  BY CopyOfProcess
<1>6. c2 \in Copies /\ c2.names = [c.names EXCEPT ![s] = n]
      /\ c2.messages = c.messages /\ c2.page = c.page /\ c2.last = c.last
  BY <1>2, <1>5, CopyNames
<1> HIDE DEF c2
<1>8. copy' = [copy EXCEPT ![p] = c2] /\ raced \in [Processes -> SUBSET Sessions]
  BY <1>1 DEF c2, CopyTyped
<1> HIDE DEF c
<1>7. ASSUME NEW t \in Sessions PROVE Called(t, wire[p], replies[p], c, c2, r)
  <2>1. CASE t = s
    <3>1. /\ Is(r, {"rename"}, t) /\ ~Is(r, {"reload"}, t) /\ ~Removes(r, t) /\ ~Wipes(r, t)
          /\ ~Is(r, {"append"}, t)
      BY <1>4, <2>1 DEF Is, Removes, Wipes
    <3>. QED
      BY <1>1, <1>4, <1>6, <2>1, <3>1 DEF Called
  <2>2. CASE t # s
    <3>1. c2.names[t] = c.names[t]
      BY <1>5, <1>6, <2>2, CopyFields
    <3>. QED
      BY <1>4, <1>6, <2>2, <3>1, CalledElse
  <2>. QED
    BY <2>1, <2>2
<1>9. Sends(p, r, c2)
  BY <1>1, <1>3, <1>4, <1>7, <1>8 DEF Sends, c
<1>. QED
  BY <1>6, <1>9

LEMMA PreloadCalls ==
  ASSUME FlowTyped, CopyTyped, NEW p \in Processes, NEW op \in ReadOps, NEW s, Sent(op, s),
         Preload(p, op, s)
  PROVE  \E r \in Requests, c2 \in Copies : Sends(p, r, c2)
<1>1. PICK r \in Requests : /\ r.op = op /\ r.session = s /\ r.awaited
                            /\ wire' = [wire EXCEPT ![p] = Append(wire[p], r)]
  BY PreloadSends
<1>2. UNCHANGED <<table, replies, author, copy, raced>>
  BY PreloadSends
<1>3. r.op \in ReadOps /\ r.op # "deleteAll"
  BY <1>1 DEF ReadOps, SessionReads
<1>4. \A t \in Sessions : Called(t, wire[p], replies[p], copy[p], copy[p], r)
  BY <1>1, <1>3, CalledElse
<1>5. copy' = [copy EXCEPT ![p] = copy[p]] /\ raced \in [Processes -> SUBSET Sessions]
      /\ copy[p] \in Copies
  BY <1>2 DEF CopyTyped
<1>6. Sends(p, r, copy[p])
  BY <1>1, <1>2, <1>4, <1>5 DEF Sends
<1>. QED
  BY <1>5, <1>6
\* a clear or a delete: what is left of the session is nothing
LEMMA WipeCalled ==
  ASSUME NEW s, NEW w, NEW q, NEW c, NEW c2, NEW r, r.awaited, ~Is(r, {"reload"}, s),
         ~Is(r, {"rename", "append"}, s),
         Is(r, {"clear"}, s) => c.names[s] # None /\ c2.names[s] = c.names[s],
         Removes(r, s) => c2.names[s] = None,
         Removes(r, s) \/ Is(r, {"clear"}, s),
         c2.messages[s] = None, c2.page[s] = None, c2.last[s] = None,
         Quiet(s, w), \A i \in 1..Len(q) : s \notin Touches(q[i])
  PROVE  Called(s, w, q, c, c2, r)
<1>1. Clean(s, q, c2)
  BY DEF Clean
<1>2. ~Is(r, {"append"}, s)
  BY DEF Is
<1>3. Is(r, {"rename", "clear", "append"}, s) => c.names[s] # None
  BY DEF Is
<1>4. \/ c2.names[s] = c.names[s] \/ Is(r, {"ensure"}, s)
      \/ Is(r, {"rename"}, s) \/ (Removes(r, s) /\ c2.names[s] = None)
  OBVIOUS
<1>. QED
  BY <1>1, <1>2, <1>3, <1>4 DEF Called

LEMMA ClearCalls ==
  ASSUME FlowTyped, CopyTyped, NEW p \in Processes, NEW s \in Sessions, ClearSession(p, s)
  PROVE  \E r \in Requests, c2 \in Copies : Sends(p, r, c2)
<1> DEFINE c == copy[p]
           c2 == Emptied(c, s)
           race == raced[p] \cup ({s} \cap InFlight(p))
<1>1. /\ copy' = [copy EXCEPT ![p] = c2] /\ c.names[s] # None
      /\ raced' = [raced EXCEPT ![p] = race]
      /\ Track(p, "clear", s, DefaultName)
  BY DEF ClearSession
<1>2. Sent("clear", s) /\ "clear" \notin ReadOps /\ DefaultName \in Names
  BY SessionStateAssumption DEF Sent, ReadOps, SessionReads, SessionWrites
<1>3. /\ UNCHANGED <<table, replies, author>>
      /\ \E r \in Requests : /\ r.op = "clear" /\ r.session = s /\ r.awaited
                             /\ wire' = [wire EXCEPT ![p] = Append(wire[p], r)]
  BY <1>1, <1>2, TrackSends
<1>4. PICK r \in Requests : /\ r.op = "clear" /\ r.session = s /\ r.awaited
                            /\ wire' = [wire EXCEPT ![p] = Append(wire[p], r)]
  BY <1>3
<1>5. c \in Copies /\ race \subseteq Sessions
  BY CopyOfProcess
<1>6. /\ c2 \in Copies /\ c2.names = c.names
      /\ \A t \in Sessions : c2.messages[t] = IF t = s THEN None ELSE c.messages[t]
      /\ \A t \in Sessions : c2.page[t] = IF t = s THEN None ELSE c.page[t]
      /\ \A t \in Sessions : c2.last[t] = IF t = s THEN None ELSE c.last[t]
  BY Zenon, <1>5, EmptiedFields, EmptiedAt
<1> HIDE DEF c2, race
<1>7. /\ raced' \in [Processes -> SUBSET Sessions] /\ raced'[p] = race
      /\ \A q \in Processes \ {p} : raced'[q] = raced[q]
  BY <1>1, <1>5, CopyOfProcess
<1> HIDE DEF c
<1>8. ASSUME NEW t \in Sessions, t \notin race PROVE Called(t, wire[p], replies[p], c, c2, r)
  <2>1. CASE t = s
    <3>1. s \notin InFlight(p)
      BY <1>8, <2>1 DEF race
    <3>2. Quiet(s, wire[p]) /\ \A i \in 1..Len(replies[p]) : s \notin Touches(replies[p][i])
      BY <3>1, NotInFlight
    <3>3. /\ Is(r, {"clear"}, s) /\ ~Is(r, {"reload"}, s) /\ ~Removes(r, s)
          /\ ~Is(r, {"rename", "append"}, s)
      BY <1>4 DEF Is, Removes
    <3>4. c2.messages[s] = None /\ c2.page[s] = None /\ c2.last[s] = None
      BY <1>6
    <3>5. c.names[s] # None /\ c2.names[s] = c.names[s]
      BY <1>1, <1>6 DEF c
    <3>. QED
      BY <1>4, <2>1, <3>2, <3>3, <3>4, <3>5, WipeCalled
  <2>2. CASE t # s
    <3>1. /\ c2.names[t] = c.names[t] /\ c2.messages[t] = c.messages[t]
          /\ c2.page[t] = c.page[t] /\ c2.last[t] = c.last[t]
      BY <1>6, <2>2
    <3>. QED
      BY <1>4, <2>2, <3>1, CalledElse
  <2>. QED
    BY <2>1, <2>2
<1>9. raced[p] \subseteq raced'[p]
  BY <1>7 DEF race
<1>10. copy' = [copy EXCEPT ![p] = c2]
  BY <1>1 DEF c
<1>11. Sends(p, r, c2)
  BY <1>3, <1>4, <1>7, <1>8, <1>9, <1>10 DEF Sends, c
<1>. QED
  BY <1>6, <1>11

LEMMA DeleteCalls ==
  ASSUME FlowTyped, CopyTyped, NEW p \in Processes, NEW s \in Sessions, DeleteSession(p, s)
  PROVE  \E r \in Requests, c2 \in Copies : Sends(p, r, c2)
<1> DEFINE c == copy[p]
           e == Emptied(c, s)
           c2 == [e EXCEPT !.names[s] = None]
           race == raced[p] \cup ({s} \cap InFlight(p))
<1>1. /\ copy' = [copy EXCEPT ![p] = c2]
      /\ raced' = [raced EXCEPT ![p] = race]
      /\ Track(p, "delete", s, DefaultName)
  BY DEF DeleteSession
<1>2. Sent("delete", s) /\ "delete" \notin ReadOps /\ DefaultName \in Names /\ None \in MaybeName
  BY SessionStateAssumption DEF Sent, ReadOps, SessionReads, SessionWrites, MaybeName
<1>3. /\ UNCHANGED <<table, replies, author>>
      /\ \E r \in Requests : /\ r.op = "delete" /\ r.session = s /\ r.awaited
                             /\ wire' = [wire EXCEPT ![p] = Append(wire[p], r)]
  BY <1>1, <1>2, TrackSends
<1>4. PICK r \in Requests : /\ r.op = "delete" /\ r.session = s /\ r.awaited
                            /\ wire' = [wire EXCEPT ![p] = Append(wire[p], r)]
  BY <1>3
<1>5. c \in Copies /\ race \subseteq Sessions
  BY CopyOfProcess
<1>51. /\ e \in Copies /\ e.names = c.names
       /\ \A t \in Sessions : e.messages[t] = IF t = s THEN None ELSE c.messages[t]
       /\ \A t \in Sessions : e.page[t] = IF t = s THEN None ELSE c.page[t]
       /\ \A t \in Sessions : e.last[t] = IF t = s THEN None ELSE c.last[t]
  BY Zenon, <1>5, EmptiedFields, EmptiedAt
<1> HIDE DEF e
<1>52. /\ c2 \in Copies /\ c2.names = [e.names EXCEPT ![s] = None]
       /\ c2.messages = e.messages /\ c2.page = e.page /\ c2.last = e.last
  BY <1>2, <1>51, CopyNames
<1> HIDE DEF c2
<1>6. \A t \in Sessions : /\ c2.names[t] = IF t = s THEN None ELSE c.names[t]
                          /\ c2.messages[t] = IF t = s THEN None ELSE c.messages[t]
                          /\ c2.page[t] = IF t = s THEN None ELSE c.page[t]
                          /\ c2.last[t] = IF t = s THEN None ELSE c.last[t]
  BY <1>5, <1>51, <1>52, CopyFields, EntryChanged
<1> HIDE DEF race
<1>7. /\ raced' \in [Processes -> SUBSET Sessions] /\ raced'[p] = race
      /\ \A q \in Processes \ {p} : raced'[q] = raced[q]
  BY <1>1, <1>5, CopyOfProcess
<1> HIDE DEF c
<1>8. ASSUME NEW t \in Sessions, t \notin race PROVE Called(t, wire[p], replies[p], c, c2, r)
  <2>1. CASE t = s
    <3>1. s \notin InFlight(p)
      BY <1>8, <2>1 DEF race
    <3>2. Quiet(s, wire[p]) /\ \A i \in 1..Len(replies[p]) : s \notin Touches(replies[p][i])
      BY <3>1, NotInFlight
    <3>3. /\ ~Is(r, {"clear"}, s) /\ ~Is(r, {"reload"}, s) /\ Removes(r, s)
          /\ ~Is(r, {"rename", "append"}, s)
      BY <1>4 DEF Is, Removes
    <3>4. c2.names[s] = None /\ c2.messages[s] = None /\ c2.page[s] = None /\ c2.last[s] = None
      BY <1>6
    <3>. QED
      BY <1>4, <2>1, <3>2, <3>3, <3>4, WipeCalled
  <2>2. CASE t # s
    <3>1. /\ c2.names[t] = c.names[t] /\ c2.messages[t] = c.messages[t]
          /\ c2.page[t] = c.page[t] /\ c2.last[t] = c.last[t]
      BY <1>6, <2>2
    <3>. QED
      BY <1>4, <2>2, <3>1, CalledElse
  <2>. QED
    BY <2>1, <2>2
<1>9. raced[p] \subseteq raced'[p]
  BY <1>7 DEF race
<1>10. copy' = [copy EXCEPT ![p] = c2]
  BY <1>1 DEF c
<1>11. Sends(p, r, c2)
  BY <1>3, <1>4, <1>7, <1>8, <1>9, <1>10 DEF Sends, c
<1>. QED
  BY <1>52, <1>11

LEMMA DeleteAllCalls ==
  ASSUME FlowTyped, CopyTyped, NEW p \in Processes, DeleteAllSessions(p)
  PROVE  \E r \in Requests, c2 \in Copies : Sends(p, r, c2)
<1> DEFINE race == raced[p] \cup InFlight(p)
<1>1. /\ copy' = [copy EXCEPT ![p] = EmptyCopy]
      /\ raced' = [raced EXCEPT ![p] = race]
      /\ Track(p, "deleteAll", None, DefaultName)
  BY DEF DeleteAllSessions
<1>2. Sent("deleteAll", None) /\ "deleteAll" \notin ReadOps /\ DefaultName \in Names
  BY SessionStateAssumption DEF Sent, ReadOps, SessionReads
<1>3. /\ UNCHANGED <<table, replies, author>>
      /\ \E r \in Requests : /\ r.op = "deleteAll" /\ r.session = None /\ r.awaited
                             /\ wire' = [wire EXCEPT ![p] = Append(wire[p], r)]
  BY <1>1, <1>2, TrackSends
<1>4. PICK r \in Requests : /\ r.op = "deleteAll" /\ r.session = None /\ r.awaited
                            /\ wire' = [wire EXCEPT ![p] = Append(wire[p], r)]
  BY <1>3
<1>5. InFlight(p) \subseteq Sessions
  <2>1. wire[p] \in Seq(Requests) /\ replies[p] \in Seq(Replies)
        /\ \A r2 \in ToSet(replies[p]) : Fits(r2)
    BY DEF FlowTyped
  <2>2. /\ \A r2 \in ToSet(wire[p]) : Sent(r2.op, r2.session)
        /\ \A r2 \in ToSet(replies[p]) : r2 \in Replies /\ Fits(r2)
    BY <2>1, Held, RequestFacts
  <2>3. ASSUME NEW r2 \in Awaited(p) PROVE Touches(r2) \subseteq Sessions
    <3>1. r2.op \in {"list", "delete", "deleteAll"} \/ r2.session \in Sessions
      BY <2>2 DEF Awaited, Sent, Fits, Replies
    <3>. QED
      BY <3>1 DEF Touches
  <2>. QED
    BY <2>3 DEF InFlight
<1>6. race \subseteq Sessions
  BY <1>5, CopyOfProcess
<1> HIDE DEF race
<1>7. /\ raced' \in [Processes -> SUBSET Sessions] /\ raced'[p] = race
      /\ \A q \in Processes \ {p} : raced'[q] = raced[q]
  BY <1>1, <1>6, CopyOfProcess
<1>8. ASSUME NEW t \in Sessions, t \notin race
      PROVE  Called(t, wire[p], replies[p], copy[p], EmptyCopy, r)
  <2>1. t \notin InFlight(p)
    BY <1>8 DEF race
  <2>2. Quiet(t, wire[p]) /\ \A i \in 1..Len(replies[p]) : t \notin Touches(replies[p][i])
    BY <2>1, NotInFlight
  <2>3. /\ ~Is(r, {"clear"}, t) /\ ~Is(r, {"reload"}, t) /\ Removes(r, t)
        /\ ~Is(r, {"rename", "append"}, t)
    BY <1>4 DEF Is, Removes
  <2>. QED
    BY <1>4, <2>2, <2>3, NothingKnown, WipeCalled
<1>9. raced[p] \subseteq raced'[p]
  BY <1>7 DEF race
<1>10. Sends(p, r, EmptyCopy)
  BY <1>1, <1>3, <1>4, <1>7, <1>8, <1>9 DEF Sends
<1>. QED
  BY <1>10, NothingKnown

LEMMA AppendCalls ==
  ASSUME FlowTyped, CopyTyped, NEW p \in Processes, NEW s \in Sessions, AppendMessages(p, s)
  PROVE  \E r \in Requests, c2 \in Copies : Sends(p, r, c2)
<1> DEFINE c == copy[p]
           new == IF c.messages[s] = None THEN None ELSE Append(c.messages[s], used.writes + 1)
           d == [c EXCEPT !.messages[s] = new]
           c2 == [d EXCEPT !.page[s] = None]
           race == raced[p] \cup {t \in {s} : \E r \in Awaited(p) : r.op = "page" /\ r.session = s}
<1>1. /\ copy' = [copy EXCEPT ![p] = c2] /\ c.names[s] # None
      /\ raced' = [raced EXCEPT ![p] = race]
      /\ Track(p, "append", s, DefaultName)
  BY DEF AppendMessages
<1>2. Sent("append", s) /\ "append" \notin ReadOps /\ DefaultName \in Names
  BY SessionStateAssumption DEF Sent, ReadOps, SessionReads, SessionWrites
<1>3. /\ UNCHANGED <<table, replies, author>>
      /\ \E r \in Requests : /\ r.op = "append" /\ r.session = s /\ r.awaited
                             /\ wire' = [wire EXCEPT ![p] = Append(wire[p], r)]
      /\ used.writes + 1 \in Writes
  BY <1>1, <1>2, TrackSends
<1>4. PICK r \in Requests : /\ r.op = "append" /\ r.session = s /\ r.awaited
                            /\ wire' = [wire EXCEPT ![p] = Append(wire[p], r)]
  BY <1>3
<1>5. c \in Copies /\ race \subseteq Sessions
  BY CopyOfProcess
<1>50. new \in MaybeMessages /\ None \in MaybeMessages /\ (c.messages[s] = None => new = None)
  <2>1. CASE c.messages[s] = None
    BY <2>1 DEF MaybeMessages
  <2>2. CASE c.messages[s] # None
    <3>1. c.messages[s] \in Seq({0} \cup Writes)
      BY <1>5, <2>2, CopyFields DEF MaybeMessages, Messages
    <3>2. Append(c.messages[s], used.writes + 1) \in Seq({0} \cup Writes)
      BY <1>3, <3>1, Appended
    <3>. QED
      BY <2>2, <3>2 DEF MaybeMessages, Messages
  <2>. QED
    BY <2>1, <2>2
<1> HIDE DEF new
<1>51. /\ d \in Copies /\ d.messages = [c.messages EXCEPT ![s] = new]
       /\ d.names = c.names /\ d.page = c.page /\ d.last = c.last
  BY <1>5, <1>50, CopyMessages
<1> HIDE DEF d
<1>52. /\ c2 \in Copies /\ c2.page = [d.page EXCEPT ![s] = None]
       /\ c2.names = d.names /\ c2.messages = d.messages /\ c2.last = d.last
  BY <1>50, <1>51, CopyPage
<1> HIDE DEF c2
<1>6. \A t \in Sessions : /\ c2.names[t] = c.names[t] /\ c2.last[t] = c.last[t]
                          /\ c2.messages[t] = IF t = s THEN new ELSE c.messages[t]
                          /\ c2.page[t] = IF t = s THEN None ELSE c.page[t]
  BY <1>5, <1>51, <1>52, CopyFields, EntryChanged
<1> HIDE DEF race
<1>7. /\ raced' \in [Processes -> SUBSET Sessions] /\ raced'[p] = race
      /\ \A q \in Processes \ {p} : raced'[q] = raced[q]
  BY <1>1, <1>5, CopyOfProcess
<1> HIDE DEF c
<1>8. ASSUME NEW t \in Sessions, t \notin race PROVE Called(t, wire[p], replies[p], c, c2, r)
  <2>1. CASE t = s
    <3>1. \A x \in Awaited(p) : ~(x.op = "page" /\ x.session = s)
      BY <1>8, <2>1 DEF race
    <3>2. /\ \A i \in 1..Len(wire[p]) : wire[p][i] \in ToSet(wire[p])
          /\ \A i \in 1..Len(replies[p]) : /\ replies[p][i] \in ToSet(replies[p])
                                           /\ replies[p][i] \in Replies
      <4>1. wire[p] \in Seq(Requests) /\ replies[p] \in Seq(Replies)
        BY DEF FlowTyped
      <4>. QED
        BY <4>1, Held
    <3>3. \A i \in 1..Len(replies[p]) : replies[p][i].awaited
      BY <3>2 DEF Replies
    <3>4. /\ \A i \in 1..Len(wire[p]) : wire[p][i].awaited => ~Is(wire[p][i], {"page"}, s)
          /\ \A i \in 1..Len(replies[p]) : ~Is(replies[p][i], {"page"}, s)
      BY <3>1, <3>2, <3>3 DEF Awaited, Is
    <3>5. NoPages(s, replies[p], c2)
      BY <1>6, <3>4 DEF NoPages
    <3>6. /\ Is(r, {"append"}, s) /\ ~Is(r, {"reload"}, s) /\ ~Removes(r, s) /\ ~Wipes(r, s)
      BY <1>4 DEF Is, Removes, Wipes
    <3>7. /\ c.names[s] # None /\ c2.names[s] = c.names[s] /\ c2.last[s] = c.last[s]
          /\ c2.page[s] = None
          /\ c.messages[s] = None => c2.messages[s] = None
      BY <1>1, <1>6, <1>50 DEF c
    <3>. QED
      BY <1>4, <2>1, <3>4, <3>5, <3>6, <3>7 DEF Called
  <2>2. CASE t # s
    <3>1. /\ c2.names[t] = c.names[t] /\ c2.messages[t] = c.messages[t]
          /\ c2.page[t] = c.page[t] /\ c2.last[t] = c.last[t]
      BY <1>6, <2>2
    <3>. QED
      BY <1>4, <2>2, <3>1, CalledElse
  <2>. QED
    BY <2>1, <2>2
<1>9. raced[p] \subseteq raced'[p]
  BY <1>7 DEF race
<1>10. copy' = [copy EXCEPT ![p] = c2]
  BY <1>1 DEF c
<1>11. Sends(p, r, c2)
  BY <1>3, <1>4, <1>7, <1>8, <1>9, <1>10 DEF Sends, c
<1>. QED
  BY <1>52, <1>11

LEMMA CallSends ==
  ASSUME FlowTyped, CopyTyped, NEW p \in Processes, Calls(p)
  PROVE  \E r \in Requests, c2 \in Copies : Sends(p, r, c2)
<1>1. Sent("list", None) /\ "list" \in ReadOps
  BY DEF Sent, ReadOps, SessionReads
<1>2. \A op \in {"load", "page"}, s \in Sessions : Sent(op, s) /\ op \in ReadOps
  BY DEF Sent, ReadOps, SessionReads
<1>3. CASE DeleteAllSessions(p)
  BY <1>3, DeleteAllCalls
<1>4. CASE PreloadAll(p)
  BY <1>1, <1>4, PreloadCalls DEF PreloadAll
<1>5. CASE \E s \in Sessions : EnsureSession(p, s)
  BY <1>5, EnsureCalls
<1>6. CASE \E s \in Sessions : ClearSession(p, s)
  BY <1>6, ClearCalls
<1>7. CASE \E s \in Sessions : DeleteSession(p, s)
  BY <1>7, DeleteCalls
<1>8. CASE \E s \in Sessions : AppendMessages(p, s)
  BY <1>8, AppendCalls
<1>9. CASE \E s \in Sessions : PreloadSession(p, s)
  BY <1>2, <1>9, PreloadCalls DEF PreloadSession
<1>10. CASE \E s \in Sessions : PreloadMessages(p, s)
  BY <1>2, <1>10, PreloadCalls DEF PreloadMessages
<1>11. CASE \E s \in Sessions : \E n \in Names \ {DefaultName} : RenameSession(p, s, n)
  BY <1>11, RenameCalls
<1>. QED
  BY <1>3, <1>4, <1>5, <1>6, <1>7, <1>8, <1>9, <1>10, <1>11 DEF Calls

-----------------------------------------------------------------------------
(* What serving a request does to one session: the reply says what the       *)
(* tables say after it, and only its process becomes an author.              *)

Texts(t, s) == IF t[s] = None THEN <<>> ELSE t[s].messages

Moves(p, s) ==
  \/ /\ Row(table', s) = Row(table, s) /\ Texts(table', s) = Texts(table, s)
     /\ author'.name[s] = author.name[s] /\ author'.messages[s] = author.messages[s]
  \/ /\ Row(table', s) # None /\ Texts(table', s) = Texts(table, s)
     /\ author'.name[s] = p /\ author'.messages[s] = author.messages[s]
  \/ /\ Row(table', s) # None /\ Row(table', s) = Row(table, s)
     /\ author'.name[s] = author.name[s] /\ author'.messages[s] = p
  \/ author'.name[s] = p /\ author'.messages[s] = p

Effect(p, s, r, a) ==
  /\ Truthful(a, s, Row(table', s), Texts(table', s))
  /\ ChangesRow(s, r, a, Row(table, s), Texts(table, s),
                author.name[s] = p, author.messages[s] = p,
                Row(table', s), Texts(table', s), author'.name[s] = p, author'.messages[s] = p)
  /\ Moves(p, s)

Tells(p, r, a) ==
  /\ wire[p] # <<>> /\ r = Head(wire[p])
  /\ a \in Replies /\ a.op = r.op /\ a.session = r.session
  /\ wire' = [wire EXCEPT ![p] = Tail(wire[p])]
  /\ replies' = IF r.awaited THEN [replies EXCEPT ![p] = Append(replies[p], a)] ELSE replies
  /\ UNCHANGED <<copy, raced>>

Says(a, names, messages) == a.names = names /\ a.messages = messages

Told(p) ==
  \E r \in Requests, a \in Replies :
    /\ Tells(p, r, a) /\ Carries(a) /\ author' \in Authors
    /\ \A s \in Sessions : Effect(p, s, r, a)

LEMMA AnswerTells ==
  ASSUME FlowTyped, NEW p \in Processes, wire[p] # <<>>, NEW ok \in BOOLEAN,
         NEW names \in Summaries, NEW messages \in MaybeMessages, Answer(p, ok, names, messages)
  PROVE  \E r \in Requests, a \in Replies :
           Tells(p, r, a) /\ Says(a, names, messages) /\ (a.ok <=> ok)
<1> DEFINE r == Head(wire[p])
           a == [op |-> r.op, session |-> r.session, write |-> r.write, awaited |-> TRUE,
                 ok |-> ok, names |-> names, messages |-> messages]
<1>1. /\ wire' = [wire EXCEPT ![p] = Tail(wire[p])]
      /\ replies' = IF r.awaited THEN [replies EXCEPT ![p] = Append(replies[p], a)] ELSE replies
      /\ UNCHANGED <<copy, raced>>
  BY DEF Answer
<1>2. r \in Requests
  BY TakenOff DEF FlowTyped
<1> HIDE DEF r
<1>3. /\ Sent(r.op, r.session) /\ r.write \in {0} \cup Writes
  BY <1>2, RequestFacts
<1>4. a \in Replies
  BY <1>3 DEF Replies, Sent
<1>5. /\ a.op = r.op /\ a.session = r.session
      /\ a.ok = ok /\ a.names = names /\ a.messages = messages
  OBVIOUS
<1> HIDE DEF a
<1>6. PICK r2 \in Requests : r2 = r
  BY <1>2
<1>7. PICK a2 \in Replies : a2 = a
  BY <1>4
<1>8. /\ wire' = [wire EXCEPT ![p] = Tail(wire[p])]
      /\ replies' = IF r2.awaited THEN [replies EXCEPT ![p] = Append(replies[p], a2)] ELSE replies
      /\ UNCHANGED <<copy, raced>> /\ r2 = Head(wire[p])
      /\ a2.op = r2.op /\ a2.session = r2.session
  BY <1>1, <1>5, <1>6, <1>7 DEF r
<1>9. Tells(p, r2, a2)
  BY <1>8 DEF Tells
<1>10. Says(a2, names, messages) /\ (a2.ok <=> ok)
  BY <1>5, <1>7 DEF Says
<1>. QED
  BY <1>9, <1>10

LEMMA AuthorFacts ==
  ASSUME CopyTyped
  PROVE  /\ author \in Authors
         /\ author.name \in [Sessions -> Processes \cup {None}]
         /\ author.messages \in [Sessions -> Processes \cup {None}]
BY DEF CopyTyped, Authors

LEMMA AuthorBy ==
  ASSUME CopyTyped, NEW p \in Processes, NEW columns, NEW sessions, By(p, columns, sessions)
  PROVE  /\ author' \in Authors
         /\ \A s \in Sessions :
              /\ author'.name[s] = IF "name" \in columns /\ s \in sessions THEN p
                                   ELSE author.name[s]
              /\ author'.messages[s] = IF "messages" \in columns /\ s \in sessions THEN p
                                       ELSE author.messages[s]
<1> DEFINE New(c) == [s \in Sessions |-> IF s \in sessions THEN p ELSE author[c][s]]
<1>1. author' = [c \in {"name", "messages"} |-> IF c \in columns THEN New(c) ELSE author[c]]
  BY DEF By
<1>2. /\ author.name \in [Sessions -> Processes \cup {None}]
      /\ author.messages \in [Sessions -> Processes \cup {None}]
      /\ author["name"] = author.name /\ author["messages"] = author.messages
  BY AuthorFacts
<1>3. \A c \in {"name", "messages"} :
        /\ New(c) \in [Sessions -> Processes \cup {None}]
        /\ \A s \in Sessions : New(c)[s] = IF s \in sessions THEN p ELSE author[c][s]
  BY <1>2
<1>4. \A c \in {"name", "messages"} : author[c] \in [Sessions -> Processes \cup {None}]
  BY <1>2
<1> HIDE DEF New
<1>5. author' \in Authors
  BY <1>1, <1>3, <1>4 DEF Authors
<1>6. /\ author'.name = IF "name" \in columns THEN New("name") ELSE author["name"]
      /\ author'.messages = IF "messages" \in columns THEN New("messages") ELSE author["messages"]
  BY <1>1
<1>. QED
  BY <1>2, <1>3, <1>5, <1>6

\* a session the request is not about
LEMMA EffectElse ==
  ASSUME NEW p \in Processes, NEW s \in Sessions, NEW r, NEW a,
         a.op = r.op, a.session = r.session, r.session # s, r.op \notin {"list", "deleteAll"},
         table'[s] = table[s],
         author'.name[s] = author.name[s], author'.messages[s] = author.messages[s]
  PROVE  Effect(p, s, r, a)
<1>1. /\ ~Is(r, {"ensure"}, s) /\ ~Is(r, {"rename"}, s) /\ ~Is(r, {"clear"}, s)
      /\ ~Is(r, {"append"}, s) /\ ~Is(r, {"ensure", "rename", "clear", "append"}, s)
      /\ ~Removes(r, s)
  BY DEF Is, Removes
<1>2. ~SaysName(a, s) /\ ~Loads(a, s) /\ ~SaysLast(a, s)
  BY DEF SaysName, Loads, SaysLast, Grows, Is
<1>3. Row(table', s) = Row(table, s) /\ Texts(table', s) = Texts(table, s)
  BY DEF Row, Texts
<1>. QED
  BY <1>1, <1>2, <1>3 DEF Effect, Truthful, ChangesRow, Moves

\* the session, when nothing of it is changed
LEMMA EffectSame ==
  ASSUME NEW p \in Processes, NEW s \in Sessions, NEW r, NEW a,
         r.op \notin {"ensure", "rename", "clear", "append", "delete", "deleteAll"},
         table' = table, author' = author, Truthful(a, s, Row(table, s), Texts(table, s))
  PROVE  Effect(p, s, r, a)
<1>1. /\ ~Is(r, {"ensure"}, s) /\ ~Is(r, {"rename"}, s) /\ ~Is(r, {"clear"}, s)
      /\ ~Is(r, {"append"}, s) /\ ~Is(r, {"ensure", "rename", "clear", "append"}, s)
      /\ ~Removes(r, s)
  BY DEF Is, Removes
<1>2. Row(table', s) = Row(table, s) /\ Texts(table', s) = Texts(table, s)
      /\ author'.name[s] = author.name[s] /\ author'.messages[s] = author.messages[s]
  BY DEF Row, Texts
<1>. QED
  BY <1>1, <1>2 DEF Effect, ChangesRow, Moves

\* a reply says something of its session only
LEMMA SaysElse ==
  ASSUME NEW s, NEW a, NEW n, NEW m, a.session # s, a.op # "list"
  PROVE  Truthful(a, s, n, m)
BY DEF Truthful, SaysName, Loads, SaysLast, Grows, Is

LEMMA NamedFacts ==
  ASSUME NEW s \in Sessions, NEW n \in MaybeName
  PROVE  Named(s, n) \in [{s} -> MaybeName] /\ Named(s, n)[s] = n
BY DEF Named

LEMMA RowTypes ==
  ASSUME CacheInv, NEW s \in Sessions
  PROVE  /\ Row(table, s) \in MaybeName /\ Texts(table, s) \in Messages
         /\ Summary(s) = Row(table, s)
         /\ table[s] = None <=> Row(table, s) = None
         /\ table[s] # None => Row(table, s) = table[s].name /\ Texts(table, s) = table[s].messages
         /\ table[s] = None => Texts(table, s) = <<>>
BY Holds, RowFacts DEF Row, Texts, MaybeName

LEMMA AnswerYes ==
  ASSUME FlowTyped, NEW p \in Processes, wire[p] # <<>>, NEW names \in Summaries,
         NEW messages \in MaybeMessages, Answer(p, TRUE, names, messages)
  PROVE  \E r \in Requests, a \in Replies :
           Tells(p, r, a) /\ Says(a, names, messages) /\ a.ok
<1>1. \E ok \in BOOLEAN : ok /\ Answer(p, ok, names, messages)
  OBVIOUS
<1>2. PICK ok \in BOOLEAN : ok /\ Answer(p, ok, names, messages)
  BY <1>1
<1>. QED
  BY <1>2, AnswerTells

LEMMA AnswerNo ==
  ASSUME FlowTyped, NEW p \in Processes, wire[p] # <<>>, NEW names \in Summaries,
         NEW messages \in MaybeMessages, Answer(p, FALSE, names, messages)
  PROVE  \E r \in Requests, a \in Replies : Tells(p, r, a) /\ ~a.ok
<1>1. \E ok \in BOOLEAN : ~ok /\ Answer(p, ok, names, messages)
  OBVIOUS
<1>2. PICK ok \in BOOLEAN : ~ok /\ Answer(p, ok, names, messages)
  BY <1>1
<1>. QED
  BY <1>2, AnswerTells

\* the reply that carries these names and messages says what the tables say
Honest(p, names, messages) ==
  \A a \in Replies :
    /\ a.op = Head(wire[p]).op /\ a.session = Head(wire[p]).session
    /\ a.names = names /\ a.messages = messages
    => Carries(a) /\ \A s \in Sessions : Truthful(a, s, Row(table, s), Texts(table, s))

LEMMA ReadTold ==
  ASSUME FlowTyped, CopyTyped, NEW p \in Processes, wire[p] # <<>>,
         Head(wire[p]).op \in {"load", "reload", "page", "summary", "lastId", "list"},
         NEW names \in Summaries, NEW messages \in MaybeMessages,
         Answer(p, TRUE, names, messages), table' = table, author' = author,
         Honest(p, names, messages)
  PROVE  Told(p)
<1>1. PICK r \in Requests, a \in Replies :
        Tells(p, r, a) /\ Says(a, names, messages) /\ a.ok
  BY AnswerYes
<1>3. r = Head(wire[p])
  BY <1>1 DEF Tells
<1>4. a.op = r.op /\ a.session = r.session /\ Tells(p, r, a)
  BY <1>1 DEF Tells
<1>5. Carries(a) /\ \A s \in Sessions : Truthful(a, s, Row(table, s), Texts(table, s))
  BY <1>1, <1>3, <1>4 DEF Honest, Says
<1>6. r.op \notin {"ensure", "rename", "clear", "append", "delete", "deleteAll"}
  BY <1>3
<1>7. \A s \in Sessions : Effect(p, s, r, a)
  BY <1>5, <1>6, EffectSame
<1>8. author' \in Authors
  BY AuthorFacts
<1>. QED
  BY <1>4, <1>5, <1>7, <1>8 DEF Told

LEMMA LoadTold ==
  ASSUME CacheInv, FlowTyped, CopyTyped, NEW p \in Processes, ServeLoad(p)
  PROVE  Told(p)
<1> DEFINE r == Head(wire[p])
           s == r.session
           row == IF cache.loaded[s] # None THEN cache.loaded[s] ELSE table[s]
           name == IF row = None THEN None ELSE row.name
           messages == IF row = None THEN None ELSE row.messages
<1>1. s \in Sessions /\ wire[p] # <<>> /\ r.op \in {"load", "reload"}
  BY ServedRequest DEF ServeLoad, Sent, SessionWrites, SessionReads
<1>2. Answer(p, TRUE, Named(s, name), messages) /\ table' = table /\ author' = author
  BY Zenon DEF ServeLoad
<1> HIDE DEF r
<1>3. row = table[s]
  BY <1>1, Holds DEF Matches
<1> HIDE DEF s, row
<1>4. name = Row(table, s) /\ messages = IF table[s] = None THEN None ELSE Texts(table, s)
  BY <1>3 DEF Row, Texts
<1> HIDE DEF name, messages
<1>5. /\ name \in MaybeName /\ messages \in MaybeMessages
      /\ name # None => messages = Texts(table, s)
  BY <1>1, <1>4, RowTypes DEF MaybeMessages
<1>6. ASSUME NEW a \in Replies, a.op = r.op, a.session = s, a.names = Named(s, name),
             a.messages = messages
      PROVE  Carries(a) /\ \A t \in Sessions : Truthful(a, t, Row(table, t), Texts(table, t))
  <2>0. Named(s, name) \in [{s} -> MaybeName] /\ Named(s, name)[s] = name
    BY <1>1, <1>5, NamedFacts
  <2>1. a.names \in [{s} -> MaybeName] /\ a.names[s] = name
    BY <1>6, <2>0, Zenon
  <2>2. Carries(a)
    BY <1>1, <1>6, <2>1 DEF Carries
  <2>3. Truthful(a, s, Row(table, s), Texts(table, s))
    BY <1>1, <1>4, <1>5, <1>6, <2>1 DEF Truthful, Loads, SaysLast, Grows, Is
  <2>4. \A t \in Sessions : t # s => Truthful(a, t, Row(table, t), Texts(table, t))
    BY <1>1, <1>6, SaysElse
  <2>. QED
    BY <2>2, <2>3, <2>4
<1>7. Named(s, name) \in Summaries
  BY <1>1, <1>5, NamedTypes
<1>8. Honest(p, Named(s, name), messages)
  BY <1>6 DEF Honest, r, s
<1>. QED
  BY <1>1, <1>2, <1>5, <1>7, <1>8, ReadTold DEF r

LEMMA PageTold ==
  ASSUME CacheInv, FlowTyped, CopyTyped, NEW p \in Processes, ServePage(p)
  PROVE  Told(p)
<1> DEFINE s == Head(wire[p]).session
           messages == Page(cache, table, s)
<1>1. s \in Sessions /\ wire[p] # <<>> /\ Head(wire[p]).op = "page"
  BY ServedRequest DEF ServePage, Sent, SessionWrites, SessionReads
<1>2. Answer(p, TRUE, <<>>, messages) /\ table' = table /\ author' = author
  BY DEF ServePage
<1>3. messages = Texts(table, s)
  BY <1>1, Holds DEF Matches, Page, Texts
<1>4. messages \in Messages /\ messages \in MaybeMessages
  BY <1>1, <1>3, RowTypes DEF MaybeMessages
<1> HIDE DEF messages
<1>5. ASSUME NEW a \in Replies, a.op = "page", a.session = s, a.messages = messages
      PROVE  Carries(a) /\ \A t \in Sessions : Truthful(a, t, Row(table, t), Texts(table, t))
  <2>1. Carries(a)
    BY <1>4, <1>5 DEF Carries
  <2>2. Truthful(a, s, Row(table, s), Texts(table, s))
    BY <1>3, <1>5 DEF Truthful, SaysName, Loads, Is
  <2>3. \A t \in Sessions : t # s => Truthful(a, t, Row(table, t), Texts(table, t))
    BY <1>5, SaysElse
  <2>. QED
    BY <2>1, <2>2, <2>3
<1>6. Honest(p, <<>>, messages)
  BY <1>1, <1>5 DEF Honest
<1>. QED
  BY <1>1, <1>2, <1>4, <1>6, NamedTypes, ReadTold

LEMMA SummaryTold ==
  ASSUME CacheInv, FlowTyped, CopyTyped, NEW p \in Processes, ServeSummary(p)
  PROVE  Told(p)
<1> DEFINE s == Head(wire[p]).session
           name == Summary(s)
<1>1. s \in Sessions /\ wire[p] # <<>> /\ Head(wire[p]).op = "summary"
  BY ServedRequest DEF ServeSummary, Sent, SessionWrites, SessionReads
<1>2. Answer(p, TRUE, Named(s, name), None) /\ table' = table /\ author' = author
  BY DEF ServeSummary
<1>3. name = Row(table, s) /\ name \in MaybeName
  BY <1>1, RowTypes
<1> HIDE DEF name
<1>4. ASSUME NEW a \in Replies, a.op = "summary", a.session = s, a.names = Named(s, name)
      PROVE  Carries(a) /\ \A t \in Sessions : Truthful(a, t, Row(table, t), Texts(table, t))
  <2>0. Named(s, name) \in [{s} -> MaybeName] /\ Named(s, name)[s] = name
    BY <1>1, <1>3, NamedFacts
  <2>1. a.names \in [{s} -> MaybeName] /\ a.names[s] = name
    BY <1>4, <2>0, Zenon
  <2>2. Carries(a)
    BY <1>4, <2>1 DEF Carries
  <2>3. Truthful(a, s, Row(table, s), Texts(table, s))
    BY <1>3, <1>4, <2>1 DEF Truthful, Loads, SaysLast, Grows, Is
  <2>4. \A t \in Sessions : t # s => Truthful(a, t, Row(table, t), Texts(table, t))
    BY <1>4, SaysElse
  <2>. QED
    BY <2>2, <2>3, <2>4
<1>5. Named(s, name) \in Summaries /\ None \in MaybeMessages
  BY <1>1, <1>3, NamedTypes
<1>6. Honest(p, Named(s, name), None)
  BY <1>1, <1>4 DEF Honest
<1>. QED
  BY <1>1, <1>2, <1>5, <1>6, ReadTold

LEMMA LastIdTold ==
  ASSUME CacheInv, FlowTyped, CopyTyped, NEW p \in Processes, ServeLastId(p)
  PROVE  Told(p)
<1> DEFINE s == Head(wire[p]).session
           messages == IF table[s] = None THEN <<>> ELSE table[s].messages
<1>1. s \in Sessions /\ wire[p] # <<>> /\ Head(wire[p]).op = "lastId"
  BY ServedRequest DEF ServeLastId, Sent, SessionWrites, SessionReads
<1>2. Answer(p, TRUE, <<>>, messages) /\ table' = table /\ author' = author
  BY DEF ServeLastId
<1>3. messages = Texts(table, s)
  BY DEF Texts
<1>4. messages \in Messages /\ messages \in MaybeMessages
  BY <1>1, <1>3, RowTypes DEF MaybeMessages
<1> HIDE DEF messages
<1>5. ASSUME NEW a \in Replies, a.op = "lastId", a.session = s, a.messages = messages
      PROVE  Carries(a) /\ \A t \in Sessions : Truthful(a, t, Row(table, t), Texts(table, t))
  <2>1. Carries(a)
    BY <1>4, <1>5 DEF Carries
  <2>2. Truthful(a, s, Row(table, s), Texts(table, s))
    BY <1>3, <1>5 DEF Truthful, SaysName, Loads, Is
  <2>3. \A t \in Sessions : t # s => Truthful(a, t, Row(table, t), Texts(table, t))
    BY <1>5, SaysElse
  <2>. QED
    BY <2>1, <2>2, <2>3
<1>6. Honest(p, <<>>, messages)
  BY <1>1, <1>5 DEF Honest
<1>. QED
  BY <1>1, <1>2, <1>4, <1>6, NamedTypes, ReadTold

LEMMA ListTold ==
  ASSUME CacheInv, FlowTyped, CopyTyped, NEW p \in Processes, ServeList(p)
  PROVE  Told(p)
<1> DEFINE c == WithSummaries(cache, table)
           names == c.names
<1>1. wire[p] # <<>> /\ Head(wire[p]).op = "list"
  BY DEF ServeList, Served
<1>2. Answer(p, TRUE, names, None) /\ table' = table /\ author' = author
  BY DEF ServeList
<1>3. True(c, table) /\ c.listed
  <2>1. True(c, table)
    BY Summarised DEF CacheInv, True
  <2>2. cache \in CacheType
    BY DEF CacheInv, True
  <2>3. c.listed
    BY <2>2, CacheRecord DEF WithSummaries, CacheOf
  <2>. QED
    BY <2>1, <2>3
<1> HIDE DEF c
<1>4. \A s \in Sessions : names[s] = Row(table, s)
  BY <1>3 DEF True, Matches, Lists, Row
<1>5. names \in [Sessions -> MaybeName] /\ names \in Summaries
  BY <1>3, CacheRecord, NamedTypes DEF True
<1> HIDE DEF names
<1>6. ASSUME NEW a \in Replies, a.op = "list", a.names = names
      PROVE  Carries(a) /\ \A t \in Sessions : Truthful(a, t, Row(table, t), Texts(table, t))
  <2>1. Carries(a)
    BY <1>5, <1>6 DEF Carries
  <2>2. \A t \in Sessions : Truthful(a, t, Row(table, t), Texts(table, t))
    BY <1>4, <1>6 DEF Truthful, Loads, SaysLast, Grows, Is
  <2>. QED
    BY <2>1, <2>2
<1>7. None \in MaybeMessages
  BY NamedTypes
<1>8. Honest(p, names, None)
  BY <1>1, <1>6 DEF Honest
<1>. QED
  BY <1>1, <1>2, <1>5, <1>7, <1>8, ReadTold

\* a write about one session, whose reply names it, touches nothing else
LEMMA WriteTold ==
  ASSUME FlowTyped, CopyTyped, NEW p \in Processes, NEW r \in Requests, NEW a \in Replies,
         Tells(p, r, a), Carries(a), NEW s \in Sessions, r.session = s,
         r.op \notin {"list", "deleteAll"}, author' \in Authors, Effect(p, s, r, a),
         \A t \in Sessions \ {s} :
           /\ table'[t] = table[t]
           /\ author'.name[t] = author.name[t] /\ author'.messages[t] = author.messages[t]
  PROVE  Told(p)
<1>1. a.op = r.op /\ a.session = r.session
  BY DEF Tells
<1>2. \A t \in Sessions : Effect(p, t, r, a)
  <2> TAKE t \in Sessions
  <2>1. CASE t = s
    BY <2>1
  <2>2. CASE t # s
    <3>1. /\ table'[t] = table[t] /\ r.session # t
          /\ author'.name[t] = author.name[t] /\ author'.messages[t] = author.messages[t]
      BY <2>2
    <3>. QED
      BY <1>1, <3>1, EffectElse
  <2>. QED
    BY <2>1, <2>2
<1>. QED
  BY <1>2 DEF Told

LEMMA EnsureTold ==
  ASSUME CacheInv, FlowTyped, CopyTyped, NEW p \in Processes, ServeEnsure(p)
  PROVE  Told(p)
<1> DEFINE s == Head(wire[p]).session
           n == IF Summary(s) = None THEN DefaultName ELSE Summary(s)
           row == [name |-> DefaultName, messages |-> <<>>]
<1>1. s \in Sessions /\ wire[p] # <<>> /\ Head(wire[p]).op = "ensure"
  BY ServedRequest DEF ServeEnsure, Sent, SessionWrites, SessionReads
<1>2. /\ Answer(p, TRUE, Named(s, n), None)
      /\ \/ /\ Summary(s) = None /\ table' = [table EXCEPT ![s] = row]
            /\ By(p, {"name"}, {s})
         \/ Summary(s) # None /\ UNCHANGED <<table, author>>
  BY DEF ServeEnsure, EnsureNew
<1>3. n \in MaybeName /\ n # None
  BY <1>1, RowTypes, RowFacts DEF MaybeName
<1>4. Named(s, n) \in Summaries /\ None \in MaybeMessages
  BY <1>1, <1>3, NamedTypes
<1>5. PICK r \in Requests, a \in Replies : Tells(p, r, a) /\ Says(a, Named(s, n), None) /\ a.ok
  <2> HIDE DEF s, n
  <2>. QED
    BY <1>1, <1>2, <1>4, AnswerYes
<1>6. /\ r.op = "ensure" /\ r.session = s /\ a.op = "ensure" /\ a.session = s
      /\ a.names = Named(s, n)
  BY <1>1, <1>5 DEF Tells, Says
<1> HIDE DEF s
<1>7. a.names \in [{s} -> MaybeName] /\ a.names[s] = n
  <2>1. Named(s, n) \in [{s} -> MaybeName] /\ Named(s, n)[s] = n
    BY <1>1, <1>3, NamedFacts
  <2>. QED
    BY <1>6, <2>1, Zenon
<1>8. Carries(a)
  BY <1>6, <1>7 DEF Carries
<1>9. SaysName(a, s) /\ ~Loads(a, s) /\ ~SaysLast(a, s) /\ Is(r, {"ensure"}, s)
  BY <1>6 DEF SaysName, Loads, SaysLast, Grows, Is
<1>10. /\ table \in [Sessions -> Rows \cup {None}]
       /\ row # None /\ row.name = DefaultName /\ row.messages = <<>>
  BY <1>1, Holds, RowFacts DEF Tables
<1>11. CASE /\ Summary(s) = None /\ table' = [table EXCEPT ![s] = row]
            /\ By(p, {"name"}, {s})
  <2>1. /\ author' \in Authors
        /\ author'.name[s] = p /\ author'.messages[s] = author.messages[s]
        /\ \A t \in Sessions \ {s} : /\ author'.name[t] = author.name[t]
                                     /\ author'.messages[t] = author.messages[t]
    BY <1>1, <1>11, AuthorBy
  <2>2. table'[s] = row /\ \A t \in Sessions \ {s} : table'[t] = table[t]
    BY <1>1, <1>10, <1>11
  <2> HIDE DEF row
  <2>3. Row(table', s) = n /\ Texts(table', s) = Texts(table, s)
    BY <1>1, <1>10, <1>11, <2>2, RowTypes DEF Row, Texts
  <2>4. Effect(p, s, r, a)
    BY <1>3, <1>7, <1>9, <2>1, <2>3 DEF Effect, Truthful, ChangesRow, Moves
  <2>. QED
    BY <1>1, <1>5, <1>6, <1>8, <2>1, <2>2, <2>4, WriteTold
<1>12. CASE Summary(s) # None /\ UNCHANGED <<table, author>>
  <2>1. author' \in Authors
    BY <1>12, AuthorFacts
  <2>2. /\ Row(table', s) = n /\ Row(table, s) = n /\ Texts(table', s) = Texts(table, s)
        /\ author'.name[s] = author.name[s] /\ author'.messages[s] = author.messages[s]
    BY <1>1, <1>12, RowTypes
  <2>3. Effect(p, s, r, a)
    BY <1>3, <1>7, <1>9, <2>2 DEF Effect, Truthful, ChangesRow, Moves
  <2>. QED
    BY <1>1, <1>5, <1>6, <1>8, <1>12, <2>1, <2>3, WriteTold
<1>. QED
  BY <1>2, <1>11, <1>12

LEMMA RenameTold ==
  ASSUME CacheInv, FlowTyped, CopyTyped, NEW p \in Processes, ServeRename(p)
  PROVE  Told(p)
<1> DEFINE s == Head(wire[p]).session
           name == Head(wire[p]).name
           n == IF table[s] = None THEN None ELSE name
           row == [table[s] EXCEPT !.name = name]
<1>1. /\ s \in Sessions /\ wire[p] # <<>> /\ Head(wire[p]).op = "rename" /\ name \in Names
  BY ServedRequest DEF ServeRename, Sent, SessionWrites, SessionReads
<1>2. /\ Answer(p, TRUE, Named(s, n), None)
      /\ \/ table[s] = None /\ UNCHANGED <<table, author>>
         \/ /\ table[s] # None /\ table' = [table EXCEPT ![s] = row]
            /\ By(p, {"name"}, {s})
  BY DEF ServeRename
<1>3. n \in MaybeName
  BY <1>1 DEF MaybeName
<1>4. Named(s, n) \in Summaries /\ None \in MaybeMessages
  BY <1>1, <1>3, NamedTypes
<1>5. PICK r \in Requests, a \in Replies : Tells(p, r, a) /\ Says(a, Named(s, n), None) /\ a.ok
  <2> HIDE DEF s, n
  <2>. QED
    BY <1>1, <1>2, <1>4, AnswerYes
<1>6. /\ r.op = "rename" /\ r.session = s /\ a.op = "rename" /\ a.session = s
      /\ a.names = Named(s, n)
  BY <1>1, <1>5 DEF Tells, Says
<1> HIDE DEF s, name
<1>7. a.names \in [{s} -> MaybeName] /\ a.names[s] = n
  <2>1. Named(s, n) \in [{s} -> MaybeName] /\ Named(s, n)[s] = n
    BY <1>1, <1>3, NamedFacts
  <2>. QED
    BY <1>6, <2>1, Zenon
<1>8. Carries(a)
  BY <1>6, <1>7 DEF Carries
<1>9. SaysName(a, s) /\ ~Loads(a, s) /\ ~SaysLast(a, s) /\ Is(r, {"rename"}, s)
  BY <1>6 DEF SaysName, Loads, SaysLast, Grows, Is
<1>10. CASE table[s] = None /\ UNCHANGED <<table, author>>
  <2>1. author' \in Authors
    BY <1>10, AuthorFacts
  <2>2. /\ Row(table', s) = n /\ Row(table, s) = n /\ Texts(table', s) = Texts(table, s)
        /\ n = None
        /\ author'.name[s] = author.name[s] /\ author'.messages[s] = author.messages[s]
    BY <1>1, <1>10, RowTypes
  <2>3. Effect(p, s, r, a)
    BY <1>3, <1>7, <1>9, <2>2 DEF Effect, Truthful, ChangesRow, Moves
  <2>. QED
    BY <1>1, <1>5, <1>6, <1>8, <1>10, <2>1, <2>3, WriteTold
<1>11. CASE /\ table[s] # None /\ table' = [table EXCEPT ![s] = row]
            /\ By(p, {"name"}, {s})
  <2>1. /\ author' \in Authors
        /\ author'.name[s] = p /\ author'.messages[s] = author.messages[s]
        /\ \A t \in Sessions \ {s} : /\ author'.name[t] = author.name[t]
                                     /\ author'.messages[t] = author.messages[t]
    BY <1>1, <1>11, AuthorBy
  <2>2. table[s] \in Rows /\ table \in [Sessions -> Rows \cup {None}]
    BY <1>1, <1>11, Holds DEF Tables
  <2>3. row = [name |-> name, messages |-> table[s].messages]
    BY <2>2 DEF Rows
  <2>4. row.name = name /\ row.messages = table[s].messages /\ row # None
    BY <1>1, <2>2, <2>3, RowFacts
  <2> HIDE DEF row
  <2>5. table'[s] = row /\ \A t \in Sessions \ {s} : table'[t] = table[t]
    BY <1>1, <1>11, <2>2
  <2>6. /\ Row(table', s) = n /\ n # None /\ Texts(table', s) = Texts(table, s)
    BY <1>1, <1>11, <2>4, <2>5, RowFacts DEF Row, Texts
  <2> HIDE DEF n
  <2>7. Effect(p, s, r, a)
    BY <1>7, <1>9, <2>1, <2>6 DEF Effect, Truthful, ChangesRow, Moves
  <2>. QED
    BY <1>1, <1>5, <1>6, <1>8, <2>1, <2>5, <2>7, WriteTold
<1>. QED
  BY <1>2, <1>10, <1>11

LEMMA ClearTold ==
  ASSUME CacheInv, FlowTyped, CopyTyped, NEW p \in Processes, ServeClear(p)
  PROVE  Told(p)
<1> DEFINE s == Head(wire[p]).session
           n == IF Summary(s) = None THEN DefaultName ELSE Summary(s)
           row == [name |-> n, messages |-> <<>>]
           columns == {"messages"} \cup (IF table[s] = None THEN {"name"} ELSE {})
<1>1. s \in Sessions /\ wire[p] # <<>> /\ Head(wire[p]).op = "clear"
  BY ServedRequest DEF ServeClear, Sent, SessionWrites, SessionReads
<1>2. /\ Answer(p, TRUE, Named(s, n), None)
      /\ table' = [table EXCEPT ![s] =
                     IF table[s] = None /\ Summary(s) # None THEN None ELSE row]
      /\ By(p, columns, {s})
  BY DEF ServeClear
<1>3. n \in MaybeName /\ n # None /\ n \in Names
  BY <1>1, RowTypes, RowFacts DEF MaybeName
<1>4. Named(s, n) \in Summaries /\ None \in MaybeMessages
  BY <1>1, <1>3, NamedTypes
<1>5. PICK r \in Requests, a \in Replies : Tells(p, r, a) /\ Says(a, Named(s, n), None) /\ a.ok
  <2> HIDE DEF s, n
  <2>. QED
    BY <1>1, <1>2, <1>4, AnswerYes
<1>6. /\ r.op = "clear" /\ r.session = s /\ a.op = "clear" /\ a.session = s
      /\ a.names = Named(s, n)
  BY <1>1, <1>5 DEF Tells, Says
<1> HIDE DEF s
<1>7. a.names \in [{s} -> MaybeName] /\ a.names[s] = n
  <2>1. Named(s, n) \in [{s} -> MaybeName] /\ Named(s, n)[s] = n
    BY <1>1, <1>3, NamedFacts
  <2>. QED
    BY <1>6, <2>1, Zenon
<1>8. Carries(a)
  BY <1>6, <1>7 DEF Carries
<1>9. SaysName(a, s) /\ ~Loads(a, s) /\ ~SaysLast(a, s) /\ Is(r, {"clear"}, s)
  BY <1>6 DEF SaysName, Loads, SaysLast, Grows, Is
<1>10. table' = [table EXCEPT ![s] = row]
  BY <1>1, <1>2, RowTypes
<1>11. /\ table \in [Sessions -> Rows \cup {None}]
       /\ row # None /\ row.name = n /\ row.messages = <<>>
  BY <1>1, <1>3, Holds, RowFacts DEF Tables
<1>12. /\ author' \in Authors
       /\ author'.name[s] = (IF table[s] = None THEN p ELSE author.name[s])
       /\ author'.messages[s] = p
       /\ \A t \in Sessions \ {s} : /\ author'.name[t] = author.name[t]
                                    /\ author'.messages[t] = author.messages[t]
  BY <1>1, <1>2, AuthorBy
<1> HIDE DEF row
<1>13. table'[s] = row /\ \A t \in Sessions \ {s} : table'[t] = table[t]
  BY <1>1, <1>10, <1>11
<1>14. /\ Row(table', s) = n
       /\ table[s] # None => Row(table', s) = Row(table, s)
  <2>1. Row(table', s) = n
    BY <1>11, <1>13 DEF Row
  <2>2. table[s] # None => n = Row(table, s)
    BY <1>1, RowTypes
  <2>. QED
    BY <2>1, <2>2
<1> HIDE DEF n
<1>15. Truthful(a, s, Row(table', s), Texts(table', s))
  BY <1>7, <1>9, <1>14 DEF Truthful
<1>16. Moves(p, s)
  BY <1>3, <1>12, <1>14 DEF Moves
<1>17. Effect(p, s, r, a)
  BY <1>3, <1>9, <1>14, <1>15, <1>16 DEF Effect, ChangesRow
<1>. QED
  BY <1>1, <1>5, <1>6, <1>8, <1>12, <1>13, <1>17, WriteTold

LEMMA DeleteTold ==
  ASSUME CacheInv, FlowTyped, CopyTyped, NEW p \in Processes, ServeDelete(p)
  PROVE  Told(p)
<1> DEFINE op == Head(wire[p]).op
           s == Head(wire[p]).session
           gone == IF op = "delete" THEN {s} ELSE Sessions
<1>1. wire[p] # <<>> /\ op \in {"delete", "deleteAll"}
  BY ServedRequest DEF ServeDelete
<1>2. /\ Answer(p, TRUE, <<>>, None)
      /\ table' = [t \in Sessions |-> IF t \in gone THEN None ELSE table[t]]
      /\ By(p, {"name", "messages"}, gone)
  BY DEF ServeDelete
<1>3. PICK r \in Requests, a \in Replies : Tells(p, r, a) /\ Says(a, <<>>, None) /\ a.ok
  BY <1>1, <1>2, NamedTypes, AnswerYes
<1>4. r.op = op /\ r.session = s /\ a.op = op /\ a.session = s
  BY <1>3 DEF Tells
<1> HIDE DEF op, s
<1>5. /\ author' \in Authors
      /\ \A t \in Sessions :
           /\ author'.name[t] = IF t \in gone THEN p ELSE author.name[t]
           /\ author'.messages[t] = IF t \in gone THEN p ELSE author.messages[t]
  BY <1>2, AuthorBy
<1>6. Carries(a)
  BY <1>1, <1>4 DEF Carries
<1>7. \A t \in Sessions : Effect(p, t, r, a)
  <2> TAKE t \in Sessions
  <2>1. ~SaysName(a, t) /\ ~Loads(a, t) /\ ~SaysLast(a, t)
    BY <1>1, <1>4 DEF SaysName, Loads, SaysLast, Grows, Is
  <2>2. CASE t \in gone
    <3>1. Removes(r, t)
      BY <1>1, <1>4, <2>2 DEF Removes, Is
    <3>2. Row(table', t) = None
      BY <1>2, <2>2 DEF Row
    <3>. QED
      BY <1>5, <2>1, <2>2, <3>1, <3>2 DEF Effect, Truthful, ChangesRow, Moves
  <2>3. CASE t \notin gone
    <3>1. r.session # t /\ r.op \notin {"list", "deleteAll"}
      BY <1>1, <1>4, <2>3
    <3>2. table'[t] = table[t]
      BY <1>2, <2>3
    <3>. QED
      BY <1>4, <1>5, <2>3, <3>1, <3>2, EffectElse
  <2>. QED
    BY <2>2, <2>3
<1>. QED
  BY <1>3, <1>5, <1>6, <1>7 DEF Told

LEMMA AppendTold ==
  ASSUME CacheInv, FlowTyped, CopyTyped, NEW p \in Processes, ServeAppend(p)
  PROVE  Told(p)
<1> DEFINE s == Head(wire[p]).session
           write == Head(wire[p]).write
           texts == Append(table[s].messages, write)
           row == [table[s] EXCEPT !.messages = texts]
<1>1. s \in Sessions /\ wire[p] # <<>> /\ Head(wire[p]).op = "append" /\ write \in Writes
  <2>1. "append" \notin ReadOps
    BY DEF ReadOps, SessionReads
  <2>. QED
    BY <2>1, ServedRequest DEF ServeAppend, Sent, SessionWrites, SessionReads
<1>2. \/ table[s] = None /\ Answer(p, FALSE, <<>>, None) /\ UNCHANGED <<table, author>>
      \/ /\ table[s] # None /\ Answer(p, TRUE, <<>>, row.messages)
         /\ table' = [table EXCEPT ![s] = row]
         /\ By(p, {"messages"}, {s})
  BY DEF ServeAppend
<1>3. CASE table[s] = None /\ Answer(p, FALSE, <<>>, None) /\ UNCHANGED <<table, author>>
  <2>1. PICK r \in Requests, a \in Replies : Tells(p, r, a) /\ ~a.ok
    BY <1>1, <1>3, NamedTypes, AnswerNo
  <2>2. r.op = "append" /\ r.session = s /\ a.op = "append" /\ a.session = s
    BY <1>1, <2>1 DEF Tells
  <2> HIDE DEF s
  <2>3. Carries(a)
    BY <2>1, <2>2 DEF Carries
  <2>4. ~SaysName(a, s) /\ ~Loads(a, s) /\ ~SaysLast(a, s) /\ Is(r, {"append"}, s)
    BY <2>1, <2>2 DEF SaysName, Loads, SaysLast, Grows, Is
  <2>5. /\ Row(table', s) = Row(table, s) /\ Row(table, s) = None
        /\ Texts(table', s) = Texts(table, s)
        /\ author'.name[s] = author.name[s] /\ author'.messages[s] = author.messages[s]
    BY <1>1, <1>3, RowTypes
  <2>6. Effect(p, s, r, a)
    BY <2>1, <2>4, <2>5 DEF Effect, Truthful, ChangesRow, Moves
  <2>7. author' \in Authors
    BY <1>3, AuthorFacts
  <2>. QED
    BY <1>1, <1>3, <2>1, <2>2, <2>3, <2>6, <2>7, WriteTold
<1>4. CASE /\ table[s] # None /\ Answer(p, TRUE, <<>>, row.messages)
           /\ table' = [table EXCEPT ![s] = row]
           /\ By(p, {"messages"}, {s})
  <2>1. table[s] \in Rows /\ table \in [Sessions -> Rows \cup {None}]
    BY <1>1, <1>4, Holds DEF Tables
  <2>2. table[s].messages \in Seq({0} \cup Writes) /\ table[s].name \in Names
    BY <2>1, RowFacts DEF Messages
  <2>3. texts \in Messages /\ texts # <<>>
    <3>1. /\ texts \in Seq({0} \cup Writes)
          /\ Len(texts) = Len(table[s].messages) + 1 /\ Len(table[s].messages) \in Nat
      BY <1>1, <2>2, Appended
    <3>2. Len(texts) # 0
      BY <3>1
    <3> HIDE DEF texts
    <3>. QED
      BY <3>1, <3>2 DEF Messages
  <2> HIDE DEF texts
  <2>4. row.name = table[s].name /\ row.messages = texts /\ row # None
    <3>1. row = [name |-> table[s].name, messages |-> texts]
      BY <2>1, RowWith
    <3>. QED
      BY <2>2, <2>3, <3>1, RowFacts
  <2>5. texts \in MaybeMessages /\ <<>> \in Summaries /\ Answer(p, TRUE, <<>>, texts)
    BY <1>4, <2>3, <2>4, NamedTypes DEF MaybeMessages
  <2>6. PICK r \in Requests, a \in Replies : Tells(p, r, a) /\ Says(a, <<>>, texts) /\ a.ok
    BY <1>1, <2>5, AnswerYes
  <2>7. /\ r.op = "append" /\ r.session = s /\ a.op = "append" /\ a.session = s
        /\ a.messages = texts
    BY <1>1, <2>6 DEF Tells, Says
  <2> HIDE DEF s, row
  <2>8. Carries(a)
    BY <2>3, <2>7 DEF Carries
  <2>9. ~SaysName(a, s) /\ ~Loads(a, s) /\ Is(r, {"append"}, s)
    BY <2>7 DEF SaysName, Loads, Is
  <2>10. table'[s] = row /\ \A t \in Sessions \ {s} : table'[t] = table[t]
    BY <1>1, <1>4, <2>1
  <2>11. /\ Row(table', s) = Row(table, s) /\ Row(table, s) # None
         /\ Texts(table', s) = texts
    BY <1>1, <1>4, <2>2, <2>4, <2>10, RowFacts DEF Row, Texts
  <2>12. /\ author' \in Authors
         /\ author'.name[s] = author.name[s] /\ author'.messages[s] = p
         /\ \A t \in Sessions \ {s} : /\ author'.name[t] = author.name[t]
                                      /\ author'.messages[t] = author.messages[t]
    BY <1>1, <1>4, AuthorBy
  <2>13. Effect(p, s, r, a)
    BY <2>3, <2>6, <2>7, <2>9, <2>11, <2>12 DEF Effect, Truthful, ChangesRow, Moves
  <2>. QED
    BY <1>1, <2>6, <2>7, <2>8, <2>10, <2>12, <2>13, WriteTold
<1>. QED
  BY Zenon, <1>2, <1>3, <1>4

\* Every request is answered with what the tables say once it is served.
LEMMA ServeTold ==
  ASSUME CacheInv, FlowTyped, CopyTyped, NEW p \in Processes, Serve(p)
  PROVE  Told(p)
BY EnsureTold, LoadTold, RenameTold, ClearTold, DeleteTold, AppendTold, PageTold, SummaryTold,
   LastIdTold, ListTold DEF Serve

-----------------------------------------------------------------------------
(* What a process hears: one reply is taken off, and its copy takes in what  *)
(* that reply says.                                                          *)

Hears(p, r, c2) ==
  /\ replies[p] # <<>> /\ r = Head(replies[p])
  /\ replies' = [replies EXCEPT ![p] = Tail(replies[p])]
  /\ copy' = [copy EXCEPT ![p] = c2]
  /\ \/ wire' = wire /\ ~(r.op = "append" /\ r.ok)
     \/ \E x \in Requests :
          /\ x.awaited /\ x.session = r.session
          /\ IF r.op = "append" THEN r.ok /\ x.op = "reload" ELSE x.op \in {"summary", "lastId"}
          /\ wire' = [wire EXCEPT ![p] = Append(wire[p], x)]
  /\ UNCHANGED <<table, author, raced>>
  /\ \A s \in Sessions : Heard(s, copy[p], c2, r)

LEMMA HeadReply ==
  ASSUME FlowTyped, CopyTyped, NEW p \in Processes, replies[p] # <<>>
  PROVE  /\ \E r \in Replies : r = Head(replies[p]) /\ Fits(r) /\ Carries(r)
         /\ replies[p] \in Seq(Replies)
<1>1. replies[p] \in Seq(Replies)
  BY DEF FlowTyped
<1>2. Head(replies[p]) \in Replies /\ Head(replies[p]) \in ToSet(replies[p])
  BY <1>1, TakenOff
<1>. QED
  BY <1>1, <1>2 DEF FlowTyped, CopyTyped

\* a reply after which nothing is sent
LEMMA HearsLast ==
  ASSUME FlowTyped, CopyTyped, NEW p \in Processes, replies[p] # <<>>,
         NEW r \in Replies, r = Head(replies[p]), NEW c2 \in Copies,
         copy' = [copy EXCEPT ![p] = c2], Taken(p), Unsent, Unheard,
         ~(r.op = "append" /\ r.ok), \A s \in Sessions : Heard(s, copy[p], c2, r)
  PROVE  Hears(p, r, c2)
BY DEF Hears, Taken, Unsent, Unheard, ghosts

LEMMA HearsNext ==
  ASSUME FlowTyped, CopyTyped, NEW p \in Processes, replies[p] # <<>>,
         NEW r \in Replies, r = Head(replies[p]), NEW c2 \in Copies,
         copy' = [copy EXCEPT ![p] = c2], Taken(p), Unheard, NEW op,
         NEW w \in {0} \cup Writes, SendNext(p, op, r.session, w), r.session \in Sessions,
         IF r.op = "append" THEN r.ok /\ op = "reload" /\ w \in Writes
         ELSE op \in {"summary", "lastId"} /\ w = 0,
         \A s \in Sessions : Heard(s, copy[p], c2, r)
  PROVE  Hears(p, r, c2)
<1>1. Sent(op, r.session) /\ IF op \in ReadOps THEN w = 0 ELSE w \in Writes
  BY DEF Sent, ReadOps, SessionReads, SessionWrites
<1>2. PICK x \in Requests : x = Request(op, r.session, w, DefaultName)
  BY <1>1, RequestTypes, SessionStateAssumption
<1>3. x.op = op /\ x.session = r.session /\ x.awaited
  BY <1>2 DEF Request
<1>4. wire' = [wire EXCEPT ![p] = Append(wire[p], x)]
  BY <1>2 DEF SendNext
<1>5. /\ x.awaited /\ x.session = r.session
      /\ IF r.op = "append" THEN r.ok /\ x.op = "reload" ELSE x.op \in {"summary", "lastId"}
      /\ wire' = [wire EXCEPT ![p] = Append(wire[p], x)]
  BY <1>3, <1>4
<1>. QED
  BY <1>5 DEF Hears, Taken, Unheard, ghosts

\* what r does not say stays
LEMMA HeardNothing ==
  ASSUME NEW s \in Sessions, NEW c, NEW c2, NEW r, s \notin Touches(r),
         c2.names[s] = c.names[s], c2.messages[s] = c.messages[s],
         c2.page[s] = c.page[s], c2.last[s] = c.last[s]
  PROVE  Heard(s, c, c2, r)
BY DEF Heard, Touches, SaysName, Loads, Grows, Is

LEMMA NameHeard ==
  ASSUME FlowTyped, CopyTyped, NEW p \in Processes, replies[p] # <<>>,
         NEW r \in Replies, r = Head(replies[p]), Fits(r), Carries(r),
         r.op \in {"ensure", "rename", "clear", "summary"},
         copy' = [copy EXCEPT ![p].names[r.session] =
                    IF r.names[r.session] = None THEN @ ELSE r.names[r.session]],
         Taken(p), Unsent, Unheard
  PROVE  \E c2 \in Copies : Hears(p, r, c2)
<1> DEFINE c == copy[p]
           s == r.session
           v == IF r.names[s] = None THEN c.names[s] ELSE r.names[s]
           c2 == [c EXCEPT !.names[s] = v]
<1>1. c \in Copies /\ s \in Sessions /\ r.names \in [{s} -> MaybeName]
  BY CopyOfProcess DEF Fits, Carries, SessionWrites, SessionReads
<1>2. copy' = [copy EXCEPT ![p] = c2]
  BY DEF CopyTyped
<1>3. v \in MaybeName
  BY <1>1, CopyFields
<1>4. c2 \in Copies /\ c2.names = [c.names EXCEPT ![s] = v]
      /\ c2.messages = c.messages /\ c2.page = c.page /\ c2.last = c.last
  BY <1>1, <1>3, CopyNames
<1> HIDE DEF c2
<1>5. \A t \in Sessions : c2.names[t] = IF t = s THEN v ELSE c.names[t]
  BY <1>1, <1>4, CopyFields
<1>6. \A t \in Sessions : Heard(t, c, c2, r)
  <2> TAKE t \in Sessions
  <2>1. CASE t = s
    <3>1. SaysName(r, t) /\ ~Loads(r, t) /\ ~Is(r, {"page"}, t) /\ ~Grows(r, t)
          /\ ~Is(r, {"lastId"}, t) /\ r.op # "list"
      BY <2>1 DEF SaysName, Loads, Grows, Is
    <3>. QED
      BY Zenon, <1>4, <1>5, <2>1, <3>1 DEF Heard
  <2>2. CASE t # s
    <3>1. t \notin Touches(r)
      BY <2>2 DEF Touches
    <3>. QED
      BY Zenon, <1>4, <1>5, <2>2, <3>1, HeardNothing
  <2>. QED
    BY <2>1, <2>2
<1> HIDE DEF c
<1>7. Hears(p, r, c2)
  BY <1>2, <1>4, <1>6, HearsLast DEF c
<1>. QED
  BY <1>4, <1>7

LEMMA NothingHeard ==
  ASSUME FlowTyped, CopyTyped, NEW p \in Processes, replies[p] # <<>>,
         NEW r \in Replies, r = Head(replies[p]),
         r.op \in {"delete", "deleteAll"} \/ (r.op = "append" /\ ~r.ok),
         copy' = copy, Taken(p), Unsent, Unheard
  PROVE  \E c2 \in Copies : Hears(p, r, c2)
<1>1. copy[p] \in Copies /\ copy' = [copy EXCEPT ![p] = copy[p]]
  BY DEF CopyTyped
<1>2. \A t \in Sessions : Heard(t, copy[p], copy[p], r)
  BY DEF Heard, SaysName, Loads, Grows, Is
<1>3. ~(r.op = "append" /\ r.ok)
  OBVIOUS
<1>4. Hears(p, r, copy[p])
  BY <1>1, <1>2, <1>3, HearsLast
<1>. QED
  BY <1>1, <1>4

LEMMA LastTypes ==
  ASSUME NEW last \in Ids, NEW m \in Messages
  PROVE  FromPage(last, m) \in Ids /\ LastOf(m) \in Ids
BY LastOfTypes DEF FromPage

LEMMA AppendedHeard ==
  ASSUME FlowTyped, CopyTyped, NEW p \in Processes, replies[p] # <<>>,
         NEW r \in Replies, r = Head(replies[p]), Fits(r), Carries(r), ReceiveAppended(p)
  PROVE  \E c2 \in Copies : Hears(p, r, c2)
<1> DEFINE c == copy[p]
           s == r.session
           v == FromPage(c.last[s], r.messages)
           c2 == [c EXCEPT !.last[s] = v]
<1>1. r.op = "append" /\ r.ok
  BY DEF ReceiveAppended, Received
<1>2. /\ copy' = [copy EXCEPT ![p].last[s] = FromPage(@, r.messages)]
      /\ Taken(p) /\ SendNext(p, "reload", s, r.write) /\ Unheard
  BY DEF ReceiveAppended
<1>3. /\ c \in Copies /\ s \in Sessions /\ r.messages \in Messages /\ r.write \in Writes
  BY <1>1, CopyOfProcess DEF Fits, Carries, SessionWrites
<1>4. copy' = [copy EXCEPT ![p] = c2]
  BY <1>2 DEF CopyTyped
<1>5. v \in Ids
  BY <1>3, CopyFields, LastTypes
<1> HIDE DEF v
<1>6. c2 \in Copies /\ c2.last = [c.last EXCEPT ![s] = v]
      /\ c2.names = c.names /\ c2.messages = c.messages /\ c2.page = c.page
  BY <1>3, <1>5, CopyLast
<1> HIDE DEF c2
<1>7. \A t \in Sessions : c2.last[t] = IF t = s THEN v ELSE c.last[t]
  BY <1>3, <1>6, CopyFields
<1>8. \A t \in Sessions : Heard(t, c, c2, r)
  <2> TAKE t \in Sessions
  <2>1. CASE t = s
    <3>1. ~SaysName(r, t) /\ ~Loads(r, t) /\ ~Is(r, {"page"}, t) /\ Grows(r, t)
      BY <1>1, <2>1 DEF SaysName, Loads, Grows, Is
    <3>. QED
      BY <1>6, <1>7, <2>1, <3>1 DEF Heard, v
  <2>2. CASE t # s
    <3>1. t \notin Touches(r)
      BY <1>1, <2>2 DEF Touches
    <3>. QED
      BY <1>6, <1>7, <2>2, <3>1, HeardNothing
  <2>. QED
    BY <2>1, <2>2
<1> HIDE DEF c
<1>9. Hears(p, r, c2)
  BY <1>1, <1>2, <1>3, <1>4, <1>6, <1>8, HearsNext DEF c
<1>. QED
  BY <1>6, <1>9

LEMMA LoadHeard ==
  ASSUME NEW c \in Copies, NEW r \in Replies, r.op \in {"load", "reload"},
         r.session \in Sessions, r.names \in [{r.session} -> MaybeName]
  PROVE  /\ Cached(c, r.session, r.names[r.session], r.messages) \in Copies
         /\ \A t \in Sessions : Heard(t, c, Cached(c, r.session, r.names[r.session], r.messages), r)
<1> DEFINE s == r.session
           n == r.names[s]
           d == [c EXCEPT !.names[s] = n]
           e == [d EXCEPT !.messages[s] = r.messages]
           c2 == Cached(c, s, n, r.messages)
<1>1. /\ n \in MaybeName /\ r.messages \in MaybeMessages /\ s \in Sessions
      /\ ~Is(r, {"page"}, s) /\ ~Grows(r, s) /\ ~Is(r, {"lastId"}, s)
      /\ SaysName(r, s) /\ (Loads(r, s) <=> n # None) /\ r.op # "list"
  BY DEF Replies, Is, Grows, SaysName, Loads
<1>2. CASE n = None
  <2>1. c2 = c
    BY <1>2 DEF Cached
  <2>2. \A t \in Sessions : Heard(t, c, c, r)
    <3> TAKE t \in Sessions
    <3>1. CASE t = s
      BY <1>1, <1>2, <3>1 DEF Heard
    <3>2. CASE t # s
      <4>1. t \notin Touches(r)
        BY <3>2 DEF Touches
      <4>. QED
        BY <4>1, HeardNothing
    <3>. QED
      BY <3>1, <3>2
  <2>. QED
    BY <2>1, <2>2
<1>3. CASE n # None
  <2>1. c2 = [c EXCEPT !.names[s] = n, !.messages[s] = r.messages]
    BY <1>3 DEF Cached
  <2>2. c2 = e
    BY <2>1, CopyFields
  <2>3. /\ d \in Copies /\ d.names = [c.names EXCEPT ![s] = n]
        /\ d.messages = c.messages /\ d.page = c.page /\ d.last = c.last
    BY <1>1, CopyNames
  <2> HIDE DEF d, n
  <2>4. /\ e \in Copies /\ e.messages = [d.messages EXCEPT ![s] = r.messages]
        /\ e.names = d.names /\ e.page = d.page /\ e.last = d.last
    BY <1>1, <2>3, CopyMessages
  <2> HIDE DEF e
  <2>5. /\ \A t \in Sessions : e.names[t] = IF t = s THEN n ELSE c.names[t]
        /\ \A t \in Sessions : e.messages[t] = IF t = s THEN r.messages ELSE c.messages[t]
        /\ e.page = c.page /\ e.last = c.last
    BY <1>1, <2>3, <2>4, CopyFields
  <2>6. \A t \in Sessions : Heard(t, c, e, r)
    <3> TAKE t \in Sessions
    <3>1. CASE t = s
      BY <1>1, <1>3, <2>5, <3>1 DEF Heard, n
    <3>2. CASE t # s
      <4>1. t \notin Touches(r)
        BY <3>2 DEF Touches
      <4>. QED
        BY <2>5, <3>2, <4>1, HeardNothing
    <3>. QED
      BY <3>1, <3>2
  <2>. QED
    BY <2>2, <2>4, <2>6 DEF n
<1>. QED
  BY <1>2, <1>3

LEMMA LoadedHeard ==
  ASSUME FlowTyped, CopyTyped, NEW p \in Processes, replies[p] # <<>>,
         NEW r \in Replies, r = Head(replies[p]), Fits(r), Carries(r),
         ReceiveLoaded(p) \/ ReceiveReloaded(p)
  PROVE  \E c2 \in Copies : Hears(p, r, c2)
<1> DEFINE c == copy[p]
           s == r.session
           c2 == Cached(c, s, r.names[s], r.messages)
<1>1. /\ copy' = [copy EXCEPT ![p] = Cached(copy[p], s, r.names[s], r.messages)]
      /\ Taken(p) /\ Unheard
      /\ \/ r.op = "load" /\ SendNext(p, "lastId", s, 0)
         \/ r.op = "reload" /\ Unsent
  BY DEF ReceiveLoaded, ReceiveReloaded, Received
<1>2. /\ r.op \in {"load", "reload"} /\ s \in Sessions /\ r.names \in [{s} -> MaybeName]
      /\ copy[p] \in Copies
  BY <1>1, CopyOfProcess DEF Fits, Carries, SessionWrites, SessionReads
<1>3. PICK c1 \in Copies : c1 = copy[p]
  BY <1>2
<1>4. /\ Cached(c1, s, r.names[s], r.messages) \in Copies
      /\ \A t \in Sessions : Heard(t, c1, Cached(c1, s, r.names[s], r.messages), r)
  BY <1>2, LoadHeard
<1>5. PICK c3 \in Copies : c3 = Cached(c1, s, r.names[s], r.messages)
  BY <1>4
<1>6. /\ copy' = [copy EXCEPT ![p] = c3]
      /\ \A t \in Sessions : Heard(t, copy[p], c3, r)
  BY <1>1, <1>3, <1>4, <1>5
<1>7. CASE r.op = "load" /\ SendNext(p, "lastId", s, 0)
  BY <1>1, <1>2, <1>6, <1>7, HearsNext
<1>8. CASE r.op = "reload" /\ Unsent
  BY <1>1, <1>6, <1>8, HearsLast
<1>. QED
  BY <1>1, <1>7, <1>8

LEMMA LastIdHeard ==
  ASSUME FlowTyped, CopyTyped, NEW p \in Processes, replies[p] # <<>>,
         NEW r \in Replies, r = Head(replies[p]), Fits(r), Carries(r), ReceiveLastId(p)
  PROVE  \E c2 \in Copies : Hears(p, r, c2)
<1> DEFINE c == copy[p]
           s == r.session
           v == LastOf(r.messages)
           c2 == [c EXCEPT !.last[s] = v]
<1>1. r.op = "lastId"
  BY DEF ReceiveLastId, Received
<1>2. /\ copy' = [copy EXCEPT ![p].last[s] = v]
      /\ Taken(p) /\ Unsent /\ Unheard
  BY DEF ReceiveLastId
<1>3. c \in Copies /\ s \in Sessions /\ r.messages \in Messages
  BY <1>1, CopyOfProcess DEF Fits, Carries, SessionReads
<1>4. copy' = [copy EXCEPT ![p] = c2]
  BY <1>2 DEF CopyTyped
<1>5. v \in Ids
  BY <1>3, LastOfTypes
<1> HIDE DEF v
<1>6. c2 \in Copies /\ c2.last = [c.last EXCEPT ![s] = v]
      /\ c2.names = c.names /\ c2.messages = c.messages /\ c2.page = c.page
  BY <1>3, <1>5, CopyLast
<1> HIDE DEF c2
<1>7. \A t \in Sessions : c2.last[t] = IF t = s THEN v ELSE c.last[t]
  BY <1>3, <1>6, CopyFields
<1>8. \A t \in Sessions : Heard(t, c, c2, r)
  <2> TAKE t \in Sessions
  <2>1. CASE t = s
    <3>1. /\ ~SaysName(r, t) /\ ~Loads(r, t) /\ ~Is(r, {"page"}, t) /\ ~Grows(r, t)
          /\ Is(r, {"lastId"}, t)
      BY <1>1, <2>1 DEF SaysName, Loads, Grows, Is
    <3>. QED
      BY <1>6, <1>7, <2>1, <3>1 DEF Heard, v
  <2>2. CASE t # s
    <3>1. t \notin Touches(r)
      BY <1>1, <2>2 DEF Touches
    <3>. QED
      BY <1>6, <1>7, <2>2, <3>1, HeardNothing
  <2>. QED
    BY <2>1, <2>2
<1> HIDE DEF c
<1>9. Hears(p, r, c2)
  BY <1>1, <1>2, <1>4, <1>6, <1>8, HearsLast DEF c
<1>. QED
  BY <1>6, <1>9

LEMMA PageHeard ==
  ASSUME FlowTyped, CopyTyped, NEW p \in Processes, replies[p] # <<>>,
         NEW r \in Replies, r = Head(replies[p]), Fits(r), Carries(r), ReceivePage(p)
  PROVE  \E c2 \in Copies : Hears(p, r, c2)
<1> DEFINE c == copy[p]
           s == r.session
           v == FromPage(c.last[s], r.messages)
           d == [c EXCEPT !.page[s] = r.messages]
           c2 == [d EXCEPT !.last[s] = v]
<1>1. r.op = "page"
  BY DEF ReceivePage, Received
<1>2. /\ copy' = [copy EXCEPT ![p].page[s] = r.messages, ![p].last[s] = FromPage(@, r.messages)]
      /\ Taken(p) /\ SendNext(p, "summary", s, 0) /\ Unheard
  BY DEF ReceivePage
<1>3. /\ c \in Copies /\ s \in Sessions /\ r.messages \in Messages
      /\ r.messages \in MaybeMessages
  BY <1>1, CopyOfProcess DEF Fits, Carries, SessionReads, MaybeMessages
<1>4. copy' = [copy EXCEPT ![p] = c2]
  <2>1. copy' = [copy EXCEPT ![p] = [[c EXCEPT !.page[s] = r.messages] EXCEPT
                                       !.last[s] = FromPage(@, r.messages)]]
    BY <1>2 DEF CopyTyped
  <2>2. [c EXCEPT !.page[s] = r.messages].last = c.last
    BY <1>3, CopyPage
  <2>. QED
    BY <2>1, <2>2
<1>5. v \in Ids
  BY <1>3, CopyFields, LastTypes
<1> HIDE DEF v
<1>6. /\ d \in Copies /\ d.page = [c.page EXCEPT ![s] = r.messages]
      /\ d.names = c.names /\ d.messages = c.messages /\ d.last = c.last
  BY <1>3, CopyPage
<1> HIDE DEF d
<1>7. /\ c2 \in Copies /\ c2.last = [d.last EXCEPT ![s] = v]
      /\ c2.names = d.names /\ c2.messages = d.messages /\ c2.page = d.page
  BY <1>3, <1>5, <1>6, CopyLast
<1> HIDE DEF c2
<1>8. /\ \A t \in Sessions : c2.last[t] = IF t = s THEN v ELSE c.last[t]
      /\ \A t \in Sessions : c2.page[t] = IF t = s THEN r.messages ELSE c.page[t]
      /\ c2.names = c.names /\ c2.messages = c.messages
  BY <1>3, <1>6, <1>7, CopyFields
<1>9. \A t \in Sessions : Heard(t, c, c2, r)
  <2> TAKE t \in Sessions
  <2>1. CASE t = s
    <3>1. ~SaysName(r, t) /\ ~Loads(r, t) /\ Is(r, {"page"}, t) /\ ~Grows(r, t)
      BY <1>1, <2>1 DEF SaysName, Loads, Grows, Is
    <3>. QED
      BY <1>8, <2>1, <3>1 DEF Heard, v
  <2>2. CASE t # s
    <3>1. t \notin Touches(r)
      BY <1>1, <2>2 DEF Touches
    <3>. QED
      BY <1>8, <2>2, <3>1, HeardNothing
  <2>. QED
    BY <2>1, <2>2
<1> HIDE DEF c
<1>10. Hears(p, r, c2)
  BY <1>1, <1>2, <1>3, <1>4, <1>7, <1>9, HearsNext DEF c
<1>. QED
  BY <1>7, <1>10

LEMMA ListHeard ==
  ASSUME FlowTyped, CopyTyped, NEW p \in Processes, replies[p] # <<>>,
         NEW r \in Replies, r = Head(replies[p]), Fits(r), Carries(r), ReceiveList(p)
  PROVE  \E c2 \in Copies : Hears(p, r, c2)
<1> DEFINE c == copy[p]
           c2 == [c EXCEPT !.names = r.names]
<1>1. r.op = "list"
  BY DEF ReceiveList, Received
<1>2. /\ copy' = [copy EXCEPT ![p].names = r.names]
      /\ Taken(p) /\ Unsent /\ Unheard
  BY DEF ReceiveList
<1>3. c \in Copies /\ r.names \in [Sessions -> MaybeName]
  BY <1>1, CopyOfProcess DEF Carries
<1>4. copy' = [copy EXCEPT ![p] = c2]
  BY <1>2 DEF CopyTyped
<1>5. c2 = [names |-> r.names, messages |-> c.messages, page |-> c.page, last |-> c.last]
  BY <1>3, CopyFields
<1>6. c2 \in Copies
  BY <1>3, <1>5, CopyFields, CopyOf
<1>7. /\ c2.names = r.names
      /\ c2.messages = c.messages /\ c2.page = c.page /\ c2.last = c.last
  BY <1>5
<1> HIDE DEF c, c2
<1>8. \A t \in Sessions : Heard(t, c, c2, r)
  BY <1>1, <1>7 DEF Heard, SaysName, Loads, Grows, Is
<1>9. Hears(p, r, c2)
  BY <1>1, <1>2, <1>4, <1>6, <1>8, HearsLast DEF c
<1>. QED
  BY <1>6, <1>9

\* Whatever arrives, the copy takes in what the reply says and nothing else.
LEMMA ReceiveHears ==
  ASSUME FlowTyped, CopyTyped, NEW p \in Processes, Receive(p)
  PROVE  \E r \in Replies, c2 \in Copies : Hears(p, r, c2)
<1>1. replies[p] # <<>>
  BY ReceiveCases
<1>2. PICK r \in Replies : r = Head(replies[p]) /\ Fits(r) /\ Carries(r)
  BY <1>1, HeadReply
<1>3. CASE ReceiveSummaryOfWrite(p)
  <2>1. /\ r.op \in {"ensure", "rename", "clear"}
        /\ copy' = [copy EXCEPT ![p].names[r.session] =
                      IF r.names[r.session] = None THEN @ ELSE r.names[r.session]]
        /\ Taken(p) /\ Unsent /\ Unheard
    BY <1>2, <1>3 DEF ReceiveSummaryOfWrite, Received
  <2>. QED
    BY <1>1, <1>2, <2>1, NameHeard
<1>4. CASE ReceiveSummary(p)
  <2>1. /\ r.op = "summary"
        /\ copy' = [copy EXCEPT ![p].names[r.session] =
                      IF r.names[r.session] = None THEN @ ELSE r.names[r.session]]
        /\ Taken(p) /\ Unsent /\ Unheard
    BY <1>2, <1>4 DEF ReceiveSummary, Received
  <2>. QED
    BY <1>1, <1>2, <2>1, NameHeard
<1>5. CASE ReceiveDeleted(p) \/ ReceiveError(p)
  <2>1. r.op \in {"delete", "deleteAll"} \/ (r.op = "append" /\ ~r.ok)
    BY <1>2, <1>5 DEF ReceiveDeleted, ReceiveError, Received, Fits
  <2>2. copy' = copy /\ Taken(p) /\ Unsent /\ Unheard
    BY <1>5 DEF ReceiveDeleted, ReceiveError
  <2>. QED
    BY <1>1, <1>2, <2>1, <2>2, NothingHeard
<1>6. CASE ReceiveAppended(p)
  BY <1>1, <1>2, <1>6, AppendedHeard
<1>7. CASE ReceiveLoaded(p) \/ ReceiveReloaded(p)
  BY <1>1, <1>2, <1>7, LoadedHeard
<1>8. CASE ReceiveLastId(p)
  BY <1>1, <1>2, <1>8, LastIdHeard
<1>9. CASE ReceivePage(p)
  BY <1>1, <1>2, <1>9, PageHeard
<1>10. CASE ReceiveList(p)
  BY <1>1, <1>2, <1>10, ListHeard
<1>. QED
  BY <1>3, <1>4, <1>5, <1>6, <1>7, <1>8, <1>9, <1>10 DEF Receive

-----------------------------------------------------------------------------
(* The invariant of own writes, and every step.                              *)

OwnOf(p, s) ==
  \E an \in BOOLEAN, am \in BOOLEAN :
    /\ an <=> author.name[s] = p
    /\ am <=> author.messages[s] = p
    /\ Own(s, wire[p], replies[p], copy[p], Row(table, s), Texts(table, s), an, am)
OwnAll == \A p \in Processes : \A s \in Sessions \ raced[p] : OwnOf(p, s)
OwnInv == CopyTyped /\ OwnAll

LEMMA OwnNow ==
  ASSUME NEW p \in Processes, NEW s \in Sessions, NEW an \in BOOLEAN, NEW am \in BOOLEAN,
         an <=> author'.name[s] = p, am <=> author'.messages[s] = p,
         Own(s, wire'[p], replies'[p], copy'[p], Row(table', s), Texts(table', s), an, am)
  PROVE  OwnOf(p, s)'
BY DEF OwnOf

LEMMA OwnStays ==
  ASSUME NEW p \in Processes, NEW s \in Sessions, OwnOf(p, s),
         wire'[p] = wire[p], replies'[p] = replies[p], copy'[p] = copy[p], table' = table,
         author'.name[s] = p <=> author.name[s] = p,
         author'.messages[s] = p <=> author.messages[s] = p
  PROVE  OwnOf(p, s)'
<1>1. PICK an \in BOOLEAN, am \in BOOLEAN :
        /\ an <=> author.name[s] = p
        /\ am <=> author.messages[s] = p
        /\ Own(s, wire[p], replies[p], copy[p], Row(table, s), Texts(table, s), an, am)
  BY DEF OwnOf
<1>2. Own(s, wire'[p], replies'[p], copy'[p], Row(table', s), Texts(table', s), an, am)
  BY <1>1
<1>3. (an <=> author'.name[s] = p) /\ (am <=> author'.messages[s] = p)
  BY <1>1
<1>. QED
  BY <1>2, <1>3, OwnNow

LEMMA CallKeepsOwn ==
  ASSUME FlowTyped, OwnInv, NEW p \in Processes, Calls(p)
  PROVE  OwnInv'
<1>1. CopyTyped /\ OwnAll
  BY DEF OwnInv
<1>2. PICK r \in Requests, c2 \in Copies : Sends(p, r, c2)
  BY <1>1, CallSends
<1>3. /\ wire' = [wire EXCEPT ![p] = Append(wire[p], r)]
      /\ copy' = [copy EXCEPT ![p] = c2]
      /\ table' = table /\ replies' = replies /\ author' = author
      /\ raced' \in [Processes -> SUBSET Sessions] /\ raced[p] \subseteq raced'[p]
      /\ \A q \in Processes \ {p} : raced'[q] = raced[q]
      /\ \A s \in Sessions \ raced'[p] : Called(s, wire[p], replies[p], copy[p], c2, r)
  BY <1>2 DEF Sends
<1>4. wire[p] \in Seq(Requests) /\ wire \in [Processes -> Seq(Requests)]
      /\ copy \in [Processes -> Copies]
  BY <1>1 DEF FlowTyped, CopyTyped
<1>5. /\ wire'[p] = Append(wire[p], r) /\ copy'[p] = c2 /\ replies'[p] = replies[p]
      /\ copy' \in [Processes -> Copies]
      /\ \A q \in Processes \ {p} : wire'[q] = wire[q] /\ copy'[q] = copy[q]
  BY <1>3, <1>4
<1>6. CopyTyped'
  BY <1>1, <1>3, <1>5 DEF CopyTyped
<1>7. Plus(wire'[p], wire[p], r)
  BY <1>4, <1>5, PlusAppend
<1>8. ASSUME NEW s \in Sessions, s \notin raced'[p] PROVE OwnOf(p, s)'
  <2>1. OwnOf(p, s)
    BY <1>1, <1>3, <1>8 DEF OwnAll
  <2>2. PICK an \in BOOLEAN, am \in BOOLEAN :
          /\ an <=> author.name[s] = p
          /\ am <=> author.messages[s] = p
          /\ Own(s, wire[p], replies[p], copy[p], Row(table, s), Texts(table, s), an, am)
    BY <2>1 DEF OwnOf
  <2>3. Called(s, wire[p], replies[p], copy[p], c2, r)
    BY <1>3, <1>8
  <2>4. Own(s, wire'[p], replies[p], c2, Row(table, s), Texts(table, s), an, am)
    BY <1>7, <2>2, <2>3, OwnCall
  <2>5. Own(s, wire'[p], replies'[p], copy'[p], Row(table', s), Texts(table', s), an, am)
    BY <1>3, <1>5, <2>4
  <2>. QED
    BY <1>3, <2>2, <2>5, OwnNow
<1>9. ASSUME NEW q \in Processes \ {p}, NEW s \in Sessions, s \notin raced'[q] PROVE OwnOf(q, s)'
  <2>1. OwnOf(q, s)
    BY <1>1, <1>3, <1>9 DEF OwnAll
  <2>. QED
    BY <1>3, <1>5, <2>1, OwnStays
<1>10. \A q \in Processes : \A s \in Sessions \ raced'[q] : OwnOf(q, s)'
  BY <1>8, <1>9
<1>. QED
  BY <1>6, <1>10 DEF OwnInv, OwnAll

LEMMA ServeKeepsOwn ==
  ASSUME CacheInv, FlowTyped, OwnInv, NEW p \in Processes, Serve(p)
  PROVE  OwnInv'
<1>1. CopyTyped /\ OwnAll
  BY DEF OwnInv
<1>2. Told(p)
  BY <1>1, ServeTold
<1>3. PICK r \in Requests, a \in Replies :
        /\ Tells(p, r, a) /\ Carries(a) /\ author' \in Authors
        /\ \A s \in Sessions : Effect(p, s, r, a)
  BY <1>2 DEF Told
<1>4. /\ wire[p] # <<>> /\ r = Head(wire[p])
      /\ a.op = r.op /\ a.session = r.session
      /\ wire' = [wire EXCEPT ![p] = Tail(wire[p])]
      /\ replies' = IF r.awaited THEN [replies EXCEPT ![p] = Append(replies[p], a)] ELSE replies
      /\ copy' = copy /\ raced' = raced
  BY <1>3 DEF Tells
<1>5. /\ wire \in [Processes -> Seq(Requests)] /\ replies \in [Processes -> Seq(Replies)]
      /\ wire[p] \in Seq(Requests) /\ replies[p] \in Seq(Replies)
  BY DEF FlowTyped
<1>6. /\ wire'[p] = Tail(wire[p])
      /\ replies'[p] = IF r.awaited THEN Append(replies[p], a) ELSE replies[p]
      /\ \A q \in Processes \ {p} : wire'[q] = wire[q] /\ replies'[q] = replies[q]
  BY <1>4, <1>5
<1>7. Less(wire'[p], wire[p], r)
  BY <1>4, <1>5, <1>6, LessTail
<1>8. Replied(replies'[p], replies[p], r, a)
  <2>1. Plus(Append(replies[p], a), replies[p], a)
    BY <1>5, PlusAppend
  <2>. QED
    BY <1>4, <1>6, <2>1 DEF Replied
<1>9. \A s \in Sessions : Numbered(s, r)
  <2>1. IF r.op \in ReadOps THEN r.write = 0 ELSE r.write \in Writes
    BY RequestFacts
  <2>2. r.op \in {"ensure", "rename", "clear", "append", "reload"} => r.write \in Writes
    BY <2>1 DEF ReadOps, SessionReads
  <2>3. 0 \notin Writes
    BY DEF Writes
  <2>. QED
    BY <2>2, <2>3 DEF Numbered, Is
<1>10. CopyTyped'
  <2>1. ToSet(Append(replies[p], a)) = ToSet(replies[p]) \cup {a}
    BY <1>5, Appended
  <2>2. \A q \in Processes : \A x \in ToSet(replies'[q]) : Carries(x)
    BY <1>1, <1>3, <1>6, <2>1 DEF CopyTyped
  <2>. QED
    BY <1>1, <1>3, <1>4, <2>2 DEF CopyTyped
<1>11. ASSUME NEW s \in Sessions, s \notin raced'[p] PROVE OwnOf(p, s)'
  <2>1. OwnOf(p, s)
    BY <1>1, <1>4, <1>11 DEF OwnAll
  <2>2. PICK an \in BOOLEAN, am \in BOOLEAN :
          /\ an <=> author.name[s] = p
          /\ am <=> author.messages[s] = p
          /\ Own(s, wire[p], replies[p], copy[p], Row(table, s), Texts(table, s), an, am)
    BY <2>1 DEF OwnOf
  <2>3. PICK an2 \in BOOLEAN : an2 <=> author'.name[s] = p
    OBVIOUS
  <2>4. PICK am2 \in BOOLEAN : am2 <=> author'.messages[s] = p
    OBVIOUS
  <2>5. PICK n : n = Row(table, s)
    OBVIOUS
  <2>6. PICK m : m = Texts(table, s)
    OBVIOUS
  <2>7. PICK n2 : n2 = Row(table', s)
    OBVIOUS
  <2>8. PICK m2 : m2 = Texts(table', s)
    OBVIOUS
  <2>9. Effect(p, s, r, a)
    BY <1>3
  <2>10. Truthful(a, s, n2, m2)
    BY <2>7, <2>8, <2>9 DEF Effect
  <2>11. ChangesRow(s, r, a, n, m, an, am, n2, m2, an2, am2)
    BY <2>2, <2>3, <2>4, <2>5, <2>6, <2>7, <2>8, <2>9 DEF Effect, ChangesRow
  <2>12. Own(s, wire[p], replies[p], copy[p], n, m, an, am)
    BY <2>2, <2>5, <2>6
  <2>13. Own(s, wire'[p], replies'[p], copy[p], n2, m2, an2, am2)
    BY <1>7, <1>8, <1>9, <2>10, <2>11, <2>12, OwnServed
  <2>14. Own(s, wire'[p], replies'[p], copy'[p], Row(table', s), Texts(table', s), an2, am2)
    BY <1>4, <2>7, <2>8, <2>13
  <2>. QED
    BY <2>3, <2>4, <2>14, OwnNow
<1>12. ASSUME NEW q \in Processes \ {p}, NEW s \in Sessions, s \notin raced'[q] PROVE OwnOf(q, s)'
  <2>1. OwnOf(q, s)
    BY <1>1, <1>4, <1>12 DEF OwnAll
  <2>2. PICK an \in BOOLEAN, am \in BOOLEAN :
          /\ an <=> author.name[s] = q
          /\ am <=> author.messages[s] = q
          /\ Own(s, wire[q], replies[q], copy[q], Row(table, s), Texts(table, s), an, am)
    BY <2>1 DEF OwnOf
  <2>3. PICK an2 \in BOOLEAN : an2 <=> author'.name[s] = q
    OBVIOUS
  <2>4. PICK am2 \in BOOLEAN : am2 <=> author'.messages[s] = q
    OBVIOUS
  <2>5. PICK n : n = Row(table, s)
    OBVIOUS
  <2>6. PICK m : m = Texts(table, s)
    OBVIOUS
  <2>7. PICK n2 : n2 = Row(table', s)
    OBVIOUS
  <2>8. PICK m2 : m2 = Texts(table', s)
    OBVIOUS
  <2>9. Moves(p, s)
    BY <1>3 DEF Effect
  <2>10. Own(s, wire[q], replies[q], copy[q], n, m, an, am)
    BY <2>2, <2>5, <2>6
  <2>11. n = None => (an <=> am)
    BY <2>10 DEF Own
  <2>12. \/ n2 = n /\ m2 = m /\ (an2 <=> an) /\ (am2 <=> am)
         \/ n2 # None /\ m2 = m /\ ~an2 /\ (am2 <=> am)
         \/ n2 # None /\ n2 = n /\ (an2 <=> an) /\ ~am2
         \/ ~an2 /\ ~am2
    BY <1>12, <2>2, <2>3, <2>4, <2>5, <2>6, <2>7, <2>8, <2>9 DEF Moves
  <2>13. /\ an2 => an /\ n2 = n
         /\ am2 => am /\ m2 = m /\ (n # None => n2 # None)
         /\ n2 = None => (an2 <=> am2)
    BY <2>11, <2>12
  <2>14. Own(s, wire[q], replies[q], copy[q], n2, m2, an2, am2)
    BY <2>10, <2>13, OwnElse
  <2>15. Own(s, wire'[q], replies'[q], copy'[q], Row(table', s), Texts(table', s), an2, am2)
    BY <1>4, <1>6, <2>7, <2>8, <2>14
  <2>. QED
    BY <2>3, <2>4, <2>15, OwnNow
<1>13. \A q \in Processes : \A s \in Sessions \ raced'[q] : OwnOf(q, s)'
  BY <1>11, <1>12
<1>. QED
  BY <1>10, <1>13 DEF OwnInv, OwnAll

LEMMA ReceiveKeepsOwn ==
  ASSUME FlowTyped, OwnInv, NEW p \in Processes, Receive(p)
  PROVE  OwnInv'
<1>1. CopyTyped /\ OwnAll
  BY DEF OwnInv
<1>2. PICK r \in Replies, c2 \in Copies : Hears(p, r, c2)
  BY <1>1, ReceiveHears
<1>3. /\ replies[p] # <<>> /\ r = Head(replies[p])
      /\ replies' = [replies EXCEPT ![p] = Tail(replies[p])]
      /\ copy' = [copy EXCEPT ![p] = c2]
      /\ \/ wire' = wire /\ ~(r.op = "append" /\ r.ok)
         \/ \E x \in Requests :
              /\ x.awaited /\ x.session = r.session
              /\ IF r.op = "append" THEN r.ok /\ x.op = "reload" ELSE x.op \in {"summary", "lastId"}
              /\ wire' = [wire EXCEPT ![p] = Append(wire[p], x)]
      /\ table' = table /\ author' = author /\ raced' = raced
      /\ \A s \in Sessions : Heard(s, copy[p], c2, r)
  BY <1>2 DEF Hears
<1>4. /\ wire \in [Processes -> Seq(Requests)] /\ replies \in [Processes -> Seq(Replies)]
      /\ wire[p] \in Seq(Requests) /\ replies[p] \in Seq(Replies)
      /\ copy \in [Processes -> Copies]
  BY <1>1 DEF FlowTyped, CopyTyped
<1>5. /\ replies'[p] = Tail(replies[p]) /\ copy'[p] = c2
      /\ copy' \in [Processes -> Copies]
      /\ \A q \in Processes \ {p} : /\ wire'[q] = wire[q] /\ replies'[q] = replies[q]
                                    /\ copy'[q] = copy[q]
  BY <1>3, <1>4
<1>6. Less(replies'[p], replies[p], r)
  BY <1>3, <1>4, <1>5, LessTail
<1>7. Continues(wire'[p], wire[p], r)
  <2>1. CASE wire' = wire /\ ~(r.op = "append" /\ r.ok)
    BY <2>1 DEF Continues
  <2>2. CASE \E x \in Requests :
              /\ x.awaited /\ x.session = r.session
              /\ IF r.op = "append" THEN r.ok /\ x.op = "reload" ELSE x.op \in {"summary", "lastId"}
              /\ wire' = [wire EXCEPT ![p] = Append(wire[p], x)]
    <3>1. PICK x \in Requests :
              /\ x.awaited /\ x.session = r.session
              /\ IF r.op = "append" THEN r.ok /\ x.op = "reload" ELSE x.op \in {"summary", "lastId"}
              /\ wire' = [wire EXCEPT ![p] = Append(wire[p], x)]
      BY <2>2
    <3>2. wire'[p] = Append(wire[p], x)
      BY <1>4, <3>1
    <3>3. Plus(wire'[p], wire[p], x)
      BY <1>4, <3>2, PlusAppend
    <3>. QED
      BY <3>1, <3>3 DEF Continues
  <2>. QED
    BY <1>3, <2>1, <2>2
<1>8. CopyTyped'
  <2>1. ToSet(Tail(replies[p])) \subseteq ToSet(replies[p])
    BY <1>3, <1>4, TakenOff
  <2>2. \A q \in Processes : \A x \in ToSet(replies'[q]) : Carries(x)
    BY <1>1, <1>5, <2>1 DEF CopyTyped
  <2>. QED
    BY <1>1, <1>3, <1>5, <2>2 DEF CopyTyped
<1>9. Len(wire[p]) \in Nat
  BY <1>4, LenProperties
<1>10. ASSUME NEW s \in Sessions, s \notin raced'[p] PROVE OwnOf(p, s)'
  <2>1. OwnOf(p, s)
    BY <1>1, <1>3, <1>10 DEF OwnAll
  <2>2. PICK an \in BOOLEAN, am \in BOOLEAN :
          /\ an <=> author.name[s] = p
          /\ am <=> author.messages[s] = p
          /\ Own(s, wire[p], replies[p], copy[p], Row(table, s), Texts(table, s), an, am)
    BY <2>1 DEF OwnOf
  <2>3. Heard(s, copy[p], c2, r)
    BY <1>3
  <2>4. Own(s, wire'[p], replies'[p], c2, Row(table, s), Texts(table, s), an, am)
    BY <1>6, <1>7, <1>9, <2>2, <2>3, OwnHeard
  <2>5. Own(s, wire'[p], replies'[p], copy'[p], Row(table', s), Texts(table', s), an, am)
    BY <1>3, <1>5, <2>4
  <2>. QED
    BY <1>3, <2>2, <2>5, OwnNow
<1>11. ASSUME NEW q \in Processes \ {p}, NEW s \in Sessions, s \notin raced'[q] PROVE OwnOf(q, s)'
  <2>1. OwnOf(q, s)
    BY <1>1, <1>3, <1>11 DEF OwnAll
  <2>. QED
    BY <1>3, <1>5, <2>1, OwnStays
<1>12. \A q \in Processes : \A s \in Sessions \ raced'[q] : OwnOf(q, s)'
  BY <1>10, <1>11
<1>. QED
  BY <1>8, <1>12 DEF OwnInv, OwnAll
\* what stays when a request is not awaited any more
LEMMA Unawaited ==
  ASSUME NEW r \in Requests
  PROVE  LET x == [r EXCEPT !.awaited = FALSE]
         IN  x.op = r.op /\ x.session = r.session /\ x.write = r.write /\ ~x.awaited
BY DEF Sent, ReadOps, Requests, SessionWrites, SessionReads


\* a reply that is not awaited any more
LEMMA ForgetsAt ==
  ASSUME NEW s \in Sessions, NEW w \in Seq(Requests), NEW i \in 1..Len(w),
         ~(w[i].session = s /\ w[i].write # 0)
  PROVE  Forgets(s, [w EXCEPT ![i] = [w[i] EXCEPT !.awaited = FALSE]], w)
<1> DEFINE x == [w[i] EXCEPT !.awaited = FALSE]
           w2 == [w EXCEPT ![i] = x]
<1>1. w[i] \in Requests /\ DOMAIN w = 1..Len(w) /\ Len(w) \in Nat
  BY ElementOfSeq, Held
<1>2. x.op = w[i].op /\ x.session = w[i].session /\ x.write = w[i].write /\ ~x.awaited
  BY <1>1, Unawaited
<1>3. x \in Requests
  BY <1>1, RequestFacts
<1> HIDE DEF x
<1>4. w2 \in Seq(Requests) /\ Len(w2) = Len(w)
  BY <1>1, <1>3, ExceptSeq
<1>5. \A k \in 1..Len(w) : w2[k] = IF k = i THEN x ELSE w[k]
  BY <1>1
<1> HIDE DEF w2
<1>6. Forgets(s, w2, w)
  BY <1>2, <1>4, <1>5 DEF Forgets
<1>. QED
  BY <1>6 DEF w2, x

LEMMA LosesAt ==
  ASSUME NEW s \in Sessions, NEW q \in Seq(Replies), NEW i \in 1..Len(q), Fits(q[i]),
         ~(q[i].session = s /\ q[i].write # 0)
  PROVE  Loses(s, RemoveAt(q, i), q, i)
<1>1. /\ Len(RemoveAt(q, i)) = Len(q) - 1 /\ Len(q) \in Nat
      /\ \A k \in 1..(Len(q) - 1) : RemoveAt(q, i)[k] = IF k < i THEN q[k] ELSE q[k + 1]
  BY RemovedItems
<1>2. ~Is(q[i], {"ensure", "rename", "clear", "append", "reload"}, s)
  <2>1. 0 \notin Writes
    BY DEF Writes
  <2>. QED
    BY <2>1 DEF Is, Fits, SessionWrites
<1>. QED
  BY <1>1, <1>2 DEF Loses

LEMMA TimeoutKeepsOwn ==
  ASSUME FlowTyped, OwnInv, NEW p \in Processes, RequestTimesOut(p)
  PROVE  OwnInv'
<1>1. CopyTyped /\ OwnAll
  BY DEF OwnInv
<1>2. /\ table' = table /\ copy' = copy /\ author' = author
      /\ \/ \E i \in DOMAIN wire[p] :
              /\ GiveUp(p, wire[p][i])
              /\ wire' = [wire EXCEPT ![p] = [wire[p] EXCEPT ![i] = [wire[p][i] EXCEPT !.awaited = FALSE]]]
              /\ replies' = replies
         \/ \E i \in DOMAIN replies[p] :
              /\ GiveUp(p, replies[p][i])
              /\ replies' = [replies EXCEPT ![p] = RemoveAt(replies[p], i)]
              /\ wire' = wire
  BY DEF RequestTimesOut
<1>3. /\ wire \in [Processes -> Seq(Requests)] /\ replies \in [Processes -> Seq(Replies)]
      /\ wire[p] \in Seq(Requests) /\ replies[p] \in Seq(Replies)
      /\ DOMAIN wire[p] = 1..Len(wire[p]) /\ DOMAIN replies[p] = 1..Len(replies[p])
      /\ raced \in [Processes -> SUBSET Sessions]
  BY <1>1, Held DEF FlowTyped, CopyTyped
<1>4. ASSUME NEW x, GiveUp(p, x)
      PROVE  /\ raced' \in [Processes -> SUBSET Sessions]
             /\ \A q \in Processes \ {p} : raced'[q] = raced[q]
             /\ raced[p] \subseteq raced'[p]
             /\ \A s \in Sessions \ raced'[p] : ~(x.session = s /\ x.write # 0)
  <2>1. CASE x.write = 0
    BY <1>3, <1>4, <2>1 DEF GiveUp
  <2>2. CASE x.write # 0
    <3> DEFINE new == raced[p] \cup ({x.session} \cap Sessions)
    <3>1. raced' = [raced EXCEPT ![p] = new]
      BY <1>4, <2>2 DEF GiveUp
    <3>2. new \subseteq Sessions
      BY <1>3
    <3>3. raced'[p] = new /\ \A q \in Processes \ {p} : raced'[q] = raced[q]
      BY <1>3, <3>1
    <3>4. raced' \in [Processes -> SUBSET Sessions]
      <4> HIDE DEF new
      <4>. QED
        BY <1>3, <3>1, <3>2
    <3>. QED
      BY <3>3, <3>4
  <2>. QED
    BY <2>1, <2>2
<1>5. ASSUME NEW i \in 1..Len(wire[p]), GiveUp(p, wire[p][i]), replies' = replies,
             wire' = [wire EXCEPT ![p] = [wire[p] EXCEPT ![i] = [wire[p][i] EXCEPT !.awaited = FALSE]]]
      PROVE  OwnInv'
  <2>1. PICK w \in Seq(Requests) : w = wire[p]
    BY <1>3
  <2>2. /\ wire'[p] = [w EXCEPT ![i] = [w[i] EXCEPT !.awaited = FALSE]]
        /\ \A q \in Processes \ {p} : wire'[q] = wire[q]
    BY <1>3, <1>5, <2>1
  <2>3. /\ raced' \in [Processes -> SUBSET Sessions]
        /\ \A q \in Processes \ {p} : raced'[q] = raced[q]
        /\ raced[p] \subseteq raced'[p]
        /\ \A s \in Sessions \ raced'[p] : ~(w[i].session = s /\ w[i].write # 0)
    BY <1>4, <1>5, <2>1
  <2>4. ASSUME NEW s \in Sessions, s \notin raced'[p] PROVE OwnOf(p, s)'
    <3>1. OwnOf(p, s)
      BY <1>1, <2>3, <2>4 DEF OwnAll
    <3>2. PICK an \in BOOLEAN, am \in BOOLEAN :
            /\ an <=> author.name[s] = p
            /\ am <=> author.messages[s] = p
            /\ Own(s, wire[p], replies[p], copy[p], Row(table, s), Texts(table, s), an, am)
      BY <3>1 DEF OwnOf
    <3>3. i \in 1..Len(w) /\ ~(w[i].session = s /\ w[i].write # 0)
      BY <2>1, <2>3, <2>4
    <3>4. Forgets(s, wire'[p], wire[p])
      BY <2>1, <2>2, <3>3, ForgetsAt
    <3>5. Own(s, wire'[p], replies[p], copy[p], Row(table, s), Texts(table, s), an, am)
      BY <3>2, <3>4, OwnForgets
    <3>6. Own(s, wire'[p], replies'[p], copy'[p], Row(table', s), Texts(table', s), an, am)
      BY <1>2, <1>5, <3>5
    <3>. QED
      BY <1>2, <3>2, <3>6, OwnNow
  <2>5. ASSUME NEW q \in Processes \ {p}, NEW s \in Sessions, s \notin raced'[q]
        PROVE  OwnOf(q, s)'
    <3>1. OwnOf(q, s)
      BY <1>1, <2>3, <2>5 DEF OwnAll
    <3>. QED
      BY <1>2, <1>5, <2>2, <3>1, OwnStays
  <2>6. CopyTyped'
    BY <1>1, <1>2, <1>5, <2>3 DEF CopyTyped
  <2>7. \A q \in Processes : \A s \in Sessions \ raced'[q] : OwnOf(q, s)'
    BY <2>4, <2>5
  <2>. QED
    BY <2>6, <2>7 DEF OwnInv, OwnAll
<1>6. ASSUME NEW i \in 1..Len(replies[p]), GiveUp(p, replies[p][i]), wire' = wire,
             replies' = [replies EXCEPT ![p] = RemoveAt(replies[p], i)]
      PROVE  OwnInv'
  <2>1. PICK r \in Seq(Replies) : r = replies[p]
    BY <1>3
  <2>2. /\ replies'[p] = RemoveAt(r, i)
        /\ \A q \in Processes \ {p} : replies'[q] = replies[q]
    BY <1>3, <1>6, <2>1
  <2>3. /\ raced' \in [Processes -> SUBSET Sessions]
        /\ \A q \in Processes \ {p} : raced'[q] = raced[q]
        /\ raced[p] \subseteq raced'[p]
        /\ \A s \in Sessions \ raced'[p] : ~(r[i].session = s /\ r[i].write # 0)
    BY <1>4, <1>6, <2>1
  <2>4. i \in 1..Len(r) /\ Fits(r[i])
    BY <1>6, <2>1, Held DEF FlowTyped
  <2>5. ASSUME NEW s \in Sessions, s \notin raced'[p] PROVE OwnOf(p, s)'
    <3>1. OwnOf(p, s)
      BY <1>1, <2>3, <2>5 DEF OwnAll
    <3>2. PICK an \in BOOLEAN, am \in BOOLEAN :
            /\ an <=> author.name[s] = p
            /\ am <=> author.messages[s] = p
            /\ Own(s, wire[p], replies[p], copy[p], Row(table, s), Texts(table, s), an, am)
      BY <3>1 DEF OwnOf
    <3>3. ~(r[i].session = s /\ r[i].write # 0)
      BY <2>3, <2>5
    <3>4. Loses(s, replies'[p], replies[p], i)
      BY <2>1, <2>2, <2>4, <3>3, LosesAt
    <3>5. Own(s, wire[p], replies'[p], copy[p], Row(table, s), Texts(table, s), an, am)
      BY <3>2, <3>4, OwnLoses
    <3>6. Own(s, wire'[p], replies'[p], copy'[p], Row(table', s), Texts(table', s), an, am)
      BY <1>2, <1>6, <3>5
    <3>. QED
      BY <1>2, <3>2, <3>6, OwnNow
  <2>6. ASSUME NEW q \in Processes \ {p}, NEW s \in Sessions, s \notin raced'[q]
        PROVE  OwnOf(q, s)'
    <3>1. OwnOf(q, s)
      BY <1>1, <2>3, <2>6 DEF OwnAll
    <3>. QED
      BY <1>2, <1>6, <2>2, <3>1, OwnStays
  <2>7. CopyTyped'
    <3>1. ToSet(RemoveAt(r, i)) \subseteq ToSet(r)
      BY <2>4, Removed
    <3>2. \A q \in Processes : \A x \in ToSet(replies'[q]) : Carries(x)
      BY <1>1, <2>1, <2>2, <3>1 DEF CopyTyped
    <3>. QED
      BY <1>1, <1>2, <2>3, <3>2 DEF CopyTyped
  <2>8. \A q \in Processes : \A s \in Sessions \ raced'[q] : OwnOf(q, s)'
    BY <2>5, <2>6
  <2>. QED
    BY <2>7, <2>8 DEF OwnInv, OwnAll
<1>. QED
  BY <1>2, <1>3, <1>5, <1>6

LEMMA OwnBegins ==
  ASSUME NEW s, NEW c, NEW n, NEW m, NEW an \in BOOLEAN, NEW am \in BOOLEAN, ~an, ~am
  PROVE  Own(s, <<>>, <<>>, c, n, m, an, am)
<1>1. 1..Len(<<>>) = {}
  OBVIOUS
<1>. QED
  BY <1>1 DEF Own, Tracked, Wiped, Grown, Deleted

LEMMA FreshKeepsOwn ==
  ASSUME OwnInv, NEW ps \in SUBSET Processes, Fresh(ps)
  PROVE  OwnInv'
<1>1. CopyTyped /\ OwnAll
  BY DEF OwnInv
<1>2. /\ table' = table
      /\ copy' = [p \in Processes |-> IF p \in ps THEN EmptyCopy ELSE copy[p]]
      /\ wire' = [p \in Processes |-> IF p \in ps THEN <<>> ELSE wire[p]]
      /\ replies' = [p \in Processes |-> IF p \in ps THEN <<>> ELSE replies[p]]
      /\ raced' = [p \in Processes |-> IF p \in ps THEN {} ELSE raced[p]]
      /\ author' = [c \in {"name", "messages"} |->
           [s \in Sessions |-> IF author[c][s] \in ps THEN None ELSE author[c][s]]]
  BY DEF Fresh
<1>3. /\ author.name \in [Sessions -> Processes \cup {None}]
      /\ author.messages \in [Sessions -> Processes \cup {None}]
      /\ author["name"] = author.name /\ author["messages"] = author.messages
  BY <1>1, AuthorFacts
<1>4. /\ author'.name = [s \in Sessions |-> IF author.name[s] \in ps THEN None ELSE author.name[s]]
      /\ author'.messages =
           [s \in Sessions |-> IF author.messages[s] \in ps THEN None ELSE author.messages[s]]
  BY <1>2, <1>3
<1>5. author' \in Authors
  <2>1. \A c \in {"name", "messages"} : author[c] \in [Sessions -> Processes \cup {None}]
    BY <1>3
  <2>. QED
    BY <1>2, <2>1 DEF Authors
<1>6. CopyTyped'
  <2>1. copy' \in [Processes -> Copies]
    BY <1>1, <1>2, NothingKnown DEF CopyTyped
  <2>2. raced' \in [Processes -> SUBSET Sessions]
    BY <1>1, <1>2 DEF CopyTyped
  <2>3. ToSet(<<>>) = {}
    BY DEF ToSet
  <2>4. \A p \in Processes : \A r \in ToSet(replies'[p]) : Carries(r)
    BY <1>1, <1>2, <2>3 DEF CopyTyped
  <2>. QED
    BY <1>5, <2>1, <2>2, <2>4 DEF CopyTyped
<1>7. ASSUME NEW p \in Processes, NEW s \in Sessions, s \notin raced'[p] PROVE OwnOf(p, s)'
  <2>1. CASE p \in ps
    <3>1. author'.name[s] # p /\ author'.messages[s] # p
      BY <1>3, <1>4, <2>1, SessionStateAssumption
    <3>2. wire'[p] = <<>> /\ replies'[p] = <<>>
      BY <1>2, <2>1
    <3>3. PICK an \in BOOLEAN : ~an
      OBVIOUS
    <3>4. Own(s, <<>>, <<>>, copy'[p], Row(table', s), Texts(table', s), an, an)
      BY <3>3, OwnBegins
    <3>5. Own(s, wire'[p], replies'[p], copy'[p], Row(table', s), Texts(table', s), an, an)
      BY <3>2, <3>4
    <3>6. (an <=> author'.name[s] = p) /\ (an <=> author'.messages[s] = p)
      BY <3>1, <3>3
    <3>. QED
      BY <3>5, <3>6, OwnNow
  <2>2. CASE p \notin ps
    <3>1. /\ wire'[p] = wire[p] /\ replies'[p] = replies[p] /\ copy'[p] = copy[p]
          /\ raced'[p] = raced[p]
      BY <1>2, <2>2
    <3>2. /\ author'.name[s] = p <=> author.name[s] = p
          /\ author'.messages[s] = p <=> author.messages[s] = p
      BY <1>3, <1>4, <2>2, SessionStateAssumption
    <3>3. OwnOf(p, s)
      BY <1>1, <1>7, <3>1 DEF OwnAll
    <3>. QED
      BY <1>2, <3>1, <3>2, <3>3, OwnStays
  <2>. QED
    BY <2>1, <2>2
<1>. QED
  BY <1>6, <1>7 DEF OwnInv, OwnAll

LEMMA OwnUntouched ==
  ASSUME OwnInv, UNCHANGED <<table, copy, wire, replies, author, raced>>
  PROVE  OwnInv'
<1>1. CopyTyped /\ OwnAll
  BY DEF OwnInv
<1>2. CopyTyped'
  BY <1>1 DEF CopyTyped
<1>3. ASSUME NEW p \in Processes, NEW s \in Sessions, s \notin raced'[p] PROVE OwnOf(p, s)'
  <2>1. OwnOf(p, s)
    BY <1>1, <1>3 DEF OwnAll
  <2>. QED
    BY <2>1, OwnStays
<1>. QED
  BY <1>2, <1>3 DEF OwnInv, OwnAll

LEMMA InitOwn ==
  ASSUME Init
  PROVE  OwnInv
<1>1. table \in Tables
  BY InitInv DEF SessionInv, CacheInv, True
<1>2. \A s \in Sessions : Row(table, s) \in MaybeName
  BY <1>1, RowFacts DEF Row, Tables, MaybeName
<1>3. copy \in [Processes -> Copies]
  <2> DEFINE names == [s \in Sessions |-> Row(table, s)]
  <2>1. names \in [Sessions -> MaybeName]
    BY <1>2
  <2>2. EmptyCopy \in Copies
    BY NothingKnown
  <2> HIDE DEF names
  <2>3. [EmptyCopy EXCEPT !.names = names]
          = [names |-> names, messages |-> EmptyCopy.messages, page |-> EmptyCopy.page,
             last |-> EmptyCopy.last]
    BY <2>2, CopyFields
  <2>4. [EmptyCopy EXCEPT !.names = names] \in Copies
    BY <2>1, <2>2, <2>3, CopyFields, CopyOf
  <2>5. copy \in [Processes -> {EmptyCopy, [EmptyCopy EXCEPT !.names = names]}]
    BY DEF Init, names
  <2>. QED
    BY <2>2, <2>4, <2>5
<1>4. /\ author = [name |-> Nothing, messages |-> Nothing]
      /\ raced = [p \in Processes |-> {}]
      /\ wire = [p \in Processes |-> <<>>] /\ replies = [p \in Processes |-> <<>>]
  BY DEF Init
<1>5. author \in Authors
  <2>1. Nothing \in [Sessions -> Processes \cup {None}]
    BY DEF Nothing
  <2> HIDE DEF Nothing
  <2>. QED
    BY <1>4, <2>1 DEF Authors
<1>6. \A s \in Sessions : author.name[s] = None /\ author.messages[s] = None
  BY <1>4 DEF Nothing
<1>7. CopyTyped
  <2>1. ToSet(<<>>) = {}
    BY DEF ToSet
  <2>2. \A p \in Processes : \A r \in ToSet(replies[p]) : Carries(r)
    BY <1>4, <2>1
  <2>. QED
    BY <1>3, <1>4, <1>5, <2>2 DEF CopyTyped
<1>8. ASSUME NEW p \in Processes, NEW s \in Sessions PROVE OwnOf(p, s)
  <2>1. author.name[s] # p /\ author.messages[s] # p
    BY <1>6, SessionStateAssumption
  <2>2. wire[p] = <<>> /\ replies[p] = <<>>
    BY <1>4
  <2>3. PICK an \in BOOLEAN : ~an
    OBVIOUS
  <2>4. Own(s, <<>>, <<>>, copy[p], Row(table, s), Texts(table, s), an, an)
    BY <2>3, OwnBegins
  <2>5. Own(s, wire[p], replies[p], copy[p], Row(table, s), Texts(table, s), an, an)
    BY <2>2, <2>4
  <2>6. (an <=> author.name[s] = p) /\ (an <=> author.messages[s] = p)
    BY <2>1, <2>3
  <2>. QED
    BY <2>5, <2>6 DEF OwnOf
<1>. QED
  BY <1>7, <1>8 DEF OwnInv, OwnAll

LEMMA OwnStep ==
  ASSUME SessionInv, OwnInv, [Next]_vars
  PROVE  OwnInv'
<1>1. CacheInv /\ FlowTyped
  BY DEF SessionInv, FlowInv
<1>2. ASSUME NEW p \in Processes, Calls(p) PROVE OwnInv'
  BY <1>1, <1>2, CallKeepsOwn
<1>3. ASSUME NEW p \in Processes, Serve(p) PROVE OwnInv'
  BY <1>1, <1>3, ServeKeepsOwn
<1>4. ASSUME NEW p \in Processes, Receive(p) PROVE OwnInv'
  BY <1>1, <1>4, ReceiveKeepsOwn
<1>5. ASSUME NEW p \in Processes, RequestTimesOut(p) PROVE OwnInv'
  BY <1>1, <1>5, TimeoutKeepsOwn
<1>6. ASSUME NEW p \in Processes, FlushAtOnce(p) PROVE OwnInv'
  BY <1>6, OwnUntouched DEF FlushAtOnce, Throw
<1>7. ASSUME NEW p \in Processes, NEW f \in Flushes,
             StartFlush(p, f) \/ FlushAgain(p, f) \/ FlushDone(p, f)
      PROVE  OwnInv'
  BY <1>7, OwnUntouched DEF StartFlush, FlushAgain, FlushDone, TakeBatch, Throw, ghosts
<1>8. ASSUME NEW p \in Processes, ProcessReplaced(p) PROVE OwnInv'
  <2>1. {p} \in SUBSET Processes /\ Fresh({p})
    BY <1>8 DEF ProcessReplaced
  <2>. QED
    BY <2>1, FreshKeepsOwn
<1>9. ASSUME QueueReplaced PROVE OwnInv'
  <2>1. Processes \in SUBSET Processes /\ Fresh(Processes)
    BY <1>9 DEF QueueReplaced
  <2>. QED
    BY <2>1, FreshKeepsOwn
<1>10. ASSUME UNCHANGED vars PROVE OwnInv'
  BY <1>10, OwnUntouched DEF vars
<1>. QED
  BY <1>2, <1>3, <1>4, <1>5, <1>6, <1>7, <1>8, <1>9, <1>10 DEF Next, FlushStep

\* Once every reply of a process has arrived its copy shows its own last write of a session,
\* and what it deleted or cleared has not come back, outside the races OwnWritesShow names.
\* Each thing the copy may show is either right or put right by a reply still on its way, and
\* no reply that says something older comes after that one.
THEOREM OwnWritesAreShown == Spec => []OwnWritesShow
<1>1. Init => SessionInv /\ OwnInv
  BY InitInv, InitOwn
<1>2. SessionInv /\ OwnInv /\ [Next]_vars => SessionInv' /\ OwnInv'
  BY InvStep, OwnStep
<1>3. SessionInv /\ OwnInv => OwnWritesShow
  <2> SUFFICES ASSUME SessionInv, OwnInv, NEW p \in Processes, NEW s \in Sessions,
                      wire[p] = <<>>, replies[p] = <<>>, s \notin raced[p]
               PROVE  /\ author.name[s] = p => copy[p].names[s] = Row(table, s)
                      /\ author.messages[s] = p =>
                           /\ copy[p].messages[s] \in
                                IF table[s] = None THEN {None} ELSE {None, Texts(table, s)}
                           /\ copy[p].page[s] \in {None, Texts(table, s)}
                           /\ copy[p].last[s] \in {None, LastOf(Texts(table, s))}
    BY DEF OwnWritesShow, Row, Texts
  <2>1. OwnOf(p, s) /\ CacheInv
    BY DEF OwnInv, OwnAll, SessionInv
  <2>2. PICK an \in BOOLEAN, am \in BOOLEAN :
          /\ an <=> author.name[s] = p
          /\ am <=> author.messages[s] = p
          /\ Own(s, wire[p], replies[p], copy[p], Row(table, s), Texts(table, s), an, am)
    BY <2>1 DEF OwnOf
  <2>3. Own(s, <<>>, <<>>, copy[p], Row(table, s), Texts(table, s), an, am)
    BY <2>2
  <2>4. 1..Len(<<>>) = {}
    OBVIOUS
  <2>5. an => copy[p].names[s] = Row(table, s)
    BY <2>3, <2>4 DEF Own, NameShows, Mended
  <2>6. am => \/ copy[p].messages[s] = None
              \/ Row(table, s) # None /\ copy[p].messages[s] = Texts(table, s)
    BY <2>3, <2>4 DEF Own, MessagesShow, Mended
  <2>7. am => copy[p].page[s] \in {None, Texts(table, s)}
    BY <2>3 DEF Own, PageShows
  <2>8. am => copy[p].last[s] \in {None, LastOf(Texts(table, s))}
    BY <2>3, <2>4 DEF Own, LastShows, Mended
  <2>9. table[s] = None <=> Row(table, s) = None
    BY <2>1, RowTypes
  <2>. QED
    BY <2>2, <2>5, <2>6, <2>7, <2>8, <2>9
<1>. QED
  BY <1>1, <1>2, <1>3, PTL DEF Spec

===============================================================================
