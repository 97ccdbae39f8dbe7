------------------------------ MODULE SessionState ------------------------------
(***************************************************************************)
(* The sessions and their messages: the sessions and messages tables       *)
(* (SqliteSessionStateStore), the cache queue-service keeps in front of    *)
(* them (QueueSessionCache) and the copy each other process has            *)
(* (RemoteSessionStateStore in the agent and the web).                     *)
(*                                                                         *)
(* A process changes its copy at once, sends the request and remembers the *)
(* promise; flush waits for the promises.  queue-service answers the       *)
(* requests of one socket in their order, each in one step, and what a     *)
(* reply says was true when the request was served, not when the reply     *)
(* arrives.  A request may time out on its side and be served all the      *)
(* same, and a process may be replaced with requests on the wire.          *)
(*                                                                         *)
(* A batch of messages is one message, named after the write that appends  *)
(* it; the id of its row is the message itself (rows are numbered in the   *)
(* order they are inserted).  A page is the tail page, and holds the whole *)
(* session.  Of a row, a summary or a loaded session only the name and the *)
(* messages are kept.  The sessions are conversations without a parent:    *)
(* each is published in the list, no insert fails for want of its parent,  *)
(* and a delete takes no parent from another row.                          *)
(*                                                                         *)
(* Definitions named X_y are faulty variants of X, used only to test the   *)
(* properties; no specification uses them.                                 *)
(***************************************************************************)
EXTENDS Naturals, Sequences, SequencesExt

CONSTANTS
  Processes,     \* the agent and the web
  Sessions,      \* conversation ids
  Names,         \* names a session may be given
  DefaultName,   \* the generated name of a new session
  Flushes,       \* calls of flush that may run at once in one process
  MaxWrites,     \* bound: tracked requests, over all processes
  MaxReads,      \* bound: preloads
  MaxMishaps,    \* bound: timeouts and replaced processes, together
  MaxEvents,     \* bound: all of these together
  None           \* no session, no copy, nobody

Writes == 1..MaxWrites

\* the messages of a session, 0 for those of earlier runs, and its row
Messages == Seq({0} \cup Writes)
Rows == [name : Names, messages : Messages]

ASSUME SessionStateAssumption ==
  /\ DefaultName \in Names
  /\ MaxWrites \in Nat /\ MaxReads \in Nat /\ MaxMishaps \in Nat /\ MaxEvents \in Nat
  /\ None \notin Names /\ None \notin Writes /\ None \notin Processes
  /\ None \notin Messages /\ None \notin Rows
  /\ \A batch \in SUBSET Writes : batch # None

VARIABLES
  table,      \* the rows of each session: its name and its messages
  cache,      \* QueueSessionCache: summaries, loadedSessions, pageCache
  copy,       \* of each process: summaries, sessions, pages, lastMessageIds
  wire,       \* requests each process has sent, in order
  replies,    \* replies on their way to each process
  pending,    \* tracked writes no flush has taken and that are not settled
  running,    \* the batch each flush under way waits for
  errors,     \* of each process: the failed writes not yet thrown
  used,       \* how much of each bound is used
  mine,       \* history: the writes each process, as it now runs, has issued
  stored,     \* history: writes the table has taken in
  thrown,     \* history: writes whose failure a flush has thrown
  author,     \* history: who last changed the name, the messages of a session
  raced       \* history: sessions a process wrote while a reply it had asked
              \* for earlier was still out, or whose request timed out

ghosts == <<mine, stored, thrown, author, raced>>
vars == <<table, cache, copy, wire, replies, pending, running, errors, used,
          mine, stored, thrown, author, raced>>

--------------------------------------------------------------------------------
(* Initial state                                                           *)

Nothing == [s \in Sessions |-> None]
EmptyCache == [names |-> Nothing, loaded |-> Nothing, page |-> Nothing, listed |-> FALSE]
EmptyCopy == [names |-> Nothing, messages |-> Nothing, page |-> Nothing, last |-> Nothing]

\* the rows of earlier runs: no session, or sessions with one message
Row(t, s) == IF t[s] = None THEN None ELSE t[s].name
EarlierTables == {Nothing, [s \in Sessions |-> [name |-> DefaultName, messages |-> <<0>>]]}

\* a process knows nothing yet, or has run preloadAll
Init ==
  /\ table \in EarlierTables
  /\ cache = EmptyCache
  /\ copy \in [Processes -> {EmptyCopy, [EmptyCopy EXCEPT !.names = [s \in Sessions |-> Row(table, s)]]}]
  /\ wire = [p \in Processes |-> <<>>]
  /\ replies = [p \in Processes |-> <<>>]
  /\ pending = [p \in Processes |-> {}]
  /\ running = [p \in Processes |-> [f \in Flushes |-> None]]
  /\ errors = [p \in Processes |-> <<>>]
  /\ used = [writes |-> 0, reads |-> 0, mishaps |-> 0]
  /\ mine = [p \in Processes |-> {}]
  /\ stored = {} /\ thrown = {}
  /\ author = [name |-> Nothing, messages |-> Nothing]
  /\ raced = [p \in Processes |-> {}]

--------------------------------------------------------------------------------
(* The copy of a process                                                   *)

Awaited(p) == {r \in ToSet(wire[p]) \cup ToSet(replies[p]) : r.awaited}

\* the sessions the reply to r may put back into the copy
Touches(r) ==
  CASE r.op = "list" -> Sessions
    [] r.op \in {"delete", "deleteAll"} -> {}
    [] OTHER -> {r.session}

InFlight(p) == UNION {Touches(r) : r \in Awaited(p)}

\* a request that nobody tracks has the write 0
Request(op, s, w, n) == [op |-> op, session |-> s, write |-> w, name |-> n, awaited |-> TRUE]

Allowed == used.writes + used.reads + used.mishaps < MaxEvents

\* client.request, and the promise goes to track
Track(p, op, s, n) ==
  LET w == used.writes + 1 IN
  /\ used.writes < MaxWrites /\ Allowed
  /\ used' = [used EXCEPT !.writes = w]
  /\ wire' = [wire EXCEPT ![p] = Append(@, Request(op, s, w, n))]
  /\ pending' = [pending EXCEPT ![p] = @ \cup {w}]
  /\ mine' = [mine EXCEPT ![p] = @ \cup {w}]
  /\ UNCHANGED <<table, cache, replies, running, errors, stored, thrown, author>>

\* ensureLogicalSessionRecord asks only for a session it does not know
EnsureSession(p, s) ==
  /\ copy[p].names[s] = None
  /\ copy' = [copy EXCEPT ![p].names[s] = DefaultName]
  /\ UNCHANGED raced
  /\ Track(p, "ensure", s, DefaultName)

RenameSession(p, s, n) ==
  /\ copy[p].names[s] # None
  /\ copy' = [copy EXCEPT ![p].names[s] = n]
  /\ UNCHANGED raced
  /\ Track(p, "rename", s, n)

\* mutant: the id of the last message is kept
Emptied_keepLast(c, s) == [c EXCEPT !.messages[s] = None, !.page[s] = None]

\* what clearSession and deleteSession leave of a session in the copy
Emptied(c, s) == [c EXCEPT !.messages[s] = None, !.page[s] = None, !.last[s] = None]

\* SessionManager.clear ensures a session it does not know first: that is
\* EnsureSession
ClearSession(p, s) ==
  /\ copy[p].names[s] # None
  /\ copy' = [copy EXCEPT ![p] = Emptied(@, s)]
  /\ raced' = [raced EXCEPT ![p] = @ \cup ({s} \cap InFlight(p))]
  /\ Track(p, "clear", s, DefaultName)

DeleteSession(p, s) ==
  /\ copy' = [copy EXCEPT ![p] = [Emptied(@, s) EXCEPT !.names[s] = None]]
  /\ raced' = [raced EXCEPT ![p] = @ \cup ({s} \cap InFlight(p))]
  /\ Track(p, "delete", s, DefaultName)

DeleteAllSessions(p) ==
  /\ copy' = [copy EXCEPT ![p] = EmptyCopy]
  /\ raced' = [raced EXCEPT ![p] = @ \cup InFlight(p)]
  /\ Track(p, "deleteAll", None, DefaultName)

\* appendSessionMessages writes only to a session it knows.  A page on its
\* way may bring back the page this drops.
AppendMessages(p, s) ==
  /\ copy[p].names[s] # None
  /\ copy' = [copy EXCEPT
       ![p].messages[s] = IF @ = None THEN None ELSE Append(@, used.writes + 1),
       ![p].page[s] = None]
  /\ raced' = [raced EXCEPT
       ![p] = @ \cup {t \in {s} : \E r \in Awaited(p) : r.op = "page" /\ r.session = s}]
  /\ Track(p, "append", s, DefaultName)

\* preloadSession, preloadMessages and preloadAll: the first request of each
Preload(p, op, s) ==
  /\ used.reads < MaxReads /\ Allowed
  /\ used' = [used EXCEPT !.reads = @ + 1]
  /\ wire' = [wire EXCEPT ![p] = Append(@, Request(op, s, 0, DefaultName))]
  /\ UNCHANGED <<table, cache, copy, replies, pending, running, errors, ghosts>>

PreloadSession(p, s) == Preload(p, "load", s)
PreloadMessages(p, s) == Preload(p, "page", s)
PreloadAll(p) == Preload(p, "list", None)

--------------------------------------------------------------------------------
(* queue-service: QueueSessionCache in front of the tables                 *)

Served(p, op) == wire[p] # <<>> /\ Head(wire[p]).op = op

\* the request leaves the wire, and its reply is sent if somebody waits
Answer(p, ok, names, messages) ==
  LET r == Head(wire[p]) IN
  /\ wire' = [wire EXCEPT ![p] = Tail(@)]
  /\ replies' = IF r.awaited
       THEN [replies EXCEPT ![p] = Append(@,
              [op |-> r.op, session |-> r.session, write |-> r.write, awaited |-> TRUE,
               ok |-> ok, names |-> names, messages |-> messages])]
       ELSE replies
  /\ stored' = IF ok /\ r.write # 0 THEN stored \cup {r.write} ELSE stored
  /\ UNCHANGED <<copy, pending, running, errors, used, mine, thrown, raced>>

\* what a reply says of one session
Named(s, n) == [t \in {s} |-> n]

\* ensureSummariesLoaded, which publishing the list of sessions runs
WithSummaries(c, t) ==
  IF c.listed THEN c
  ELSE [c EXCEPT !.listed = TRUE,
         !.names = [s \in Sessions |-> IF t[s] = None THEN @[s] ELSE t[s].name]]

\* the cached summary, or the one of the row
Summary(s) ==
  IF cache.names[s] # None THEN cache.names[s]
  ELSE IF table[s] = None THEN None ELSE table[s].name

By(p, columns, sessions) ==
  author' = [c \in {"name", "messages"} |->
    IF c \in columns THEN [s \in Sessions |-> IF s \in sessions THEN p ELSE author[c][s]]
    ELSE author[c]]

\* store.ensureSession and the summary of the new row
EnsureNew(p, s) ==
  /\ table' = [table EXCEPT ![s] = [name |-> DefaultName, messages |-> <<>>]]
  /\ cache' = WithSummaries([cache EXCEPT !.names[s] = DefaultName], table')
  /\ By(p, {"name"}, {s})

ServeEnsure(p) ==
  LET s == Head(wire[p]).session IN
  /\ Served(p, "ensure")
  /\ Answer(p, TRUE, Named(s, IF Summary(s) = None THEN DefaultName ELSE Summary(s)), None)
  /\ \/ Summary(s) = None /\ EnsureNew(p, s)
     \/ /\ Summary(s) # None
        /\ cache' = [cache EXCEPT !.names[s] = Summary(s)]
        /\ UNCHANGED <<table, author>>

\* load and cacheSession
Loaded(c, t, s) ==
  IF t[s] = None THEN c
  ELSE [c EXCEPT !.loaded[s] = t[s], !.names[s] = t[s].name]

\* a preload ("load") and the load that follows an append ("reload")
ServeLoad(p) ==
  LET r == Head(wire[p])
      s == r.session
      row == IF cache.loaded[s] # None THEN cache.loaded[s] ELSE table[s] IN
  /\ Served(p, "load") \/ Served(p, "reload")
  /\ Answer(p, TRUE, Named(s, IF row = None THEN None ELSE row.name),
            IF row = None THEN None ELSE row.messages)
  /\ cache' = IF cache.loaded[s] # None THEN cache ELSE Loaded(cache, table, s)
  /\ UNCHANGED <<table, author>>

\* a session without a row is no error, and nothing is renamed
ServeRename(p) ==
  LET r == Head(wire[p])
      s == r.session IN
  /\ Served(p, "rename")
  /\ Answer(p, TRUE, Named(s, IF table[s] = None THEN None ELSE r.name), None)
  /\ \/ table[s] = None /\ UNCHANGED <<table, cache, author>>
     \/ /\ table[s] # None
        /\ table' = [table EXCEPT ![s].name = r.name]
        /\ cache' = WithSummaries(
             [cache EXCEPT !.names[s] = r.name,
                !.loaded[s] = IF @ = None THEN None ELSE [@ EXCEPT !.name = r.name]], table')
        /\ By(p, {"name"}, {s})

\* mutant: the page in the cache survives a clear
ServeClear_keepPage(p) ==
  LET s == Head(wire[p]).session
      name == IF Summary(s) = None THEN DefaultName ELSE Summary(s)
      row == [name |-> name, messages |-> <<>>] IN
  /\ Served(p, "clear")
  /\ Answer(p, TRUE, Named(s, name), None)
  /\ table' = [table EXCEPT ![s] = IF @ = None /\ Summary(s) # None THEN None ELSE row]
  /\ cache' = WithSummaries([cache EXCEPT !.names[s] = name, !.loaded[s] = row], table')
  /\ By(p, {"messages"} \cup (IF table[s] = None THEN {"name"} ELSE {}), {s})

ServeClear(p) ==
  LET s == Head(wire[p]).session
      name == IF Summary(s) = None THEN DefaultName ELSE Summary(s)
      row == [name |-> name, messages |-> <<>>] IN
  /\ Served(p, "clear")
  /\ Answer(p, TRUE, Named(s, name), None)
  /\ table' = [table EXCEPT ![s] = IF @ = None /\ Summary(s) # None THEN None ELSE row]
  /\ cache' = WithSummaries([cache EXCEPT !.names[s] = name, !.loaded[s] = row,
                               !.page[s] = None], table')
  /\ By(p, {"messages"} \cup (IF table[s] = None THEN {"name"} ELSE {}), {s})

\* the rows of the messages go with the row of the session
ServeDelete(p) ==
  LET r == Head(wire[p])
      gone == IF r.op = "delete" THEN {r.session} ELSE Sessions
      Without(f) == [s \in Sessions |-> IF s \in gone THEN None ELSE f[s]] IN
  /\ Served(p, "delete") \/ Served(p, "deleteAll")
  /\ Answer(p, TRUE, <<>>, None)
  /\ table' = Without(table)
  /\ cache' = WithSummaries(
       [names |-> Without(cache.names), loaded |-> Without(cache.loaded),
        page |-> Without(cache.page), listed |-> cache.listed \/ r.op = "deleteAll"], table')
  /\ By(p, {"name", "messages"}, gone)

\* messagesPage
Page(c, t, s) ==
  IF c.page[s] # None THEN c.page[s] ELSE IF t[s] = None THEN <<>> ELSE t[s].messages

\* the insert fails on the foreign key of a session that has no row, before
\* anything else is changed; the reply is the tail page, which is cached
ServeAppend(p) ==
  LET r == Head(wire[p])
      s == r.session
      row == [table[s] EXCEPT !.messages = Append(@, r.write)] IN
  /\ Served(p, "append")
  /\ \/ /\ table[s] = None
        /\ Answer(p, FALSE, <<>>, None)
        /\ UNCHANGED <<table, cache, author>>
     \/ /\ table[s] # None
        /\ Answer(p, TRUE, <<>>, row.messages)
        /\ table' = [table EXCEPT ![s] = row]
        /\ cache' = WithSummaries([Loaded(cache, table', s) EXCEPT !.page[s] = row.messages],
                                  table')
        /\ By(p, {"messages"}, {s})

ServePage(p) ==
  LET s == Head(wire[p]).session IN
  /\ Served(p, "page")
  /\ Answer(p, TRUE, <<>>, Page(cache, table, s))
  /\ cache' = [cache EXCEPT !.page[s] = Page(cache, table, s)]
  /\ UNCHANGED <<table, author>>

\* the second request of preloadMessages
ServeSummary(p) ==
  LET s == Head(wire[p]).session IN
  /\ Served(p, "summary")
  /\ Answer(p, TRUE, Named(s, Summary(s)), None)
  /\ cache' = [cache EXCEPT !.names[s] = Summary(s)]
  /\ UNCHANGED <<table, author>>

\* the second request of preloadSession; the id is read from the table
ServeLastId(p) ==
  LET s == Head(wire[p]).session IN
  /\ Served(p, "lastId")
  /\ Answer(p, TRUE, <<>>, IF table[s] = None THEN <<>> ELSE table[s].messages)
  /\ UNCHANGED <<table, cache, author>>

ServeList(p) ==
  /\ Served(p, "list")
  /\ Answer(p, TRUE, WithSummaries(cache, table).names, None)
  /\ cache' = WithSummaries(cache, table)
  /\ UNCHANGED <<table, author>>

Serve(p) ==
  \/ ServeEnsure(p) \/ ServeLoad(p) \/ ServeRename(p) \/ ServeClear(p)
  \/ ServeDelete(p) \/ ServeAppend(p) \/ ServePage(p) \/ ServeSummary(p)
  \/ ServeLastId(p) \/ ServeList(p)

--------------------------------------------------------------------------------
(* Replies, and the promises that wait for them                            *)

Received(p, op) == replies[p] # <<>> /\ Head(replies[p]).op = op

\* the promise of a tracked write is settled
Settle(p, w) ==
  /\ pending' = [pending EXCEPT ![p] = @ \ {w}]
  /\ running' = [running EXCEPT
       ![p] = [f \in Flushes |-> IF @[f] = None THEN None ELSE @[f] \ {w}]]

\* a reply is taken off the wire, and a promise that waits for nothing more
\* is settled; next is the request its continuation sends, if any
Taken(p) == replies' = [replies EXCEPT ![p] = Tail(@)]
Unsent == UNCHANGED wire
SendNext(p, op, s, w) == wire' = [wire EXCEPT ![p] = Append(@, Request(op, s, w, DefaultName))]
Unheard == UNCHANGED <<table, cache, used, ghosts>>

LastOf(messages) == IF messages = <<>> THEN None ELSE Last(messages)

\* rememberLastMessageIdFromPage leaves the id alone when the page is empty
FromPage(last, page) == IF page = <<>> THEN last ELSE LastOf(page)

\* cacheSession: nothing is removed when there is no such session any more
Cached(c, s, name, messages) ==
  IF name = None THEN c ELSE [c EXCEPT !.names[s] = name, !.messages[s] = messages]

\* ensure and clear answer with a summary, rename with one or nothing
ReceiveSummaryOfWrite(p) ==
  LET r == Head(replies[p]) IN
  /\ \E op \in {"ensure", "rename", "clear"} : Received(p, op)
  /\ copy' = [copy EXCEPT ![p].names[r.session] =
       IF r.names[r.session] = None THEN @ ELSE r.names[r.session]]
  /\ Taken(p) /\ Unsent /\ Settle(p, r.write)
  /\ UNCHANGED errors /\ Unheard

ReceiveDeleted(p) ==
  /\ Received(p, "delete") \/ Received(p, "deleteAll")
  /\ Taken(p) /\ Unsent /\ Settle(p, Head(replies[p]).write)
  /\ UNCHANGED <<copy, errors>> /\ Unheard

\* the first half of appendMessages: the write stays unsettled until the
\* session has been loaded again
ReceiveAppended(p) ==
  LET r == Head(replies[p]) IN
  /\ Received(p, "append") /\ r.ok
  /\ copy' = [copy EXCEPT ![p].last[r.session] = FromPage(@, r.messages)]
  /\ Taken(p) /\ SendNext(p, "reload", r.session, r.write)
  /\ UNCHANGED <<pending, running, errors>> /\ Unheard

ReceiveReloaded(p) ==
  LET r == Head(replies[p]) IN
  /\ Received(p, "reload")
  /\ copy' = [copy EXCEPT ![p] = Cached(@, r.session, r.names[r.session], r.messages)]
  /\ Taken(p) /\ Unsent /\ Settle(p, r.write)
  /\ UNCHANGED errors /\ Unheard

\* track keeps the error for a flush
ReceiveError(p) ==
  LET r == Head(replies[p]) IN
  /\ replies[p] # <<>> /\ ~r.ok
  /\ errors' = [errors EXCEPT ![p] = Append(@, r.write)]
  /\ Taken(p) /\ Unsent /\ Settle(p, r.write)
  /\ UNCHANGED copy /\ Unheard

\* the two halves of preloadSession
ReceiveLoaded(p) ==
  LET r == Head(replies[p]) IN
  /\ Received(p, "load")
  /\ copy' = [copy EXCEPT ![p] = Cached(@, r.session, r.names[r.session], r.messages)]
  /\ Taken(p) /\ SendNext(p, "lastId", r.session, 0)
  /\ UNCHANGED <<pending, running, errors>> /\ Unheard

ReceiveLastId(p) ==
  LET r == Head(replies[p]) IN
  /\ Received(p, "lastId")
  /\ copy' = [copy EXCEPT ![p].last[r.session] = LastOf(r.messages)]
  /\ Taken(p) /\ Unsent
  /\ UNCHANGED <<pending, running, errors>> /\ Unheard

\* the two halves of preloadMessages
ReceivePage(p) ==
  LET r == Head(replies[p])
      s == r.session IN
  /\ Received(p, "page")
  /\ copy' = [copy EXCEPT ![p].page[s] = r.messages, ![p].last[s] = FromPage(@, r.messages)]
  /\ Taken(p) /\ SendNext(p, "summary", s, 0)
  /\ UNCHANGED <<pending, running, errors>> /\ Unheard

ReceiveSummary(p) ==
  LET r == Head(replies[p])
      s == r.session IN
  /\ Received(p, "summary")
  /\ copy' = [copy EXCEPT ![p].names[s] = IF r.names[s] = None THEN @ ELSE r.names[s]]
  /\ Taken(p) /\ Unsent
  /\ UNCHANGED <<pending, running, errors>> /\ Unheard

\* preloadAll replaces the summaries
ReceiveList(p) ==
  /\ Received(p, "list")
  /\ copy' = [copy EXCEPT ![p].names = Head(replies[p]).names]
  /\ Taken(p) /\ Unsent
  /\ UNCHANGED <<pending, running, errors>> /\ Unheard

Receive(p) ==
  \/ ReceiveSummaryOfWrite(p) \/ ReceiveDeleted(p) \/ ReceiveAppended(p)
  \/ ReceiveReloaded(p) \/ ReceiveError(p) \/ ReceiveLoaded(p) \/ ReceiveLastId(p)
  \/ ReceivePage(p) \/ ReceiveSummary(p) \/ ReceiveList(p)

--------------------------------------------------------------------------------
(* flush                                                                   *)

\* the turn of the loop that takes the promises there are
TakeBatch(p, f) ==
  /\ pending[p] # {}
  /\ running' = [running EXCEPT ![p][f] = pending[p]]
  /\ pending' = [pending EXCEPT ![p] = {}]
  /\ UNCHANGED <<table, cache, copy, wire, replies, errors, used, ghosts>>

\* a flush that finds nothing to wait for returns at once, and changes
\* something only if there is an error: FlushAtOnce
StartFlush(p, f) == running[p][f] = None /\ TakeBatch(p, f)

FlushAgain(p, f) == running[p][f] = {} /\ TakeBatch(p, f)

\* the first error is thrown, the others stay for the next flush
Throw(p) ==
  /\ errors' = [errors EXCEPT ![p] = IF @ = <<>> THEN @ ELSE Tail(@)]
  /\ thrown' = IF errors[p] = <<>> THEN thrown ELSE thrown \cup {Head(errors[p])}
  /\ UNCHANGED <<table, cache, copy, wire, replies, pending, used, mine, stored, author, raced>>

\* mutant: the loop is an if
FlushDone_once(p, f) ==
  /\ running[p][f] = {}
  /\ running' = [running EXCEPT ![p][f] = None]
  /\ Throw(p)

FlushDone(p, f) ==
  /\ running[p][f] = {} /\ pending[p] = {}
  /\ running' = [running EXCEPT ![p][f] = None]
  /\ Throw(p)

FlushAtOnce(p) ==
  /\ pending[p] = {} /\ errors[p] # <<>>
  /\ UNCHANGED running
  /\ Throw(p)

--------------------------------------------------------------------------------
(* Timeouts, and processes that are replaced                               *)

Mishap ==
  /\ used.mishaps < MaxMishaps /\ Allowed
  /\ used' = [used EXCEPT !.mishaps = @ + 1]

\* mutant: the promise of a request that timed out never settles
GiveUp_hang(p, r) ==
  /\ r.awaited
  /\ UNCHANGED <<errors, pending, running>>
  /\ raced' = [raced EXCEPT ![p] = @ \cup ({r.session} \cap Sessions)]

\* the timer of a request fires: its reply will be ignored, the request is
\* served all the same
GiveUp(p, r) ==
  /\ r.awaited
  /\ IF r.write = 0 THEN UNCHANGED <<errors, pending, running, raced>>
     ELSE /\ errors' = [errors EXCEPT ![p] = Append(@, r.write)]
          /\ Settle(p, r.write)
          /\ raced' = [raced EXCEPT ![p] = @ \cup ({r.session} \cap Sessions)]

RequestTimesOut(p) ==
  /\ Mishap
  /\ \/ \E i \in DOMAIN wire[p] :
          /\ GiveUp(p, wire[p][i])
          /\ wire' = [wire EXCEPT ![p][i].awaited = FALSE]
          /\ UNCHANGED replies
     \/ \E i \in DOMAIN replies[p] :
          /\ GiveUp(p, replies[p][i])
          /\ replies' = [replies EXCEPT ![p] = RemoveAt(@, i)]
          /\ UNCHANGED wire
  /\ UNCHANGED <<table, cache, copy, mine, stored, thrown, author>>

\* new processes: nothing of the old ones is left but what was served
Fresh(ps) ==
  LET New(f, v) == [p \in Processes |-> IF p \in ps THEN v ELSE f[p]] IN
  /\ copy' = New(copy, EmptyCopy)
  /\ wire' = New(wire, <<>>)
  /\ replies' = New(replies, <<>>)
  /\ pending' = New(pending, {})
  /\ running' = New(running, [f \in Flushes |-> None])
  /\ errors' = New(errors, <<>>)
  /\ mine' = New(mine, {})
  /\ raced' = New(raced, {})
  /\ author' = [c \in {"name", "messages"} |->
       [s \in Sessions |-> IF author[c][s] \in ps THEN None ELSE author[c][s]]]
  /\ UNCHANGED <<table, stored, thrown>>

ProcessReplaced(p) == Mishap /\ Fresh({p}) /\ UNCHANGED cache

\* queue-service is replaced: every socket closes, and the cache is filled
\* again from the tables
QueueReplaced == Mishap /\ Fresh(Processes) /\ cache' = EmptyCache

--------------------------------------------------------------------------------
(* Specification                                                           *)

Calls(p) ==
  \/ DeleteAllSessions(p) \/ PreloadAll(p)
  \/ \E s \in Sessions :
       \/ EnsureSession(p, s) \/ ClearSession(p, s) \/ DeleteSession(p, s)
       \/ AppendMessages(p, s) \/ PreloadSession(p, s) \/ PreloadMessages(p, s)
       \/ \E n \in Names \ {DefaultName} : RenameSession(p, s, n)

FlushStep(p) == \E f \in Flushes : FlushAgain(p, f) \/ FlushDone(p, f)

Next ==
  \/ \E p \in Processes :
       \/ Calls(p) \/ Serve(p) \/ Receive(p) \/ FlushStep(p)
       \/ \E f \in Flushes : StartFlush(p, f)
       \/ FlushAtOnce(p) \/ RequestTimesOut(p) \/ ProcessReplaced(p)
  \/ QueueReplaced

Spec == Init /\ [][Next]_vars

--------------------------------------------------------------------------------
(* Properties                                                              *)

\* the writes some flush waits for
InBatches(p) == UNION {running[p][f] : f \in {g \in Flushes : running[p][g] # None}}

\* The names and messages queue-service would answer from its three caches
\* are those of the tables, after any calls of any processes and after a
\* restart: a summary has the row's name, a loaded session its name and its
\* messages, a cached page its messages, and once the list has been published
\* no session is missing from it (session-cache.ts; the parent of a summary
\* is not kept here, and of a child it may be stale).
CachesMatchTable ==
  \A s \in Sessions :
    /\ cache.names[s] # None => table[s] # None /\ cache.names[s] = table[s].name
    /\ cache.loaded[s] # None => cache.loaded[s] = table[s]
    /\ cache.page[s] # None =>
         cache.page[s] = IF table[s] = None THEN <<>> ELSE table[s].messages
    /\ cache.listed /\ table[s] # None => cache.names[s] # None

\* A process sees its own last write of a session once every reply has
\* arrived, and what it deleted or cleared has not come back: the replies of
\* earlier writes and preloads, which carry older states, do no lasting harm
\* (session-state-client.ts).  Three cases are left out, and in each the code
\* does show something old: another process wrote after it, it cleared or
\* deleted the session, or dropped its page, while a reply it had asked for
\* before was out, and a request of a write timed out.
OwnWritesShow ==
  \A p \in Processes, s \in Sessions :
    LET row == table[s]
        messages == IF row = None THEN <<>> ELSE row.messages IN
    wire[p] = <<>> /\ replies[p] = <<>> /\ s \notin raced[p] =>
      /\ author.name[s] = p =>
           copy[p].names[s] = IF row = None THEN None ELSE row.name
      /\ author.messages[s] = p =>
           /\ copy[p].messages[s] \in IF row = None THEN {None} ELSE {None, messages}
           /\ copy[p].page[s] \in {None, messages}
           /\ copy[p].last[s] \in {None, LastOf(messages)}

\* When a flush that had something to wait for returns without an error, every
\* write its process has issued so far, also while the flush waited, is in the
\* tables, or its failure was thrown by some flush, or another flush that is
\* still under way has taken it (flush, track).  The last case is real: two
\* turns of the agent flush the same store.
FlushMeansStored ==
  [][\A p \in Processes, f \in Flushes :
       running[p][f] # None /\ running'[p][f] = None /\ errors[p] = <<>> /\ used' = used =>
         mine[p] \subseteq stored \cup thrown \cup
           InBatches(p)]_vars

\* No flush waits for ever: each write that is not settled has a request or a
\* reply on its way that settles it when it comes through or times out, also
\* between the two requests of an append (track, appendMessages).
UnsettledIsOnItsWay ==
  \A p \in Processes :
    \A w \in pending[p] \cup InBatches(p) :
      \E r \in Awaited(p) : r.write = w
================================================================================
