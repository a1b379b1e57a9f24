---------------------------- MODULE SyncPipeline ----------------------------
(***************************************************************************)
(* How one workspace's messages travel from Slack to the UI.               *)
(*                                                                         *)
(* Three goroutines share the message table of cache.db:                   *)
(*   - the websocket read loop writes the live events it is handed         *)
(*     (wshandler.go, events.go);                                          *)
(*   - each (re)connect starts a backfill goroutine that re-reads channel  *)
(*     history over REST and writes it (backfill.go);                      *)
(*   - the poll loop reads rows above its cursor, broadcasts them to the   *)
(*     UI and raises notifications (main.go, pollWorkspace).               *)
(* Slack itself, the socket and REST are the environment.                  *)
(*                                                                         *)
(* A message is its timestamp: the n-th message posted in the workspace is *)
(* n, and 0 stands for the code's "" or "0" (no timestamp).  Its content   *)
(* is a revision, the higher the later.                                    *)
(***************************************************************************)
EXTENDS Naturals, Sequences, FiniteSets

CONSTANTS
    Channels,      \* conversations of the workspace
    Known,         \* those listed in w.chans: the others are cached, not shown
    MaxTS,         \* bound: messages posted in a behaviour
    MaxChanged,    \* bound: messages that are ever edited or deleted
    MaxConnects,   \* bound: successful websocket (re)connects
    MaxRestarts,   \* bound: restarts of the daemon
    FetchCap,      \* messages one history fetch returns at most (500; 200 first)
    PollLimit      \* rows one poll query returns at most (200)

ASSUME KnownAssumption == Known \subseteq Channels
ASSUME BoundsAssumption ==
    /\ MaxTS \in Nat /\ MaxChanged \in Nat /\ MaxConnects \in Nat
    /\ MaxRestarts \in Nat
    /\ FetchCap \in Nat \ {0} /\ PollLimit \in Nat \ {0}

TS == 1 .. MaxTS
Conns == 1 .. MaxConnects

\* Revisions of a message; a cache row with is_deleted = 1 is Deleted.
Absent == 0
Posted == 1
Edited == 2
Deleted == 3
Rev == Absent .. Deleted
Readable == {Posted, Edited}

Row == [ts : TS, rev : Readable]
Event == [ts : TS, rev : Posted .. Deleted]

VARIABLES
    home,      \* channel each message is posted to (fixed, known once posted)
    top,       \* messages that are not thread replies (fixed)
    srv,       \* Slack's own revision of each message
    sock,      \* the websocket is connected
    stream,    \* events sent on it that the read loop has not taken yet
    conns,     \* connects so far; also the number of backfill goroutines
    restarts,  \* restarts so far
    cache,     \* revision of each message in cache.db
    lastTS,    \* pollWorkspace: cursor
    batch,     \* pollWorkspace: rows of the open query not yet scanned
    gateOpen,  \* backfill: 30s passed since lastBackfill (or it is unset)
    run,       \* backfill goroutine of each connect
    job,       \* its per-channel workers
    wm,        \* watermark each worker has read
    page,      \* rows each worker has fetched and not yet persisted
    shown,     \* latest revision broadcast to the UI, per message
    notified   \* times the poll loop broadcast a message and ran maybeNotify

server == <<home, top, srv>>
socket == <<sock, stream, conns>>
poll == <<lastTS, batch, notified>>
backfills == <<gateOpen, run, job, wm, page>>
vars == <<server, socket, restarts, cache, poll, backfills, shown>>

\* --- defective variants of the definitions below, for mutation runs ---
\* the cap keeps the rows nearest the watermark
NewestRows_KeepsOldest(rows, n) ==
    {r \in rows : Cardinality({q \in rows : q.ts < r.ts}) < n}
\* LIMIT n - 1
OldestRows_OneShort(rows, n) ==
    {r \in rows : Cardinality({q \in rows : q.ts < r.ts}) < n - 1}
\* the poll query has no ORDER BY
OldestFirst_AnyOrder(r, rows) == r \in rows
\* the start query filters is_deleted = 0 as the poll query does
StartCursor_LiveRows(S) ==
    LET live == {t \in S : cache[t] # Deleted}
    IN  IF live = {} THEN 0 ELSE CHOOSE t \in live : \A u \in live : u <= t
\* Oldest is inclusive of the next message
History_SkipsOne(c, oldest) ==
    {[ts |-> t, rev |-> srv[t]] :
        t \in {u \in top : home[u] = c /\ u > oldest + 1 /\ srv[u] \in Readable}}
\* tombstones come back from history too
History_WithDeleted(c, oldest) ==
    {[ts |-> t, rev |-> srv[t]] :
        t \in {u \in top : home[u] = c /\ u > oldest /\ srv[u] # Absent}}
\* ts >= lastTS
Fresh_Inclusive ==
    {[ts |-> t, rev |-> cache[t]] :
        t \in {u \in TS : u >= lastTS /\ cache[u] \in Readable}}
\* the query leaves thread replies out
Fresh_TopLevel ==
    {[ts |-> t, rev |-> cache[t]] :
        t \in {u \in top : u > lastTS /\ cache[u] \in Readable}}

NewestFirst(r, rows) == \A q \in rows : q.ts <= r.ts
OldestFirst(r, rows) == \A q \in rows : r.ts <= q.ts

\* The n newest, respectively oldest, rows of a result.
NewestRows(rows, n) ==
    {r \in rows : Cardinality({q \in rows : q.ts > r.ts}) < n}
OldestRows(rows, n) ==
    {r \in rows : Cardinality({q \in rows : q.ts < r.ts}) < n}

Cached == {t \in TS : cache[t] # Absent}
CachedIn(c) == {t \in Cached : home[t] = c}
Newest(S) == IF S = {} THEN 0 ELSE CHOOSE t \in S : \A u \in S : u <= t

\* Where a starting poll loop puts its cursor: MAX(ts) over every cached row.
StartCursor(S) == Newest(S)

\* latest_synced_ts is never written, so the watermark is MAX(ts) of the
\* channel's rows, whoever wrote them: thread replies and deleted rows count.
Watermark(c) == Newest(CachedIn(c))

\* INSERT ... ON CONFLICT DO UPDATE: the row becomes what the writer holds,
\* is_deleted = 0, whatever it was.
UpsertMessage(t, rev) == cache' = [cache EXCEPT ![t] = rev]

\* UPDATE ... SET is_deleted = 1: only a row that is there.
DeleteMessage(t) ==
    cache' = IF t \in Cached THEN [cache EXCEPT ![t] = Deleted] ELSE cache

\* BackfillCandidates: every channel with a cached row, and the unread ones.
BackfillCandidates(unread) ==
    unread \cup {c \in Channels : CachedIn(c) # {}}

-----------------------------------------------------------------------------
(* Slack and the network                                                   *)

Send(t, rev) ==
    stream' = IF sock THEN Append(stream, [ts |-> t, rev |-> rev]) ELSE stream

\* Somebody posts the next message.
Post(t) ==
    /\ srv[t] = Absent /\ \A u \in TS : u < t => srv[u] # Absent
    /\ srv' = [srv EXCEPT ![t] = Posted]
    /\ Send(t, Posted)
    /\ UNCHANGED <<home, top, sock, conns, restarts, cache, poll, backfills,
                   shown>>

MayChange(t) ==
    Cardinality({u \in TS : srv[u] > Posted} \cup {t}) <= MaxChanged

\* An edit or a link unfurl: message_changed keeps the ts.
Edit(t) ==
    /\ srv[t] = Posted /\ MayChange(t)
    /\ srv' = [srv EXCEPT ![t] = Edited]
    /\ Send(t, Edited)
    /\ UNCHANGED <<home, top, sock, conns, restarts, cache, poll, backfills,
                   shown>>

Delete(t) ==
    /\ srv[t] \in Readable /\ MayChange(t)
    /\ srv' = [srv EXCEPT ![t] = Deleted]
    /\ Send(t, Deleted)
    /\ UNCHANGED <<home, top, sock, conns, restarts, cache, poll, backfills,
                   shown>>

\* StartWebSocket succeeds; OnConnect starts a backfill goroutine.
Connect ==
    /\ ~sock /\ conns < MaxConnects
    /\ sock' = TRUE
    /\ conns' = conns + 1
    /\ run' = [run EXCEPT ![conns + 1] = "gate"]
    /\ UNCHANGED <<server, stream, restarts, cache, poll, gateOpen, job, wm,
                   page, shown>>

\* The connection dies; what it carried and the read loop has not read is lost.
Drop ==
    /\ sock
    /\ sock' = FALSE
    /\ stream' = <<>>
    /\ UNCHANGED <<server, conns, restarts, cache, poll, backfills, shown>>

-----------------------------------------------------------------------------
(* The websocket read loop: one event at a time, in order                  *)

Show(t, rev) ==
    shown' = IF home[t] \in Known THEN [shown EXCEPT ![t] = rev] ELSE shown

\* OnMessage: upsert with is_deleted = 0, whatever the row held; only a changed
\* message is broadcast from here, a new one is left to the poll loop.
OnMessage ==
    /\ stream # <<>>
    /\ LET e == Head(stream) IN
        /\ e.rev \in Readable
        /\ UpsertMessage(e.ts, e.rev)
        /\ IF e.rev = Edited THEN Show(e.ts, Edited) ELSE UNCHANGED shown
    /\ stream' = Tail(stream)
    /\ UNCHANGED <<server, sock, conns, restarts, poll, backfills>>

\* OnMessageDeleted: tombstone the row if there is one; broadcast regardless.
OnMessageDeleted ==
    /\ stream # <<>>
    /\ LET e == Head(stream) IN
        /\ e.rev = Deleted
        /\ DeleteMessage(e.ts)
        /\ Show(e.ts, Deleted)
    /\ stream' = Tail(stream)
    /\ UNCHANGED <<server, sock, conns, restarts, poll, backfills>>

-----------------------------------------------------------------------------
(* Backfill                                                                *)

\* At most one start per 30s: the others return at once.
PassGate(k) ==
    /\ run[k] = "gate"
    /\ IF gateOpen
       THEN /\ gateOpen' = FALSE
            /\ run' = [run EXCEPT ![k] = "counts"]
       ELSE /\ run' = [run EXCEPT ![k] = "skipped"]
            /\ UNCHANGED gateOpen
    /\ UNCHANGED <<server, socket, restarts, cache, poll, job, wm, page, shown>>

\* 30s have passed since the last start.
GateExpires ==
    /\ ~gateOpen
    /\ gateOpen' = TRUE
    /\ UNCHANGED <<server, socket, restarts, cache, poll, run, job, wm, page,
                   shown>>

\* client.counts names the unread channels (none, if the call fails); the
\* candidates are those plus every channel with a cached row.
ListCandidates(k) ==
    /\ run[k] = "counts"
    /\ \E unread \in SUBSET {home[t] : t \in {u \in TS : srv[u] # Absent}} :
        job' = [job EXCEPT ![k] =
                  [c \in Channels |->
                     IF c \in BackfillCandidates(unread) THEN "mark" ELSE "off"]]
    /\ run' = [run EXCEPT ![k] = "workers"]
    /\ UNCHANGED <<server, socket, restarts, cache, poll, gateOpen, wm, page,
                   shown>>

ReadWatermark(k, c) ==
    /\ job[k][c] = "mark"
    /\ job' = [job EXCEPT ![k][c] = "fetch"]
    /\ wm' = [wm EXCEPT ![k][c] = Watermark(c)]
    /\ UNCHANGED <<server, socket, restarts, cache, poll, gateOpen, run, page,
                   shown>>

\* conversations.history: top-level messages above the watermark as Slack has
\* them now, the newest FetchCap of them (result.Capped is not looked at).
History(c, oldest) ==
    NewestRows({[ts |-> t, rev |-> srv[t]] :
                  t \in {u \in top : /\ home[u] = c
                                     /\ u > oldest
                                     /\ srv[u] \in Readable}}, FetchCap)

FetchHistory(k, c) ==
    /\ job[k][c] = "fetch"
    /\ page' = [page EXCEPT ![k][c] = History(c, wm[k][c])]
    /\ job' = [job EXCEPT ![k][c] =
                 IF History(c, wm[k][c]) = {} THEN "done" ELSE "persist"]
    /\ UNCHANGED <<server, socket, restarts, cache, poll, gateOpen, run, wm,
                   shown>>

\* An API error or the 15s deadline: the worker returns and drops what it had.
FetchFails(k, c) ==
    /\ job[k][c] = "fetch"
    /\ job' = [job EXCEPT ![k][c] = "failed"]
    /\ UNCHANGED <<server, socket, restarts, cache, poll, gateOpen, run, wm,
                   page, shown>>

\* persistMessage, one row at a time in the order Slack returned them.
PersistMessage(k, c) ==
    /\ job[k][c] = "persist"
    /\ \E r \in page[k][c] :
        /\ NewestFirst(r, page[k][c])
        /\ UpsertMessage(r.ts, r.rev)
        /\ page' = [page EXCEPT ![k][c] = @ \ {r}]
        /\ job' = [job EXCEPT ![k][c] =
                     IF page[k][c] = {r} THEN "done" ELSE "persist"]
    /\ UNCHANGED <<server, socket, restarts, poll, gateOpen, run, wm, shown>>

-----------------------------------------------------------------------------
(* The poll loop                                                           *)

Fresh == {[ts |-> t, rev |-> cache[t]] :
            t \in {u \in Cached : u > lastTS /\ cache[u] # Deleted}}

\* A tick with no row open runs the query; its rows are one snapshot.
PollQuery ==
    /\ batch = {} /\ Fresh # {}
    /\ batch' = OldestRows(Fresh, PollLimit)
    /\ UNCHANGED <<server, socket, restarts, cache, lastTS, notified, backfills,
                   shown>>

\* The next row in ts order: move the cursor, then broadcast and notify unless
\* the channel is not one the workspace knows.
PollRow ==
    /\ \E r \in batch :
        /\ OldestFirst(r, batch)
        /\ batch' = batch \ {r}
        /\ lastTS' = r.ts
        /\ IF home[r.ts] \in Known
           THEN /\ shown' = [shown EXCEPT ![r.ts] = r.rev]
                /\ notified' = [notified EXCEPT ![r.ts] = @ + 1]
           ELSE UNCHANGED <<shown, notified>>
    /\ UNCHANGED <<server, socket, restarts, cache, backfills>>

-----------------------------------------------------------------------------
\* The daemon dies and comes back: only cache.db survives; the new poll loop
\* starts at MAX(ts) over every row of the workspace.
Restart ==
    /\ restarts < MaxRestarts
    /\ restarts' = restarts + 1
    /\ sock' = FALSE
    /\ stream' = <<>>
    /\ lastTS' = StartCursor(Cached)
    /\ batch' = {}
    /\ gateOpen' = TRUE
    /\ run' = [k \in Conns |-> "none"]
    /\ job' = [k \in Conns |-> [c \in Channels |-> "off"]]
    /\ page' = [k \in Conns |-> [c \in Channels |-> {}]]
    /\ shown' = [t \in TS |-> Absent]
    /\ UNCHANGED <<server, conns, cache, notified, wm>>

\* A first start on an empty cache; Slack's history before it is not modelled.
Init ==
    /\ home \in [TS -> Channels]
    /\ top \in SUBSET TS
    /\ srv = [t \in TS |-> Absent]
    /\ sock = FALSE
    /\ stream = <<>>
    /\ conns = 0
    /\ restarts = 0
    /\ cache = [t \in TS |-> Absent]
    /\ lastTS = 0
    /\ batch = {}
    /\ gateOpen = TRUE
    /\ run = [k \in Conns |-> "none"]
    /\ job = [k \in Conns |-> [c \in Channels |-> "off"]]
    /\ wm = [k \in Conns |-> [c \in Channels |-> 0]]
    /\ page = [k \in Conns |-> [c \in Channels |-> {}]]
    /\ shown = [t \in TS |-> Absent]
    /\ notified = [t \in TS |-> 0]

Environment == (\E t \in TS : Post(t) \/ Edit(t) \/ Delete(t)) \/ Connect \/ Drop
ReadLoop == OnMessage \/ OnMessageDeleted
Worker(k, c) ==
    \/ ReadWatermark(k, c) \/ FetchHistory(k, c)
    \/ FetchFails(k, c) \/ PersistMessage(k, c)
Backfill(k) == PassGate(k) \/ ListCandidates(k) \/ \E c \in Channels : Worker(k, c)
PollLoop == PollQuery \/ PollRow

Next ==
    \/ Environment
    \/ ReadLoop
    \/ GateExpires
    \/ \E k \in Conns : Backfill(k)
    \/ PollLoop
    \/ Restart

Spec == Init /\ [][Next]_vars

\* Goroutines that can run do run; Slack, the network, the 30s timer and a
\* crash owe nothing.
Fairness ==
    /\ WF_vars(ReadLoop)
    /\ WF_vars(PollLoop)
    /\ \A k \in Conns : WF_vars(Backfill(k))

FairSpec == Spec /\ Fairness

-----------------------------------------------------------------------------
(* Properties                                                              *)

RevFn == [TS -> Rev]
Phases == {"none", "gate", "counts", "workers", "skipped"}
JobPhases == {"off", "mark", "fetch", "persist", "done", "failed"}

\* Types of every variable; rows and events only ever name posted content.
TypeOK ==
    /\ home \in [TS -> Channels]
    /\ top \in SUBSET TS
    /\ srv \in RevFn
    /\ sock \in BOOLEAN
    /\ stream \in Seq(Event)
    /\ conns \in 0 .. MaxConnects
    /\ restarts \in 0 .. MaxRestarts
    /\ cache \in RevFn
    /\ lastTS \in 0 .. MaxTS
    /\ batch \in SUBSET Row
    /\ gateOpen \in BOOLEAN
    /\ run \in [Conns -> Phases]
    /\ job \in [Conns -> [Channels -> JobPhases]]
    /\ wm \in [Conns -> [Channels -> 0 .. MaxTS]]
    /\ page \in [Conns -> [Channels -> SUBSET Row]]
    /\ shown \in RevFn
    /\ notified \in [TS -> Nat]

\* However often a message is written to the cache (live, by one or two
\* backfills, again after it was deleted) and however often the daemon
\* restarts, its first notification is its last (pollWorkspace's cursor,
\* main.go:1190-1260).
NotifiedOnce == \A t \in TS : notified[t] <= 1

Promised == INSTANCE Delivery
              WITH Messages <- TS, stored <- Cached, cursor <- lastTS, told <- notified

\* The pipeline implements Delivery: rows never leave the cache, and each is
\* passed in the order of a cursor that moves forward over cached rows only,
\* whatever the backfills, the read loop and restarts do (main.go:1186-1302).
ImplementsDelivery == Promised!Spec

\* The poll cursor never moves back, not even across a restart that recomputes
\* it from the cache: nothing already passed is replayed (main.go:1190-1196).
CursorMonotone == [][lastTS' >= lastTS]_vars

\* Once the last connect's backfill of a channel is done and the live events
\* are drained, nothing readable at Slack is newer than the channel's newest
\* cached row, even when the fetch was capped (backfill.go:12-16).
RecoveredTail ==
    \A k \in Conns, c \in Channels :
        (k = conns /\ sock /\ stream = <<>> /\ job[k][c] = "done") =>
            \A t \in top :
                (home[t] = c /\ srv[t] \in Readable) => t <= Watermark(c)

\* ... and every readable top-level message above the watermark the worker read
\* is in the cache, unless enough later ones were posted to fill the fetch.
AboveWatermarkRecovered ==
    \A k \in Conns, c \in Channels :
        (k = conns /\ sock /\ stream = <<>> /\ job[k][c] = "done") =>
            \A t \in top :
                (home[t] = c /\ srv[t] \in Readable /\ t > wm[k][c]) =>
                    \/ t \in Cached
                    \/ Cardinality({u \in top : home[u] = c /\ u > t
                                                 /\ srv[u] # Absent}) >= FetchCap

Sent(t) == \E i \in 1 .. Len(stream) : stream[i].ts = t

\* A live event reaches the poll loop: unless the connection dies or the message
\* is deleted, the poll cursor gets to it (wshandler.go:14-18).
LiveReachesPoll ==
    \A t \in TS :
        Sent(t) ~> (lastTS >= t \/ srv[t] = Deleted \/ ~sock)

\* Whoever writes a row, live or recovered, the poll cursor reaches it, through
\* queries of bounded size, unless it is deleted first (main.go:1233-1248).
CachedReachesPoll ==
    \A t \in TS : (cache[t] \in Readable) ~> (lastTS >= t \/ cache[t] = Deleted)

=============================================================================
