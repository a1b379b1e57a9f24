----------------------------- MODULE ChannelView -----------------------------
(***************************************************************************)
(* The list of messages the UI shows, and the daemon that serves it        *)
(* (ui/Backend.qml, cache_render.go, main.go).                             *)
(*                                                                         *)
(* The UI keeps two copies: _store, a list for every channel, and          *)
(* messagesModel, what is on screen.  Both change with every line the      *)
(* daemon writes: what the poll loop and the websocket announce, and the   *)
(* answers to "recent", "history" and "jump", each of which a goroutine of *)
(* its own reads, renders and writes when it is done, in pieces if it is   *)
(* long.  A message just sent has a pending line until its echo arrives.   *)
(*                                                                         *)
(* Messages are top-level ones, numbered over the workspace in the order   *)
(* Slack gets them.  A line the daemon writes is handled when it is        *)
(* written and a command when it is sent: both sockets are in order, and   *)
(* what is slow is the goroutine in between.  SyncPipeline has the poll    *)
(* loop and the message table in detail.                                   *)
(***************************************************************************)
EXTENDS Naturals, Sequences, FiniteSets

CONSTANTS
    Channels,     \* channels of the workspace
    Joined,       \* those the user is in: w.chans, idIndex, _chanList
    Home,         \* channel opened at startup
    MaxReqs,      \* bound: answers being prepared at a time
    MaxTS,        \* bound: messages
    MaxActs,      \* bound: what the user does, edits, deletions, lost connections
    Window,       \* messages of a "recent" answer at most (70)
    Chunk,        \* messages in one piece of it (20)
    Page,         \* messages of one history fetch (50)
    Around,       \* messages of a jump on either side (30)
    MaxTries      \* empty answers not believed (8)

ASSUME ChannelsAssumption == Home \in Joined /\ Joined \subseteq Channels
ASSUME BoundsAssumption ==
    /\ MaxReqs \in Nat /\ MaxTS \in Nat /\ MaxActs \in Nat /\ MaxTries \in Nat
    /\ Window \in Nat \ {0} /\ Chunk \in Nat \ {0}
    /\ Page \in Nat \ {0} /\ Around \in Nat \ {0}

TS == 1 .. MaxTS
Reqs == 1 .. MaxReqs

\* Pending lines have numbers of their own (_optSeq), the others their message's.
Line == [ts : TS, pending : {FALSE}] \cup [ts : 1 .. MaxActs, pending : {TRUE}]
Confirmed(ts) == [ts |-> ts, pending |-> FALSE]

\* A goroutine that answers a command: what it was asked ("arg" is before or
\* the target), whether it has read Slack, and the rows still to be written.
Request ==
    [do : {"recent", "history", "jump"}, ch : Channels, arg : 0 .. MaxTS,
     stage : {"idle", "asked", "fetched", "sending"}, rows : Seq(TS),
     first : BOOLEAN, live : BOOLEAN]
Idle == [do |-> "recent", ch |-> Home, arg |-> 0, stage |-> "idle",
         rows |-> <<>>, first |-> TRUE, live |-> FALSE]
Begun(do, ch, arg) == [Idle EXCEPT !.do = do, !.ch = ch, !.arg = arg,
                                   !.stage = "asked", !.live = TRUE]

VARIABLES
    at,        \* channel of each message
    own,       \* messages posted from the user's account
    gone,      \* messages deleted in Slack
    cached,    \* messages with a row
    dead,      \* rows with is_deleted
    lastTS,    \* cursor of the poll loop
    mark,      \* what the daemon has Slack mark as read, last
    active,    \* d.activeCh if d.activeWS is set: {} or {channel}
    req,       \* answers being prepared
    up,        \* the UI is connected
    cur,       \* currentChannelId
    store,     \* _store
    shown,     \* messagesModel
    older,     \* loadingOlder
    noMore,    \* _noMore
    tries,     \* _recentRetry
    timer,     \* recentRetry: {} or {channel}
    outbox,    \* sends under way
    acts,
    synced     \* history: a page was loaded since the screen was cleared

slack == <<at, own, gone>>
table == <<cached, dead, lastTS>>
lists == <<store, shown>>
scroll == <<older, noMore>>
retry == <<tries, timer>>
vars == <<slack, table, mark, active, req, up, cur, lists, scroll, retry, outbox,
          acts, synced>>

Elems(s) == {s[i] : i \in DOMAIN s}
First(s, S) == CHOOSE i \in DOMAIN s : s[i] \in S /\ \A j \in 1 .. i - 1 : s[j] \notin S
Least(m, n) == IF m < n THEN m ELSE n
NewestOf(S) == CHOOSE n \in S : \A m \in S : m <= n
NewestOr0(S) == IF S = {} THEN 0 ELSE NewestOf(S)
Newest(n, S) == {ts \in S : Cardinality({u \in S : u > ts}) < n}
\* S in the order of its timestamps: there is one such sequence.
Sorted(S) ==
    {s \in [1 .. Cardinality(S) -> S] :
        \A i, j \in 1 .. Cardinality(S) : i < j => s[i] < s[j]}
Lines(rows) == [i \in DOMAIN rows |-> Confirmed(rows[i])]

Posts(ch) == {ts \in DOMAIN at : at[ts] = ch} \ gone
Rows(ch) == {ts \in cached : at[ts] = ch}
Pending(s) == {l \in Elems(s) : l.pending}

\* --- defective variants, for mutation runs ---
\* a line arrives on whatever screen there is
AppendLine_AnyScreen(ch, l) ==
    /\ store' = [store EXCEPT ![ch] = Append(@, l)]
    /\ shown' = Append(shown, l)
\* the echo takes the place of the user's first line, pending or not
ReconcileOptimistic_AnyOwn(ch, l) ==
    LET i == First(store[ch], Pending(store[ch]) \cup {Confirmed(ts) : ts \in own})
        opt == store[ch][i]
    IN  /\ store' = [store EXCEPT ![ch][i] = l]
        /\ shown' = IF ch = cur /\ opt \in Elems(shown)
                    THEN [shown EXCEPT ![First(shown, {opt})] = l] ELSE shown
\* an older page is put before the list as it came
OlderThanFirst_All(s, rows) == rows
\* empty answers are never believed
Stale_Forever(ch, rows, reset, final, jump) ==
    reset /\ final /\ ~jump /\ rows = <<>> /\ store[ch] # <<>>

\* The line a page is marked read at is the last one.
ReadUpTo(s) == s[Len(s)].ts

-----------------------------------------------------------------------------
(* The two copies                                                          *)

AppendLine(ch, l) ==
    /\ store' = [store EXCEPT ![ch] = Append(@, l)]
    /\ shown' = IF ch = cur THEN Append(shown, l) ELSE shown

\* The oldest pending line of the channel becomes the message; on screen the
\* line with the same number does.
ReconcileOptimistic(ch, l) ==
    LET i == First(store[ch], Pending(store[ch]))
        opt == store[ch][i]
    IN  /\ store' = [store EXCEPT ![ch][i] = l]
        /\ shown' = IF ch = cur /\ opt \in Elems(shown)
                    THEN [shown EXCEPT ![First(shown, {opt})] = l] ELSE shown

\* Lines carry no content: replacing one by a later version changes nothing.
Ingest(ts) ==
    LET ch == at[ts]
        l == Confirmed(ts)
    IN  \/ l \in Elems(store[ch]) /\ UNCHANGED lists
        \/ /\ l \notin Elems(store[ch])
           /\ ts \in own /\ Pending(store[ch]) # {}
           /\ ReconcileOptimistic(ch, l)
        \/ /\ l \notin Elems(store[ch])
           /\ ts \notin own \/ Pending(store[ch]) = {}
           /\ AppendLine(ch, l)

Without(s, l) ==
    IF l \notin Elems(s) THEN s
    ELSE SubSeq(s, 1, First(s, {l}) - 1) \o SubSeq(s, First(s, {l}) + 1, Len(s))

ApplyDelete(ts) ==
    LET ch == at[ts]
    IN  /\ store' = [store EXCEPT ![ch] = Without(@, Confirmed(ts))]
        /\ shown' = IF ch = cur THEN Without(shown, Confirmed(ts)) ELSE shown

-----------------------------------------------------------------------------
(* Commands                                                                *)

\* A goroutine starts; on a socket that is down the command is not written.
Start(do, ch, arg) ==
    IF up
    THEN \E q \in Reqs :
           /\ req[q] = Idle /\ \A p \in 1 .. q - 1 : req[p] # Idle
           /\ req' = [req EXCEPT ![q] = Begun(do, ch, arg)]
    ELSE UNCHANGED req

\* "recent" also says what the user looks at; a channel not joined has no
\* workspace and the command is ignored.
AskRecent(ch) ==
    IF up /\ ch \in Joined
    THEN Start("recent", ch, 0) /\ active' = {ch}
    ELSE UNCHANGED <<req, active>>

Act == acts < MaxActs /\ acts' = acts + 1

\* The screen is cleared for ch; its list in store stays.
Show(ch) ==
    /\ cur' = ch
    /\ shown' = <<>>
    /\ synced' = FALSE
    /\ older' = FALSE
    /\ noMore' = noMore \ {ch}

SelectChannel(ch) ==
    /\ Act /\ ch \in Joined
    /\ Show(ch)
    /\ AskRecent(ch)
    /\ UNCHANGED <<slack, table, mark, up, store, retry, outbox>>

\* A link to a message.  A channel the user is not in is not shown before its
\* window has come.
OpenPermalink(ts) ==
    LET ch == at[ts] IN
    /\ Act /\ ts \in DOMAIN at
    /\ IF ch \in Joined
       THEN Show(ch) /\ active' = IF up THEN {ch} ELSE active
       ELSE UNCHANGED <<cur, shown, synced, scroll, active>>
    /\ Start("jump", ch, ts)
    /\ UNCHANGED <<slack, table, mark, up, store, retry, outbox>>

\* Nothing comes of it if the first line is a pending one, whose number Slack
\* does not know, or if the channel has no workspace.
RequestOlder ==
    LET head == store[cur][1] IN
    /\ Act /\ ~older /\ cur \notin noMore /\ store[cur] # <<>>
    /\ older' = TRUE
    /\ IF head.pending \/ cur \notin Joined THEN UNCHANGED req
       ELSE Start("history", cur, head.ts)
    /\ UNCHANGED <<slack, table, mark, active, up, cur, lists, noMore, retry,
                   outbox, synced>>

\* loadingTimer, 5s
OlderTimeout ==
    /\ older
    /\ older' = FALSE
    /\ UNCHANGED <<slack, table, mark, active, req, up, cur, lists, noMore, retry,
                   outbox, acts, synced>>

\* recentRetry, 4s
RetryFires ==
    /\ timer # {}
    /\ timer' = {}
    /\ \E ch \in timer : AskRecent(ch)
    /\ UNCHANGED <<slack, table, mark, up, cur, lists, scroll, tries, outbox,
                   acts, synced>>

\* The sidebar: marked up to the newest row there is.
MarkChannelRead(ch) ==
    LET ts == NewestOr0(Rows(ch)) IN
    /\ Act /\ up /\ ch \in Joined /\ ts # 0
    /\ mark' = [mark EXCEPT ![ch] = ts]
    /\ UNCHANGED <<slack, table, active, req, up, cur, lists, scroll, retry, outbox, synced>>

\* The line is shown at once, whatever becomes of the command.
SendMessage ==
    /\ Act
    /\ AppendLine(cur, [ts |-> acts', pending |-> TRUE])
    /\ outbox' = IF up /\ cur \in Joined THEN [outbox EXCEPT ![cur] = @ + 1] ELSE outbox
    /\ UNCHANGED <<slack, table, mark, active, req, up, cur, scroll, retry,
                   synced>>

\* The daemon woke from suspend.
Resync ==
    /\ Act /\ up
    /\ AskRecent(cur)
    /\ UNCHANGED <<slack, table, mark, up, cur, lists, scroll, retry, outbox, synced>>

\* The UI loses the daemon, with the answers meant for that connection.
Disconnect ==
    /\ Act /\ up
    /\ up' = FALSE
    /\ req' = [q \in Reqs |-> [req[q] EXCEPT !.live = FALSE]]
    /\ UNCHANGED <<slack, table, mark, active, cur, lists, scroll, retry, outbox, synced>>

Redial ==
    /\ ~up
    /\ up' = TRUE
    /\ IF cur \in Joined
       THEN /\ active' = {cur}
            /\ \E q \in Reqs :
                 /\ req[q] = Idle /\ \A p \in 1 .. q - 1 : req[p] # Idle
                 /\ req' = [req EXCEPT ![q] = Begun("recent", cur, 0)]
       ELSE UNCHANGED <<req, active>>
    /\ UNCHANGED <<slack, table, mark, cur, lists, scroll, retry, outbox, acts, synced>>

-----------------------------------------------------------------------------
(* Answers                                                                 *)

\* conversations.history answers or fails.
Fetch(q, rows) == req' = [req EXCEPT ![q].stage = "fetched", ![q].rows = rows]
Answer(q, S) ==
    \E rows \in Sorted(S) :
      req' = [req EXCEPT ![q].stage = "sending", ![q].rows = rows]

Asked(q, do) == req[q].do = do /\ req[q].stage = "asked"

FetchRecent(q) ==
    /\ Asked(q, "recent")
    /\ \E rows \in Sorted(Newest(Page, Posts(req[q].ch))) \cup {<<>>} : Fetch(q, rows)
    /\ UNCHANGED <<slack, table, mark, active, up, cur, lists, scroll, retry,
                   outbox, acts, synced>>

\* What was fetched is upserted, which revives a row deleted meanwhile.
QueryRecent(q) ==
    /\ req[q].stage = "fetched"
    /\ cached' = cached \cup Elems(req[q].rows)
    /\ dead' = dead \ Elems(req[q].rows)
    /\ Answer(q, Newest(Window, {ts \in cached' \ dead' : at[ts] = req[q].ch}))
    /\ UNCHANGED <<slack, lastTS, mark, active, up, cur, lists, scroll, retry,
                   outbox, acts, synced>>

ReadHistory(q) ==
    /\ Asked(q, "history")
    /\ \/ Answer(q, Newest(Page, {ts \in Posts(req[q].ch) : ts < req[q].arg}))
       \/ req' = [req EXCEPT ![q] = Idle]
    /\ UNCHANGED <<slack, table, mark, active, up, cur, lists, scroll, retry,
                   outbox, acts, synced>>

\* The newer half only if it is whole; no access ends in the browser.
ReadJump(q) ==
    LET posts == Posts(req[q].ch)
        newer == {ts \in posts : ts > req[q].arg}
        upTo == Newest(Around, posts \ newer)
    IN
    /\ Asked(q, "jump")
    /\ \/ Answer(q, upTo \cup IF Cardinality(newer) > Around THEN {} ELSE newer)
       \/ req' = [req EXCEPT ![q] = Idle]
    /\ UNCHANGED <<slack, table, mark, active, up, cur, lists, scroll, retry,
                   outbox, acts, synced>>

Sending(q, do) == req[q].do = do /\ req[q].stage = "sending"

\* An empty answer for a list that is not is taken for a stale one.
Stale(ch, rows, reset, final, jump) ==
    /\ reset /\ final /\ ~jump
    /\ rows = <<>> /\ store[ch] # <<>> /\ tries[ch] < MaxTries

\* loadRecent, with "view" the channel on screen and "screen" what is on it.
LoadRecent(ch, rows, reset, final, jump, view, screen) ==
    IF Stale(ch, rows, reset, final, jump)
    THEN /\ tries' = [tries EXCEPT ![ch] = @ + 1]
         /\ timer' = {ch}
         /\ shown' = screen
         /\ UNCHANGED <<store, noMore, synced, mark>>
    ELSE /\ tries' = IF rows # <<>> THEN [tries EXCEPT ![ch] = 0] ELSE tries
         /\ store' = [store EXCEPT ![ch] = (IF reset THEN <<>> ELSE @) \o Lines(rows)]
         /\ shown' = IF ch # view THEN screen
                     ELSE (IF reset THEN <<>> ELSE screen) \o Lines(rows)
         /\ noMore' = IF reset THEN noMore \ {ch} ELSE noMore
         /\ synced' = (synced \/ (reset /\ ch = view))
         /\ IF final /\ ch = view /\ ch \in Joined /\ store'[ch] # <<>>
            THEN mark' = [mark EXCEPT ![ch] = ReadUpTo(store'[ch])]
            ELSE UNCHANGED mark
         /\ UNCHANGED timer

\* One piece of the answer.
WriteRecent(q) ==
    LET r == req[q]
        piece == SubSeq(r.rows, 1, Least(Chunk, Len(r.rows)))
        rest == SubSeq(r.rows, Least(Chunk, Len(r.rows)) + 1, Len(r.rows))
    IN
    /\ Sending(q, "recent")
    /\ req' = [req EXCEPT ![q] = IF rest = <<>> THEN Idle
                                 ELSE [r EXCEPT !.rows = rest, !.first = FALSE]]
    /\ IF r.live
       THEN LoadRecent(r.ch, piece, r.first, rest = <<>>, FALSE, cur, shown)
       ELSE UNCHANGED <<lists, mark, noMore, retry, synced>>
    /\ UNCHANGED <<slack, table, active, up, cur, older, outbox, acts>>

\* A channel the user is not in is adopted now.
WriteJump(q) ==
    LET r == req[q]
        adopt == r.live /\ r.ch # cur /\ r.ch \notin Joined
    IN
    /\ Sending(q, "jump")
    /\ req' = [req EXCEPT ![q] = Idle]
    /\ cur' = IF adopt THEN r.ch ELSE cur
    /\ active' = IF adopt THEN {} ELSE active
    /\ older' = IF adopt THEN FALSE ELSE older
    /\ IF r.live
       THEN LoadRecent(r.ch, r.rows, TRUE, TRUE, TRUE, cur', IF adopt THEN <<>> ELSE shown)
       ELSE UNCHANGED <<lists, mark, noMore, retry, synced>>
    /\ UNCHANGED <<slack, table, up, outbox, acts>>

\* What is not older than the first line is dropped; a pending first line is
\* newer than everything.
OlderThanFirst(s, rows) ==
    IF s = <<>> \/ s[1].pending THEN rows
    ELSE SubSeq(rows, 1, Cardinality({i \in DOMAIN rows : rows[i] < s[1].ts}))

PrependOlder(ch, rows) ==
    LET new == OlderThanFirst(store[ch], rows)
    IN  /\ older' = FALSE
        /\ noMore' = IF new = <<>> THEN noMore \cup {ch} ELSE noMore
        /\ store' = [store EXCEPT ![ch] = Lines(new) \o @]
        /\ shown' = IF ch = cur THEN Lines(new) \o shown ELSE shown

WriteHistory(q) ==
    /\ Sending(q, "history")
    /\ req' = [req EXCEPT ![q] = Idle]
    /\ IF req[q].live THEN PrependOlder(req[q].ch, req[q].rows)
       ELSE UNCHANGED <<lists, scroll>>
    /\ UNCHANGED <<slack, table, mark, active, up, cur, retry, outbox, acts, synced>>

-----------------------------------------------------------------------------
(* Slack, and what the daemon hears of it                                  *)

\* A message is posted, by the user or not; its event may be lost.
Posted(ch, mine) ==
    LET ts == Len(at) + 1 IN
    /\ ts <= MaxTS
    /\ at' = Append(at, ch)
    /\ own' = IF mine THEN own \cup {ts} ELSE own
    /\ \E heard \in BOOLEAN :
         cached' = IF heard /\ ch \in Joined THEN cached \cup {ts} ELSE cached

Post(ch) ==
    /\ \E mine \in BOOLEAN : Posted(ch, mine)
    /\ UNCHANGED <<gone, dead, lastTS, mark, active, req, up, cur, lists, scroll,
                   retry, outbox, acts, synced>>

\* A send of this UI ends.
SendPosts(ch) ==
    /\ outbox[ch] > 0
    /\ outbox' = [outbox EXCEPT ![ch] = @ - 1]
    /\ Posted(ch, TRUE)
    /\ UNCHANGED <<gone, dead, lastTS, mark, active, req, up, cur, lists, scroll,
                   retry, acts, synced>>

SendFails(ch) ==
    /\ outbox[ch] > 0
    /\ outbox' = [outbox EXCEPT ![ch] = @ - 1]
    /\ UNCHANGED <<slack, table, mark, active, req, up, cur, lists, scroll, retry,
                   acts, synced>>

\* An edit, or the unfurl of a link: announced at once.
Edit(ts) ==
    /\ Act /\ ts \notin gone /\ at[ts] \in Joined
    /\ cached' = cached \cup {ts}
    /\ dead' = dead \ {ts}
    /\ IF up THEN Ingest(ts) ELSE UNCHANGED lists
    /\ UNCHANGED <<slack, lastTS, mark, active, req, up, cur, scroll, retry, outbox,
                   synced>>

Delete(ts) ==
    /\ Act /\ ts \notin gone
    /\ gone' = gone \cup {ts}
    /\ \/ /\ at[ts] \in Joined
          /\ dead' = dead \cup ({ts} \cap cached)
          /\ IF up THEN ApplyDelete(ts) ELSE UNCHANGED lists
       \/ UNCHANGED <<dead, lists>>
    /\ UNCHANGED <<at, own, cached, lastTS, mark, active, req, up, cur, scroll,
                   retry, outbox, synced>>

\* The poll loop takes the oldest row above its cursor; with the window in
\* focus, somebody else's message in the active channel is marked as read.
Announce ==
    LET fresh == {ts \in cached \ dead : ts > lastTS}
        ts == CHOOSE t \in fresh : \A u \in fresh : t <= u
    IN
    /\ fresh # {}
    /\ lastTS' = ts
    /\ IF up THEN Ingest(ts) ELSE UNCHANGED lists
    /\ \E focused \in BOOLEAN :
         IF focused /\ ts \notin own /\ at[ts] \in active
         THEN mark' = [mark EXCEPT ![at[ts]] = ts] ELSE UNCHANGED mark
    /\ UNCHANGED <<slack, cached, dead, active, req, up, cur, scroll, retry,
                   outbox, acts, synced>>

-----------------------------------------------------------------------------

\* The UI has just connected and opened its first channel.
Init ==
    /\ at = <<>> /\ own = {} /\ gone = {}
    /\ cached = {} /\ dead = {} /\ lastTS = 0
    /\ mark = [ch \in Channels |-> 0]
    /\ active = {Home}
    /\ req = [q \in Reqs |->
                IF q = 1 THEN Begun("recent", Home, 0) ELSE Idle]
    /\ up = TRUE /\ cur = Home
    /\ store = [ch \in Channels |-> <<>>] /\ shown = <<>>
    /\ older = FALSE /\ noMore = {}
    /\ tries = [ch \in Channels |-> 0] /\ timer = {}
    /\ outbox = [ch \in Channels |-> 0]
    /\ acts = 0
    /\ synced = FALSE

User ==
    \/ \E ch \in Channels : SelectChannel(ch) \/ MarkChannelRead(ch)
    \/ \E ts \in DOMAIN at : OpenPermalink(ts)
    \/ RequestOlder \/ SendMessage

Timers == OlderTimeout \/ RetryFires \/ Redial

Slack ==
    \/ \E ch \in Channels : Post(ch) \/ SendPosts(ch) \/ SendFails(ch)
    \/ \E ts \in DOMAIN at : Edit(ts) \/ Delete(ts)

Daemon(q) ==
    \/ FetchRecent(q) \/ QueryRecent(q) \/ WriteRecent(q)
    \/ ReadHistory(q) \/ WriteHistory(q)
    \/ ReadJump(q) \/ WriteJump(q)

Next ==
    \/ User \/ Timers \/ Slack
    \/ \E q \in Reqs : Daemon(q)
    \/ Announce \/ Resync \/ Disconnect

Spec == Init /\ [][Next]_vars

-----------------------------------------------------------------------------
(* Properties                                                              *)

TypeOK ==
    /\ at \in Seq(Channels) /\ Len(at) <= MaxTS
    /\ own \subseteq TS /\ gone \subseteq TS
    /\ cached \subseteq TS /\ dead \subseteq TS /\ lastTS \in 0 .. MaxTS
    /\ mark \in [Channels -> 0 .. MaxTS]
    /\ active \in SUBSET Joined /\ timer \in SUBSET Joined
    /\ req \in [Reqs -> Request]
    /\ up \in BOOLEAN /\ cur \in Channels
    /\ store \in [Channels -> Seq(Line)] /\ shown \in Seq(Line)
    /\ older \in BOOLEAN /\ noMore \subseteq Channels
    /\ tries \in [Channels -> 0 .. MaxTries]
    /\ outbox \in [Channels -> 0 .. MaxActs] /\ acts \in 0 .. MaxActs
    /\ synced \in BOOLEAN

\* Once a page has been loaded into a cleared screen, the screen and the list
\* kept for the channel are the same, line by line, through everything that
\* changes them: announcements, echoes, deletions, pages in pieces, older pages
\* (Backend.qml does each of them twice).
TwoCopiesAgree == synced => shown = store[cur]

Promised ==
    INSTANCE OneList WITH
        Last <- MaxTS, Sends <- 1 .. MaxActs, list <- store, view <- cur,
        opened <- synced, screen <- IF synced THEN shown ELSE <<>>

\* The UI implements OneList: whatever answers, announcements and deletions
\* cross, each list changes in one of the ways a user expects, and the screen
\* with it; an older page that comes late repeats nothing.
ImplementsOneList == Promised!Spec

\* The step is the first piece of an answer that replaces the list of ch: one
\* that is not the stale, empty answer loadRecent does not believe.
Replaces(ch) ==
    \E q \in Reqs :
      /\ req[q].ch = ch /\ req[q].stage = "sending"
      /\ req[q].do \in {"recent", "jump"} /\ req[q].first
      /\ req'[q] # req[q]
      /\ ~ Stale(ch, req[q].rows, TRUE, TRUE, req[q].do = "jump")

\* What the user has seen stays: except for a new page, a line leaves a list
\* only because its message is deleted or, a pending one, because one of the
\* user's own messages takes a place it did not have.
LinesStay ==
    [][\A ch \in Channels : ~ Replaces(ch) =>
         \A l \in Elems(store[ch]) \ Elems(store'[ch]) :
           IF l.pending
           THEN \E n \in Elems(store'[ch]) \ Elems(store[ch]) : ~ n.pending /\ n.ts \in own
           ELSE l.ts \in gone']_vars
=============================================================================
