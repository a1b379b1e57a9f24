------------------------------- MODULE ReadState -------------------------------
(***************************************************************************)
(* What is unread in a channel: the table's last_read                      *)
(* (internal/cache/channels_read_state.go), who writes it (wshandler.go,   *)
(* backfill.go, main.go), what the poll loop tells the client about it,    *)
(* and the badge the client keeps (ui/Backend.qml).                        *)
(*                                                                         *)
(* The badge is counted up by the client, message by message, and set by   *)
(* the poll loop whenever last_read has changed, from a count of the rows  *)
(* made at that moment.  Both travel on one connection.  A channel list    *)
(* sent while the client runs leaves the badge alone (setChannels).        *)
(*                                                                         *)
(* The poll loop has one cursor for the rows of all channels, so a message *)
(* that is cached late, by a backfill or with a page, may come behind it:  *)
(* then it is never told, and only a count finds it.                       *)
(***************************************************************************)
EXTENDS Naturals, Sequences, FiniteSets, FiniteSetsExt

CONSTANTS
    MaxTS,        \* bound: messages of the workspace, by timestamp
    MaxMarks,     \* bound: marks made by the user, here or elsewhere
    MaxSnapshots  \* bound: backfills

ASSUME ReadStateAssumption == MaxTS \in Nat

VARIABLES
    rows,       \* cached messages of others, top level, with a text
    uncached,   \* such messages that are not in the table yet
    others,     \* cached messages of other channels
    lastRead,   \* channels.last_read_ts; 0 when empty
    mark,       \* Slack's own
    covered,    \* history: the highest mark there was
    echoes,     \* channel_marked events on their way
    snapshot,   \* what client.counts said, until it is written
    cursor, known,  \* the poll loop: lastTS, lastRead
    tick,       \* the tick at hand: rows to tell, then the rows counted
    behind,     \* history: rows that came behind the cursor and are in no count since
    readWire,       \* lines on their way to the client
    viewing,    \* the client shows the channel
    badge, seen,
    written,    \* bound: messages so far
    marks, snapshots

pollVars == <<cursor, known, tick>>
rowVars == <<rows, uncached, others, behind, written>>
markVars == <<mark, covered, echoes>>
clientState == <<viewing, badge, seen>>
readVars == <<rowVars, lastRead, markVars, snapshot, pollVars, readWire, clientState,
              marks, snapshots>>

NoTick == [at |-> "wait"]
NewestRow == Max(rows \cup {0})
UnreadAfter(ts) == {x \in rows : x > ts}

\* --- defective variants, for mutation runs ---
\* the client drops a line for a channel it does not show
Counted_Never == badge

-----------------------------------------------------------------------------
(* Slack                                                                   *)

\* A message is posted, in this channel or in another one.
PostMark ==
    /\ written < MaxTS /\ written' = written + 1
    /\ \/ uncached' = uncached \cup {written'} /\ UNCHANGED others
       \/ others' = others \cup {written'} /\ UNCHANGED uncached
    /\ UNCHANGED <<rows, behind, lastRead, markVars, snapshot, pollVars, readWire, clientState,
                   marks, snapshots>>

\* Slack takes a mark, from whichever client, and says so; the event may not come.
Marked(ts) ==
    /\ mark' = ts /\ covered' = Max({covered, ts})
    /\ echoes' \in {echoes, Append(echoes, ts)}

ReadElsewhere(ts) ==
    /\ marks < MaxMarks /\ marks' = marks + 1
    /\ ts > mark /\ Marked(ts)
    /\ UNCHANGED <<rowVars, lastRead, snapshot, pollVars, readWire, clientState, snapshots>>

-----------------------------------------------------------------------------
(* The table                                                               *)

\* The cursor is past a message, or will be when this tick has told its rows.
Passed(x) == x <= cursor \/ (tick.at = "rows" /\ \E y \in tick.rest : x < y)

\* A message's row is written: by its event, or later by a backfill or with a page.
CacheMessage(x) ==
    /\ x \in uncached /\ uncached' = uncached \ {x}
    /\ rows' = rows \cup {x}
    /\ behind' = IF Passed(x) THEN behind \cup {x} ELSE behind
    /\ UNCHANGED <<others, written, lastRead, markVars, snapshot, pollVars, readWire, clientState,
                   marks, snapshots>>

\* UpdateChannelReadState: an empty mark leaves the one that is there.
UpdateChannelReadState(ts) == lastRead' = IF ts = 0 THEN lastRead ELSE ts

OnChannelMarked ==
    /\ echoes # <<>> /\ echoes' = Tail(echoes)
    /\ UpdateChannelReadState(Head(echoes))
    /\ UNCHANGED <<rowVars, mark, covered, snapshot, pollVars, readWire, clientState, marks, snapshots>>

\* A backfill asks for the counts and writes them when they have come.
GetUnreadCounts ==
    /\ snapshot = {} /\ snapshots < MaxSnapshots /\ snapshots' = snapshots + 1
    /\ snapshot' = {mark}
    /\ UNCHANGED <<rowVars, lastRead, markVars, pollVars, readWire, clientState, marks>>

BatchUpdateChannelReadState ==
    /\ snapshot # {} /\ snapshot' = {}
    /\ \E ts \in snapshot : UpdateChannelReadState(ts)
    /\ UNCHANGED <<rowVars, markVars, pollVars, readWire, clientState, marks, snapshots>>

-----------------------------------------------------------------------------
(* The poll loop                                                           *)

PollRows ==
    /\ tick = NoTick
    /\ tick' = [at |-> "rows", rest |-> {x \in rows \cup others : x > cursor}]
    /\ UNCHANGED <<rowVars, lastRead, markVars, snapshot, cursor, known, readWire, clientState,
                   marks, snapshots>>

TellRow ==
    /\ tick.at = "rows"
    /\ IF tick.rest = {} THEN /\ tick' = [at |-> "unread"] /\ UNCHANGED <<cursor, readWire>>
       ELSE LET x == Min(tick.rest) IN
            /\ tick' = [tick EXCEPT !.rest = @ \ {x}] /\ cursor' = x
            /\ readWire' = IF x \in others THEN readWire
                           ELSE Append(readWire, [kind |-> "message", n |-> x])
    /\ UNCHANGED <<rowVars, lastRead, markVars, snapshot, known, clientState, marks, snapshots>>

\* last_read is read, the rows after it are counted, and the count is sent when
\* the others have been made.
CountUnread ==
    /\ tick.at = "unread"
    /\ IF known = lastRead THEN tick' = NoTick /\ UNCHANGED known
       ELSE known' = lastRead /\ tick' = [at |-> "push", unread |-> UnreadAfter(lastRead)]
    /\ UNCHANGED <<rowVars, lastRead, markVars, snapshot, cursor, readWire, clientState, marks,
                   snapshots>>

PushUnread ==
    /\ tick.at = "push" /\ tick' = NoTick
    /\ readWire' = Append(readWire, [kind |-> "unread", n |-> Cardinality(tick.unread)])
    /\ behind' = behind \ tick.unread
    /\ UNCHANGED <<rows, uncached, others, written, lastRead, markVars, snapshot, cursor, known,
                   clientState, marks, snapshots>>

-----------------------------------------------------------------------------
(* The client                                                              *)

\* ingest: a message counts unless it is shown, or was.
Counted == badge + 1

Ingest ==
    /\ readWire # <<>> /\ Head(readWire).kind = "message" /\ readWire' = Tail(readWire)
    /\ \/ Head(readWire).n \in seen /\ UNCHANGED <<badge, seen>>
       \/ /\ Head(readWire).n \notin seen
          /\ IF viewing THEN seen' = seen \cup {Head(readWire).n} /\ UNCHANGED badge
                        ELSE badge' = Counted /\ UNCHANGED seen
    /\ UNCHANGED <<rowVars, lastRead, markVars, snapshot, pollVars, viewing, marks, snapshots>>

SetChannelUnread ==
    /\ readWire # <<>> /\ Head(readWire).kind = "unread" /\ readWire' = Tail(readWire)
    /\ badge' = Head(readWire).n
    /\ UNCHANGED <<rowVars, lastRead, markVars, snapshot, pollVars, viewing, seen, marks, snapshots>>

\* The channel is opened and its page marked read up to its end, at once in the
\* table and then at Slack; or another one is opened.
SelectChannel ==
    /\ ~viewing /\ marks < MaxMarks /\ marks' = marks + 1
    /\ viewing' = TRUE /\ badge' = 0 /\ seen' = seen \cup rows
    /\ IF rows = {} THEN UNCHANGED <<lastRead, markVars>>
       ELSE UpdateChannelReadState(NewestRow) /\ Marked(NewestRow)
    /\ UNCHANGED <<rowVars, snapshot, pollVars, readWire, snapshots>>

LeaveChannel ==
    /\ viewing /\ viewing' = FALSE
    /\ UNCHANGED <<rowVars, lastRead, markVars, snapshot, pollVars, readWire, badge, seen, marks,
                   snapshots>>

\* The sidebar marks everything read that the daemon has.
MarkRead ==
    /\ marks < MaxMarks /\ marks' = marks + 1
    /\ badge' = 0
    /\ IF rows = {} THEN UNCHANGED <<lastRead, markVars>>
       ELSE UpdateChannelReadState(NewestRow) /\ Marked(NewestRow)
    /\ UNCHANGED <<rowVars, snapshot, pollVars, readWire, viewing, seen, snapshots>>

-----------------------------------------------------------------------------
ReadInit ==
    /\ rows = {} /\ uncached = {} /\ others = {} /\ behind = {}
    /\ lastRead = 0 /\ mark = 0 /\ covered = 0 /\ echoes = <<>> /\ snapshot = {}
    /\ cursor = 0 /\ known = 0 /\ tick = NoTick /\ readWire = <<>>
    /\ viewing = FALSE /\ badge = 0 /\ seen = {}
    /\ written = 0 /\ marks = 0 /\ snapshots = 0

ReadNext ==
    \/ PostMark \/ (\E x \in uncached : CacheMessage(x))
    \/ (\E ts \in rows \cup uncached : ReadElsewhere(ts))
    \/ OnChannelMarked \/ GetUnreadCounts \/ BatchUpdateChannelReadState
    \/ PollRows \/ TellRow \/ CountUnread \/ PushUnread
    \/ Ingest \/ SetChannelUnread
    \/ SelectChannel \/ LeaveChannel \/ MarkRead

ReadSpec == ReadInit /\ [][ReadNext]_readVars

-----------------------------------------------------------------------------
(* Properties                                                              *)

ReadTypeOK ==
    /\ rows \cup uncached \cup others \subseteq 1 .. MaxTS
    /\ seen \cup behind \subseteq rows
    /\ {lastRead, mark, covered, cursor, known} \subseteq 0 .. MaxTS /\ snapshot \subseteq 0 .. MaxTS
    /\ tick.at \in {"wait", "rows", "unread", "push"}
    /\ readWire \in Seq([kind : {"message", "unread"}, n : Nat])
    /\ viewing \in BOOLEAN /\ badge \in Nat

\* When the poll loop and the connection have nothing left to say, a channel with
\* a message that no mark ever covered and that has not been shown has a badge, in
\* whatever order rows, ticks, marks, counts and openings came (main.go:1237-1302,
\* Backend.qml:1535).  Two things are left out.  A message cached behind the cursor,
\* which the rows of all channels move, is never told (main.go:1237, 1249): the
\* channel keeps the badge it had (Backend.qml:454-472) until a change of last_read
\* makes a count with the message in it.  And a message marked read before may lose
\* its badge for good: a late channel_marked or count takes last_read back past it.
Settled == /\ readWire = <<>> /\ tick = NoTick /\ known = lastRead
           /\ \A x \in rows \cup others : x <= cursor
UnreadShows ==
    (Settled /\ ~viewing
        /\ \E x \in rows \ (seen \cup behind) : x > lastRead /\ x > covered) => badge > 0
=============================================================================
