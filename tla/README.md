# Verification of slqs

slqs is a Slack client split in two: a daemon in Go that keeps a websocket and a
REST session per workspace, a SQLite cache and a unix socket, and a QML user
interface that keeps the lists it shows from what the daemon writes. This
directory holds TLA+ models of their concurrent parts, the TLC runs that check
them on small instances, and proofs, checked with TLAPS, that the main invariants
hold for every value of the constants.

A component is a module `X.tla`: its state, one action per operation or step of a
goroutine, and its properties. Two modules are abstract specifications, of what the
user is promised: `Delivery` (SyncPipeline implements it) and `OneList` (ChannelView
does). Components
that belong to one side of the program are gathered in a module that states what they
promise together: `Tables` (Reactions, SearchStore, ReadState), `People` (Directory,
Membership), `Desktop` (Notifier, Focus), `Pictures` (PermalinkPreviews, ImageFetch,
EmojiPlace, InlineImages, Media, Display), and `Workspace`, which has the first three
with AttachSend, Session, Clients and Listings. The theorems are in seven modules:

| Proofs | Theorems about |
|---|---|
| `SyncPipeline_proofs` | SyncPipeline, and Delivery |
| `ThreadSubs_proofs` | ThreadSubs |
| `ChannelView_proofs` | ChannelView, and OneList |
| `Pictures_proofs` | PermalinkPreviews, ImageFetch, EmojiPlace, InlineImages, Media, Display, Pictures |
| `Desktop_proofs` | Notifier, Focus, Desktop, AttachSend, Clients |
| `People_proofs` | Membership, Directory, People, Session |
| `Tables_proofs` | Reactions, SearchStore, ReadState, Tables, Listings, Workspace |

`EventRuns` has an operator and lemmas on queues of events that three of these use.
Four components are checked by runs of
their own (`MCSyncPipeline`, `MCThreadSubs`, `MCChannelView`, and `MCAttachSend` for
a comment that does not hold). The others are checked in three compositions:

- `MCPictures`: what a message is drawn with;
- `MCWorkspace`: what the daemon keeps for its clients, its workspaces and its desktop;
- `MCGoroutines`: what must happen in the end, under fairness.

The parts of a composition have maps, locks, tables and directories of their own; what
several of them do share, the message table and the socket, each takes as its
environment (rows are written, events come, connections end), so a step of another part
is a step its own model has already. One part, chosen at the start of a behaviour by
`part`, moves, and the state space is the sum, not the product, of theirs. Components
whose properties are about state they share are one module instead: the socket, backfill
and poll loop (SyncPipeline), both ends of the list of messages (ChannelView), the table
of reads and the client's badge (ReadState), the connection and the presence lists sent
on it (Session). To check and to prove:

    tlc -workers 2 -config SyncPipeline_restart.cfg MCSyncPipeline.tla
    tlc -workers 2 -config Workspace.cfg MCWorkspace.tla
    tlapm SyncPipeline_proofs.tla

## 1. Inventory

State is in memory unless "cache.db" or a directory is named. "Hard" says what a
test would hardly reach.

| Component (module) | State | Operations | Hard | What makes it correct |
|---|---|---|---|---|
| Message pipeline (SyncPipeline): `wshandler.go`, `backfill.go`, `pollWorkspace` in `main.go`, `persistMessage` | message table of cache.db, poll cursor `lastTS`, `lastBackfill` | live events, reconnect backfill with a worker per channel, poll tick, restart | three writers and readers of one table without a common lock; lost events; the 30s gate; capped fetches; crashes between rows | no message is notified twice; what is written reaches the UI; what was missed above the watermark comes back |
| Followed threads (ThreadSubs): `thread_subscriptions.go`, `backfillSubscriptions`, commands `replies`, `markThreadRead`, `unsubThread`, `react` | table `thread_subscriptions` of cache.db; Slack's own list | live events, paginated listing and reconcile, commands that mix API calls and writes | a list up to 90s old applied to a newer table; partial listings; goroutines per command | `last_read` only forward; nothing unread is marked read; a followed thread is not dropped |
| Opening channels (ChannelView): `sendRecent`, `sendHistory`, `sendJump`, and `Backend.qml`'s `loadRecent`, `prependOlder`, `ingest` | message table; `_store` and `messagesModel`, the two copies of a list; `_noMore`, `_recentRetry`, timers | a live fetch written back, then the table read, rendered and written in pieces; older pages; links; pending lines and their echoes | live lines between reading a page and its last piece; two answers at a time; an answer for a screen that was left | the two copies agree; no line is lost; nothing is marked read that was not shown |
| Attachments (AttachSend): `send`, `uploadClipboard`, `uploadFile`, `dropAttach` | `uploading`, `pendingAttach`, `pendingAttachThread` | a goroutine per upload and per send | goroutines start in another order than their commands; 20s timeout | a file is posted once, in its thread, with the send that follows the paste |
| Channels and names (Directory): `joinChannel`, `registerChannel`, `openDM`, `resolveUnknownUsers`, `sendChannels` | maps `chans`, `chanKind`, `idIndex`, `users`, `userMiss` | copy, add, assign; look-ups of people; the list for the client | copy-on-write without a lock; a list read before and sent after another | the client's list is the daemon's; a name, once learned, stays |
| Read state (ReadState): `channels_read_state.go`, `OnChannelMarked`, `maybeMarkActiveRead`, `pollWorkspace`, `Backend.qml` | `last_read_ts`, `has_unread` of cache.db; the client's badge | live marks, counts of a backfill, commands, the poll loop's count | snapshots older than marks; a count that passes the messages it counts; rows cached behind the poll cursor | what was not read shows a badge |
| Reactions (Reactions): `cache/reactions.go`, `wshandler.go` | reactions table | live add and remove, a page that replaces the row | read, change, write over several statements; Slack lists only some of the users | the count is Slack's |
| Socket and presence (Session): `connection.go`, `client.go`, `events.go`, `resubPresence`, `watchPresence` | reconnect URL, backoff; `presSubs`, presence of users | dial, migrate, keepalive, reconnect; the subscription replaced as a whole | dead URLs, dials that hang, sockets that go silent; lists sent after the lock is released | connected again; who is watched is shown as they are |
| Client connections (Clients): `main.go` | `conns`, `pendingOpen`, `threadsDirtyTimer`, `updateEvent` | accept, broadcast, debounced refresh, update check, click on a notification | a client that connects between check and use; a list built before a change | every client knows; a target is opened once |
| Desktop notifications (Notifier): `notify/notifier.go` | session bus, `lastID`, ids of conversations | notify, replace, activate, reconnect | ids of an old bus; a close that is on its way; a reply lost with its connection | an activation opens what it showed |
| Focus (Focus): `watchNiriFocus`, `maybeNotify`, `maybeMarkActiveRead`, `ShouldNotify` | windows, `appActive`, `activeCh` | events of the compositor, restarts of the stream, the client's focus | windows that open and close while the stream is down | the daemon knows whether its client has the focus; a message is told, or marked read, accordingly |
| Message search and migrations (SearchStore): `cache/db.go`, `search.go`, `messages.go` | cache.db and its search index | opening in steps, triggers, upsert, delete, search | a crash between two migrations | a search finds what is there |
| Listings (Listings): `slack/client.go` | the pages read so far | channels, members, replies, sections, history, threads | rate limits, deadlines, caps, a list that changes between pages | no item twice, none left out in between |
| Channel membership (Membership): `membership/manager.go`, `channel_members.go` | membership table and its copy in memory | lazy fetch, join, leave | events during a fetch, several callers at once | one fetch; the table is Slack's. No importer in the daemon |
| Permalink previews (PermalinkPreviews): `permalink.go` | `prevDone`, `prevInfl`, `prevWait`, `permaSem` | look-up while rendering, asynchronous fetch, rebroadcast | check and registration in different critical sections | one fetch per link; nobody waits for a fetch that is not there |
| Inline images (InlineImages): `imagesJSON`, `downloadFile`, `extractPoster`, `view` | image directory, `imgSem` | placeholder, fetch, retries, second broadcast | two downloads of one file; a broadcast that overtakes its line | a file in place is whole; a placeholder goes |
| Avatars and custom emoji (Media): `cacheAvatar`, `scanAvatars`, `cacheCustomEmoji` | image directories, `avatars`, `avInflight`, `emoji.json` | download, rename, scan at start | a crash between write and rename; workspaces that write one list in place, which the client reads meanwhile | a face is whole; the list the client reads is complete |
| What a message shows (Display): `cache_render.go`, `main.go` | the raw message in cache.db | rendering from the cache and from a page; buttons | two functions for one message | the same row on both ways; a mention shows |
| Markdown (Markup): `slack/mrkdwn` | – | one walk that writes plain text and blocks | a style kept too long, tokens that text can forge | both outputs say what was typed |
| Image fetcher (ImageFetch): `image/fetcher.go`, `cache.go` | single flight, slots, LRU index, directory | fetch, authenticate, back off, evict, restart | a file written before the lock; a key under two file names; slots kept on errors | index and directory agree; every call returns. Used by `internal/emoji` only |
| Emoji placement (EmojiPlace): `emoji/place.go`, `image/kitty.go`, `registry.go` | terminal ids, uploads, fetches in flight | place, fetch, flush, preview | renderings kept by one surface and drawn by another; surfaces that want other cells | the id on screen is the picture. No caller in the daemon |

How they interact. The websocket read loop (`Client.StartWebSocket`) hands events
to `rtmHandler` one at a time; a (re)connect starts `backfill` in a goroutine of
its own. Both write cache.db. `pollWorkspace`, one goroutine per workspace, reads
it every tick and is the only one to broadcast new messages and to raise
notifications; edits, deletions, previews and images are broadcast by whoever learns
of them. Commands of the UI come in over the unix socket (`readConn`) one at a time,
and most start a goroutine. SQLite serialises single statements, so each
statement, or explicit transaction, is one atomic step of the models; so is each
critical section of a mutex.

## 2. The models and the code

### SyncPipeline

How messages get from Slack into the cache and from there to the UI.

| Model | Code |
|---|---|
| `srv`, `Post`, `Edit`, `Delete` | Slack (environment) |
| `sock`, `stream`, `Connect`, `Drop` | the websocket; events not yet read are lost with it |
| `OnMessage`, `OnMessageDeleted` | `wshandler.go`; an edit or deletion is broadcast, a new message is not |
| `PassGate`, `GateExpires` | the 30s gate at the top of `backfill` |
| `ListCandidates` | `client.counts`, `BackfillCandidates` |
| `ReadWatermark`, `FetchHistory`, `FetchFails`, `PersistMessage` | one worker of `backfillChannels`, split where other goroutines can come between |
| `PollQuery`, `PollRow` | one tick of `pollWorkspace`: query, then row by row |
| `Restart` | the process dies; cache.db survives; the cursor is recomputed as `MAX(ts)` |

A message is its timestamp, a number; its content is a revision (posted, edited,
deleted). `home` and `top` say which channel a message belongs to and whether it
is a thread reply; they are chosen once, which is the same as choosing them when
it is posted. `stream` is unbounded in the code and bounded here by the number of
messages and changes.

Abstracted: the pages of one history fetch are read in one step (the cap is kept
across them); the semaphore of four workers (it only forbids interleavings);
`GetHistorySince` looks at its deadline only while it waits for the rate limit,
which `FetchFails` covers at any time. Left out: rows that opening a channel or a
thread, or the root messages of the thread listing, write into the same table
(ChannelView has the first); events without content, which the handler skips;
`maybeMarkActiveRead`; reactions, which `persistMessage` writes too.

`Delivery.tla` says what all this is for, without goroutines, sockets or crashes:
messages are stored for good, a cursor moves forward over stored messages, each is
told to the user when the cursor gets to it or never, and starting again skips to
the newest stored one. SyncPipeline implements it (`ImplementsDelivery`) with
stored <- the cached rows, cursor <- `lastTS`, told <- `notified`.

### ThreadSubs

The table of followed threads against Slack's list.

| Model | Code |
|---|---|
| `Upsert`, `Advance`, `DeleteRow`, `Reconciled` | the four statements of `thread_subscriptions.go`; `Reconciled` is one transaction |
| `OnThreadMarked`, `OnThreadSubscriptionChanged` | `wshandler.go` |
| `StartListing`, `ListPage`, `ListingTimesOut`, `ListingFails` | `ListThreadSubscriptions`: pages newest first, `current_ts`, the cap, the 90s |
| `UpsertPartial`, `ReconcileThreadSubscriptions` | the two ends of `backfillSubscriptions` |
| `OpenThread` … `MarkThread` | `replies` and `markThreadRead`: fetch, advance, check, mark |
| `UnsubThread`, `CallUnsubscribe`, `DeleteThreadSubscription` | `unsubThread` |
| `React`, `AddReaction`, `UndoFollow`, `ForgetFollow` | `react`, with Slack's auto-follow and its undoing |
| `Follow`, `UnfollowElsewhere`, `ReadElsewhere`, `Reply` | Slack and the user's other clients |

Two variables are history only: `seen` (what the user has read, in any client)
and `steady` (threads followed and quiet since a listing began). What Slack means
by the `active` flag of `thread_marked`, and whether marking a thread follows it,
is not known from the code: both are left open.

### PermalinkPreviews

`Lookup` and `FetchAsync` are the two critical sections of a rendering,
`Broadcast` its end. `AcquireSem`, `Publish` and `Rebroadcast` are the fetch
goroutine. A preview is a link that resolved or did not. `view` is the last
broadcast of a host, `offered` all the previews it was ever broadcast with.
`prevDone` is never evicted, as in the code.

### AttachSend

One conversation. `UploadCommand` registers the upload synchronously, its
goroutine goes through `Stage`, `CloseDone` or `UploadFails`. `SendCommand` starts
a goroutine that goes through `Observe`, `UploadDone` or `TimesOut`, `TakeAttach`,
`Post` and `Share`. `last` and `prev` record the order in which commands were
read, for the properties.

### ChannelView

The list of messages on screen, and the daemon's side of it: both ends of the
unix socket in one module, because the property is about the two together.

| Model | Code |
|---|---|
| `store`, `shown`, `cur`, `older`, `noMore`, `tries`, `timer` | `_store`, `messagesModel`, `currentChannelId`, `loadingOlder`, `_noMore`, `_recentRetry`, `recentRetry` |
| `SelectChannel`, `OpenPermalink`, `RequestOlder`, `SendMessage`, `MarkChannelRead` | what the user does (`Backend.qml`), with what the daemon does at once (`activeCh`, `markread`) |
| `OlderTimeout`, `RetryFires`, `Disconnect`, `Redial`, `Resync` | timers of the UI, its socket, a daemon that woke up |
| `FetchRecent`, `QueryRecent`, `WriteRecent` | `sendRecent`: history written to the table, the query, one piece after the other |
| `ReadHistory`, `WriteHistory`, `ReadJump`, `WriteJump` | `sendHistory` and `sendJump` with `GetHistoryAround` |
| `LoadRecent`, `PrependOlder`, `Ingest`, `AppendLine`, `ReconcileOptimistic`, `ApplyDelete` | the functions of those names |
| `Post`, `SendPosts`, `SendFails`, `Edit`, `Delete`, `Announce` | Slack, the websocket handlers, a row of the poll loop with `maybeMarkActiveRead` |

`req` holds the goroutines that prepare an answer. A line of the daemon is
handled when it is written and a command when it is sent: both sockets keep their
order, and a command or a line on its way is a goroutine that starts, or runs, a
little later. Messages are numbered over the workspace and all top level; a line
is a message or a pending one, without content, so replacing a line by its later
version changes nothing. A conversation of the user is in `Joined`; a channel that
is not can be seen through a link only, is not heard of on the websocket, and its
commands are dropped by the daemon. `mark` is what the daemon asked Slack to mark
last. `synced` is history: since the screen was last cleared, a page has come.

`OneList` says what the user should see of this: every channel has one list, and once
a page has come for the channel in view the screen is that list. A list changes in
one of seven ways: a line is sent; a message comes, last or in the place of the oldest
line sent, and never twice; one is deleted; a page, in the order of its messages, goes
before the list, after it, or in its stead. A page before the list has only messages
older than the first. The mapping is `list <- store`, `view <- cur`,
`opened <- synced`, and for the screen `shown` from `synced` on, nothing before: until
a page has come, the screen may hold lines that were announced in between. Requests,
retries, timers, connections, the table and what is marked read are invisible.

Left out: thread replies and the threads panel, the unread badges of the sidebar,
`channels.last_read_ts` (ReadState), the Threads and Mentions pages, the
text-less messages the history answers skip, and a query that fails, after which
`sendRecent` writes nothing.

### Session

| Model | Code |
|---|---|
| `mgr`, `backoff`, `url`; `StartWebSocket`, `DialFails`, `Redial`, `WsDone` | `ConnectionManager.Run` and `StartWebSocket`: the loop, its pause, the reconnect URL and the fall back to the default one |
| `DialHangs`, `PeerEnds` | a dial whose peer falls silent: `client.go:298` gives it no deadline, so it ends when the peer ends it, or never |
| `link`; `Drop`, `ReadDeadline`, `StopWebSocket` | the socket: closed, silent until 60s pass without a pong, closed by the daemon after a suspend |
| `OnReconnectURL`, `GatewayLeaves` | `reconnect_url` events, and a URL Slack withdraws |
| `OnConnect`, `ResubPresence`, `WatchPresence` | the backfill's end and the opening of a channel: `presSubs` extended and copied under `presMu` |
| `SubscribePresence`, `QueryPresence` | the two writes, made after the lock is released |
| `Moves`, `Batch`, `OnPresenceChange` | Slack; `presence_change` with one user or many |

`asked` is history: users queried while they were on the list Slack holds, and on
every list since. Seconds are steps: the pauses double up to `MaxBackoff`.

### Clients

`Accept` … `ReadEnds` are the accept loop and the end of `readConn`. `job` is a
goroutine that builds the channel list (`Build`) and writes it (`Write`, `OpenPending`):
one per connection, and the debounced refreshes (`MarkThreadsDirty`,
`RefreshChannels`). `OnNotifActivate`, `BroadcastOpen` and `Stash` are a click on a
notification; `CheckUpdate`, `SetUpdateEvent` and `BroadcastUpdate` the update check.
`told[c]` is what client c has heard. A list is the version of what it shows; the
content of lists is Directory's. Clients read what they are sent (a client that
stops reading blocks a broadcast, and with it the daemon's mutex: a known limit).

### Notifier

`Notify`, `SendDBus`, `Reply`, `ReplyLost`, `Reconnect`, `GivesUp` and `Noted` are
`Notifier.Notify`, split where the server, its signals or a lost connection can come
between: the server shows (`SendDBus`), then its reply arrives (`Reply`) or the
connection goes first (`ReplyLost`) and the send is made again; `HandleClosed` is the signal
goroutine. A server asked to replace an id it no longer shows may take that id or a new
one. `unheard` is history: ids the server showed and the daemon was never told of. The bus, the server's counter of ids and what it shows (`visible`) are the
environment: `Break` ends the connection, `BusReturns` starts a server that counts
from one again. `hears` says whether the library that receives the server's signals
could be set up on the present connection; a reconnect may have failed at that.

### Focus

`FocusChange`, `FocusOn`, `Learn`, `Close` and `Emit` are the compositor; `Apply` is
one event of `watchNiriFocus`, `StreamEnds` and `StreamStarts` its restarts (a new
stream begins with all windows and the focus). `FocusCommand` is the client's
`focus`. `MaybeNotify` and `MaybeMarkActiveRead` are the two questions the poll loop
asks of one message, with `ShouldNotify`, one after the other: focus may change
between them. `Standing`, recorded at each, is history: whether the daemon had read
all events, and whether the user had the conversation in front.

### Directory

`BeginLookup`, `CopyIndex`, `Assign`, `PushList`, `WriteList` and `Open` are the
goroutines of `joinChannel`, a live `registerChannel` and `openDM`, which differ in
`Registers` and in what they end with. `Answer` and `Merge` are a look-up of names
(`resolveUnknownUsers`): Slack's answers are awaited without the lock, the merge is
made under it. `StartResolve` is the goroutine of `sendChannels`, which sends a list
when it has merged; `ResolveAuthors` is a look-up for the author of a message (poll
loop, websocket, pages), which sends none. `RefreshRead` and `RefreshWrite` are the lists other parts send. Three
history variables carry the premises: `crossed` (two goroutines copied the same maps,
or an older list was written last), `unfound` (a channel the client was told to open
and did not know) and `unlisted` (names learned by a look-up that sends no list, until
one is read). The assignments of the maps one after the other (cache_render.go:1011,
1075) are one step, and so are the two pushes at the end of `openDM`.

### ReadState

Messages are posted in the channel or in another one (`PostMark`), numbered over the
workspace as the poll cursor sees them. A row is written when its event comes or, in any
order and any time later, by a backfill (`CacheMessage`): `behind` is history, the rows
that came when the cursor was past them already (`Passed`), until a count has them.
`covered` is history too: the highest mark Slack was given. `UpdateChannelReadState` is the statement; `OnChannelMarked`, `GetUnreadCounts` with
`BatchUpdateChannelReadState`, `SelectChannel` and `MarkRead` are those who call it.
`PollRows`, `TellRow`, `CountUnread` and `PushUnread` are one tick of the poll loop,
`Ingest` and `SetChannelUnread` what the client makes of its lines. An opened channel
is marked read up to the newest cached row at once; ChannelView has the detail.

### Reactions

One row, the set of users it lists and their count: `GetReactions` and
`UpsertReaction` are the two halves of an event, `FetchPage` and `PersistReactions` those
of a page that replaces the row. Slack lists any `Listed` of those who react. `mixed` is
history: a page and an event passed each other, or the row went while users it does
not list still react.

### Membership

`EnsureFresh`, `BackgroundFetch`, `FetchFails`, `ReplaceChannelMembers` and
`SetMembers` are a caller and the fetch it may start; `ApplyToTable` and
`ApplyToMemory` the halves of a join or leave event. `passed` is history: an event was
applied, or sent, while a fetch was on its way.

### SearchStore

`OpenStore`, `AddColumn`, `MigrateSearch` and `Stop` are `cache.New` with its additive
migrations, interrupted anywhere and run again by the next process. `Trigger` is the
three triggers, called by `UpsertMessage` and `DeleteMessage`. A text is a set of words
and a query a set of terms: `Starts` (FTS prefix) or `Within` (the `LIKE` of a driver
without FTS) say which words a term finds.

### Listings

`BeginListing`, `GetPage`, `RateLimited`, `Retry`, `Fail`, `Older` and `Newer` are the
loops of `client.go`, by kind: whether an error ends it with what it has (`KeepsPart`),
whether it is cut (`Capped`), whether it waits for a rate limit. A page is the `Latest`
items before the cursor, as many as fit (any such sequence; there is one). Items come and
go between pages (`ListChanges`); `stayed` is history, the items that were there all the
time.

### InlineImages

`RenderImages` is `imagesJSON`: what is on disk is shown, the rest is a placeholder,
and a goroutine (`imageJob`) fetches it (`FetchFile`, `WriteAll`, `RenameDownload`,
`FetchFailed`), tries again what failed (`NextPass`) and broadcasts
(`RebroadcastImages`). `View` and `ViewReady` are `view` and `download`. A temporary
file is a name for data that fetches hold open: `hardLink` says where the open file of
a fetch is reached, so a poster made twice at a time (one temporary name) and a
download (a name of its own) are told apart.

### Media

`BeginFetch`, `WriteTemp`, `AvatarWritten`, `RenameAvatar` and `Show` are
`cacheAvatar` (its check and its registration are one step); `ScanReads` and
`ScanAssigns` are `scanAvatars`. `ListEmoji` to `EmojiJsonFails` are `cacheCustomEmoji`
of one workspace. It writes images and the list in place: `FetchEmoji` makes the torn
file, `EmojiWritten` ends the write and `EmojiWriteFails` cuts it short, then
`RecordEmoji` takes the path under `mu`; for the list these are `TruncateEmojiJson`,
`WriteEmojiJson`, `EmojiJsonFails`. `Waited` is `wg.Wait`. `ReadEmojiJson` is the
client's `FileView`, which keeps what it has when what is there does not parse.
`MediaRestart`, at any step, keeps the directories, torn files included, and nothing
else.

### ImageFetch and EmojiPlace

`ImageFetch` follows a call of `Fetcher.Fetch`: flight (`FetchImage`, `Land`), slot,
credentials (`AuthsFor`, `Refused`, `Body`), the file (`ImageWritten`, `Put`, `Open`)
and the cache (`Admit`, `Evict`, `Touched`). A file is nothing, an image, or bytes no
decoder reads. `CachePaths` are file names: a key has several, one for each extension its
address may have (`cache.go:118`), so a directory may hold a key twice and `Restart`,
which is `loadIndex`, may list it twice (`twice`). `Restart` finds the files in any order, whatever their mtimes. `EmojiPlace` is `Place` over the prerendered map, `KittyRenderer`
(`SetSourceAndRender`, `RenderKey`), its registry and the terminal; `CellsOf` is how large a surface draws, and
an emoji is rendered in the cells its fetch was asked for. `KeyOf` is the key a
preview is rendered under. The lock sections of `Place`, and the draw that follows, are
one step. The daemon calls neither: they are for the terminal front
end.

### Display and Markup

Both are functions of one document. `Display` renders a message as it comes from the
cache (`MsgFromRaw`) and from a page (`FormatMsg`); a text is a sequence of tokens, of
which the ones that matter (mentions, links, code) are told apart. `MCDisplay` has the
messages. `MentionsAssumption` is what Slack is assumed to send: when a message has
blocks, its rich text or those of an app, the mentions of its flat text are in them too.
The rows of a text are joined with `FlattenSeq`. `Markup` is the walk of `slack/mrkdwn`
over a parsed document: `Tokenized` and `Detokenized` seal what must not be parsed,
`WalkInline`, `WalkBlock` and `WalkList` write the plain text and the blocks. `MCMarkup`
has the documents: every block around every inline element, and pairs of a few. The
parser is external.

## 3. What TLC checks

| Run | Instance | States | Shows |
|---|---|---|---|
| `SyncPipeline_restart` | 2 channels (1 known), 2 messages, 1 changed, 1 connect, 1 restart, cap and poll limit 2 | 1.1M | `TypeOK`, `NotifiedOnce`, `ImplementsDelivery` |
| `SyncPipeline_recover` | 1 channel, 3 messages, 2 connects, history cut at 2, poll at 1 | 0.5M | `RecoveredTail`, `AboveWatermarkRecovered` |
| `SyncPipeline_live` | 1 channel, 2 messages, 1 changed, 1 connect, both limits 1, fair | 48k | `LiveReachesPoll`, `CachedReachesPoll` |
| `ThreadSubs_follow` | 2 threads, 3 replies, 1 listing with pages of 1, 1 command, 1 change elsewhere, 1 lost connection | 0.9M | `TypeOK`, `NeverMarksUnseen`, `LastReadKept`, `SteadyIsNotDropped` |
| `ChannelView_open` | 2 channels (1 joined), 2 messages, 2 answers at a time, 2 acts of the user or the network, pieces of 1, 1 retry | 1.0M | `TypeOK`, `TwoCopiesAgree`, `LinesStay`, `ImplementsOneList` |
| `Pictures` | eight parts, below | 1.5M | eight invariants, below |
| `Workspace` | thirteen parts, below | 1.3M | ten invariants and `NamesStay`, below |
| `Goroutines` | six parts, fair, smaller | 50k | five liveness properties, below |

`Pictures`, part by part:

| Part | Instance | States | Properties |
|---|---|---|---|
| previews | 2 hosts (1 cached) and 1 link, 2 callers, 3 renderings, 3 fetches, 1 slot | 52k | `OneFetchServesAll` = `WaitersHaveFetch`, `SingleFlight` |
| fetch | 2 images of 1 and 2 bytes, a cap of 1, a third file name, 1 target, 2 callers, 1 slot, 1 retry, 2 workspaces and 1 foreign one, 2 processes | 203k | `CacheAgrees` = `IndexedIsOnDisk`, `CountsWhatItHolds` |
| place | 2 pictures, 3 surfaces of which 2 draw one picture in 1 and in 2 cells, 1 preview, 1 failed write, 2 redraws | 900k | `ScreenIsOnTerminal` |
| inline | a picture, a poster, a copy; 2 messages that share the picture, 2 goroutines, 2 fetches at a time, 2 failures | 21k | `DownloadsShowUp` (`DownloadsAreWhole`) |
| avatars | 2 users, 2 versions, 1 late scan, 1 restart, 3 fetches | 106k | `FacesAreWhole` |
| custom | 2 workspaces, 2 names, writes in two steps that may be cut short, a client that reads, 1 restart | 158k | `DownloadsShowUp` (`EmojiListIsGood`) |
| display | every message of `SlackMessages`, 3 steps | 11k | `RowsAreRight` = `RowsAgree`, `MentionsShow` |
| markup | every document of `Documents` | 1.8k | `MarkupKeepsTheText` |

`Workspace`, part by part:

| Part | Instance | States | Properties |
|---|---|---|---|
| attach | 1 upload, 2 sends, 1 thread, 1 dropAttach | 87k | `FilePostedOnce`, `FileInItsThread`, `PasteThenSend` |
| session | 2 users (1 direct message), 2 senders, 1 URL, 1 lost connection, 1 dial that fails or hangs, 2 of these or changes of presence | 414k | `AskedIsCurrent` |
| lists, opens, news | 2 clients; 2 changes and 2 refreshes; 1 click; 2 revisions and 2 checks | 65k, 182k, 50k | `ClientsAreTold` = `ListsCatchUp`, `OpensOnce`, `EveryoneKnows` |
| notifier | 2 conversations, 2 ids, 2 lost buses or connections | 74k | `DesktopAgrees` (`VisibleIsRouted`) |
| focus | 2 windows, 1 channel, 1 gap in the stream, 3 acts, 1 message | 117k | `DesktopAgrees` (`FocusIsKnown`, `MessageIsJudged`) |
| directory | 3 channels (2 direct messages), a join, an openDM, a live event, 2 look-ups for a list or an author, 3 goroutines in all | 13k | `PeopleAgree` (`ListIsCurrent`), `NamesStay` |
| members | 2 users, 2 callers, 2 moves, 1 restart, 1 day | 42k | `PeopleAgree` (`FetchedOnce`, `MembersAgree`) |
| read | 2 messages, in the channel or in another, cached in any order, 2 marks, 1 count | 164k | `TablesAgree` (`UnreadShows`) |
| reactions | 3 users of whom a page lists 2, 4 events, 2 pages | 32k | `TablesAgree` (`ReactionsAgree`) |
| store | 2 messages (1 reply), 2 words, 2 terms, 2 columns, 2 starts, 3 writes | 912 | `TablesAgree` (`SearchFinds`) |
| listings | 5 items, pages of 1, a cap of 3, 2 changes, 2 faults | 62k | `ListingHasNoGap` |

`PicturesTypeOK` and `WorkspaceTypeOK` are the conjunctions of the parts' type
invariants, checked whichever part moves. A
property written as a conjunction above is one invariant of the composition: its
conjuncts are about different parts, hence never about one state at a time.

Why these bounds are enough to be interesting. Two messages give a gap and a
message after it; three give a gap that a cut of two does not cover. Two connects
give overlapping backfills and a closed gate. One restart cuts any step in two. A
page of one thread makes a listing of two threads take several steps, between
which anything may happen. One slot makes the second fetch queue behind the first.
Three fetches are one more than two goroutines and one link can keep busy; with
fewer the bound itself would strand a waiter. Pieces of one message make a page of
two come in two lines, and two answers at a time interleave them; two acts are a
link and a return, two sends, or a send and a lost connection. A cache of one byte
is full with the first image and, as the sweep comes before the admission, is over its cap
with the second, so the next admission evicts, also while another call opens what it
found; of two names of one key, one is left over when the other is indexed. Two surfaces
that draw one picture in different cells make one the requester and the other the
neighbour that is told. Two messages are enough for one to be cached behind the cursor
the other one moved. Two senders make an
older presence list the last one sent; two clients with one that leaves make a
broadcast drop a connection; two lost buses make ids of the first come again; three
users of whom a page lists two make the count and the list of a row differ. Symmetry
is used only in `ThreadSubs_follow` (threads, commands), which checks no liveness.

All runs turn the deadlock check off: the environment is bounded, so every
behaviour ends, and a daemon with nothing to do is not stuck.

Each run that passes is sensitive to the code it is about: for each property there is
a variant of an action (`X_Variant`, at the head of each module: a dropped guard, a
missing reset, a swapped order) with which TLC finds it violated, also for the single
conjuncts of the composed ones.

### Comments that do not hold

Four runs check a sentence of the code against the model and find it violated:

- `Claim_no_hole`: `backfill.go:15-16`, "REST backfill recovers anything it
  dropped". A live message cached before the worker reads the watermark hides the
  messages missed before it.
- `Claim_quick_send`: `main.go:1852-1855`, a `send` read right after a paste waits
  for that image. An earlier send whose goroutine has not run yet takes it
  instead. `PasteThenSend` is what does hold, and is proved.
- `Claim_reconcile`: `backfill.go:240-241`, "match Slack's authoritative list". A
  thread followed while the list was being read is tombstoned by it.
- `Claim_jump_keeps_read`: `Backend.qml:751-752`, a page that has come is marked
  read "so it doesn't resurface as unread elsewhere". A link to a message with
  more than 30 newer ones loads a window that ends at it, and the channel is
  marked read up to there: what came after, read long ago, is unread again in
  Slack. (`Backend.qml:753`; three messages and `Around = 1` in the run.)

### Known limits

Behaviours of the same kind, visible in the models and without a run.

Pipeline and threads: a reconnect within 30s of the last backfill starts none
(`PassGate`), and a worker whose fetch fails is not repeated; thread replies the
socket dropped are in no channel history (`History`); a message recovered after the
cursor passed it is in the cache but not broadcast (`PollQuery`; the cursor is that of the
whole workspace, main.go:1249, so a message of any channel moves it); an edit broadcast
between a query and its rows is shown again with the older row (`PollRow`); a page
fetched before an edit is written after it (`PersistMessage`); overlapping backfills
write their pages in any order; a listing of 1000 threads is cut off and reconciled
as complete (`client.go:1846`); unfollowing deletes a row with its `last_read`
(`DeleteRow`), and a later event makes it again without; the follow a reaction undoes
may be one the user made meanwhile (`UndoFollow`); a thread unfollowed elsewhere may
be marked, hence followed, from a stale row (`MarkThread`).

Message list: a line announced between the query of a page and its first piece is
taken away by it, and of two answers for a channel the one read first may be written
last (`QueryRecent`, `WriteRecent`); the edit of a message that is not in the list is
appended at its end (`Ingest`); an echo takes the oldest pending line, whichever
message it is of, and a pending line whose send failed is taken by the next message of
the user (`ReconcileOptimistic`, `SendFails`); a link that fails leaves the cleared
screen empty (`ReadJump`), and so does a `recent` answered on a connection that was
lost (`Disconnect`), until the next; the one retry timer serves the last channel that
asked for it, and what it asks makes a channel that was left the active one, whose
messages are then marked read as they come (`RetryFires`, `Announce`); a history answer
that comes twice ends the scrolling back of its channel (`PrependOlder`).

`mark` goes where a page says: Slack's mark covers what is below it too, rows the client
never got included (`MarkChannelRead`).

Sending and previews: a second upload overwrites a staged file (`Stage`); a file staged in
the main composer goes with the next send, also one in a thread, although
main.go:1730-1731 keeps a thread's own out of the main one (`FileInItsThread` is about the
latter); a send whose wait for a paste ends by its timeout posts without it (`TimesOut`,
outside `PasteThenSend`); a rendering
begun before a link resolved can be broadcast after the one that has the preview
(`Broadcast`), and a waiting resolution holds one of two slots for up to 8s.

The daemon's state: a message marked read before may lose its badge when a late
`channel_marked` or count takes `last_read` back past it (`covered`); a message cached
behind the cursor gets no badge until `last_read` changes, because no line tells it and
a list of channels keeps the badge the client has (`behind`; main.go:1249,
Backend.qml:454-472); a page that meets
a reaction event may put the row back, until the next (`mixed`); an older presence list
sent last drops a user from the subscription, whose presence then stands still
(Session, outside `asked`); two registrations, or two lists, that cross lose a channel
until the next, after which nothing is said of the list (`crossed`); a name found for the
author of a message leaves a list that shows the raw id as it is, as no list is sent
(`ResolveAuthors`, `unlisted`; main.go:1254, wshandler.go:64); a client that connects between the check of a click and its
stash gets the target with its next list only (`Stash`); of two lists for one client the older
may be written last, which `ListsCatchUp` does not see, as it asks whether the newest was
sent; a broadcast holds the daemon's
mutex while it writes (main.go:971); after a reconnect that failed the notifier's
connection is nil for good and only the fallback is used (notifier.go:137-140); a
notification whose reply was lost with the connection is sent again, and the first one
stays on screen with an id the daemon does not know (`unheard`; notifier.go:135-144); a
dial whose peer falls silent holds the connection loop as long as the peer likes, as the
dialer has no HandshakeTimeout and its context never ends (client.go:298-300), and
`StopWebSocket` does not end it (`DialHangs`); a
membership change during a fetch is lost (`passed`).

Pictures: a poster made twice at a time shares one temporary file, so a file in place
may be torn (main.go:797-799); a broadcast that overtakes its line leaves the
placeholder (main.go:499-503, 525-529; `overtaken`), and the card of a film without a
poster stays (main.go:567-572); a newer face is not fetched while
the older one is (`avInflight`), the map a scan assigns loses a face cached meanwhile,
and `scanAvatars` takes `avatar-…-hi.png.tmp`, torn or not, for a picture, although
main.go:250 says "never a torso" (left out of `FacesAreWhole`); a custom emoji whose write
was cut short is taken as cached by the next start and stays torn (`CutShort`;
main.go:2480, 2501), and a list cut short stays so until a workspace writes it again
(main.go:2512);
two surfaces that draw one emoji in different cells share one fetch, and the second
stays blank until it is redrawn (`LeftBlank`); an image that failed to decode as .png and
then comes as .jpg leaves two files of one key, of which the older, when it is
evicted after a restart, takes the key's entry with it (`twice`; cache.go:77-88, 118, 158); previews with equal bounds share a key, and a failed
write leaves its closure fired (EmojiPlace).

What a message shows: text in the blocks of an attachment, and image blocks, are shown
from the cache and not on pages (`RowsAgree`); a live page answers "Nothing to action"
to a button until history has stored the message again, because `OnMessage` keeps no
app id (cache_render.go:575-577, main.go:1824-1826, wshandler.go:42-50); a message that
is one link becomes the link's title without its mentions; an app's message whose flat
text mentions someone its blocks do not is highlighted without a mention to be seen
(cache_render.go:198-202, 592-609); a labelled mention of a
foreign group is highlighted as one's own and of an own group not counted. A bare URL in
a quotation disappears, against walk.go:494-496, "verbatim"; text after a nested list,
and code or HTML in a list item, are in the plain text but not in the blocks; nested
lists follow their whole parent; the destination of a link whose source had tokens is
not restored in the block's URL (walk.go:264, 283), which is outside `HandleLink`, whose
addresses have none; emphasis by a star not directly before text reads as
italic (`Loses`).

## 4. Fairness

- SyncPipeline: weak fairness of the read loop, of the poll loop (a ticker) and
  of each backfill. These are goroutines that never block on one another. Nothing
  is assumed of Slack, the network, the gate's timer or crashes.
- PermalinkPreviews (`WaiterIsServed`): weak fairness of renderings, of `Publish` (the
  fetch has an 8s deadline, and the HTTP transport bounds every request) and of
  `Rebroadcast`; strong fairness of `AcquireSem`, because others compete for the slot
  and a Go channel serves its senders in order.
- AttachSend (`SendSettles`): weak fairness of a send's steps; its timer fires and API
  calls return, by the transport's timeouts. Nothing is assumed of the uploads, which
  may hang.
- ImageFetch (`FetchReturns`): weak fairness of a caller's steps (every attempt ends
  within the client's 10s), strong fairness of taking a slot, as above. Nothing is
  assumed of the answers: all may fail.
- EmojiPlace (`BlankIsFilled`, save for `LeftBlank`) and InlineImages (`PlaceholderGoes`), together
  `BlanksGo`: weak fairness of the goroutines, of the surfaces that read their messages
  and redraw what is stale, and of the writer to a client. Requests have deadlines;
  whether they succeed is open.
- Session (`DaemonReconnects`, which is `Reconnects`): weak fairness of the loop and of the
  read deadline. A dial succeeds, fails or hangs (`DialHangs`), and nothing is assumed of
  one that hangs: `Reconnects` says that the daemon is connected again or is left with a
  dial that is never answered. Dials fail or hang a bounded number of times
  (`MaxDialFails`), a withdrawn URL always.
- ThreadSubs, ChannelView and the other parts of `Workspace` have no liveness property.
  "An opened channel is shown" does not hold of ChannelView under any fairness of the
  goroutines: with two channels that answer stale, one takes the other's retry.

## 5. What is proved

Of the safety properties the runs check, all are theorems but
`MarkupKeepsTheText`: TLC shows them on the instances of section 3, the theorems for
every number of channels, messages, users, goroutines, failures and restarts. A theorem
is about the specification of one component, or the conjunction of the specifications of
components that share no state; the compositions run the same definitions. The types of
the two compositions are `PicturesTypeCorrect` and `WorkspaceTypeCorrect`: the parts
share no variable, so what each keeps under its own steps holds of them side by side.

The proofs assume what the modules state of their constants (the `ASSUME`s, which TLC
evaluates on each run) and nothing else: bounds are naturals; capacities, page sizes and
caps are positive; a value that stands for "none" is not a name; names of two kinds are
disjoint where the code keeps them in one map; and where a cardinality is taken, the set
is finite (`Threads`, `Reactors`, `Conns`, the keys of ImageFetch, the urls, surfaces and
previews of EmojiPlace). ImageFetch also assumes that each image has a size and that
no workspace is registered twice, and Display what Slack sends as text and as blocks
of one message (`MentionsAssumption`; of Slack, not of this code).

Each proof has the same shape: an inductive invariant, a lemma for each action or group
of actions that disturb the same clauses, and a theorem that the invariant holds; the
properties follow from it. Most properties are about a moment at rest ("once every
event is handled"), and so are not inductive: what has to be found is what holds on the
way there.

### Queues

Four components hold a value that lags behind another by the events still on their way:
the row of reactions, the table of members, the windows the daemon knows of, and the
presence shown. For the first three `EventRuns!Leads(q, Steps, Values, a, b)` says so:
there is a run of values from `a` to `b`, one step of `Steps` for each event of `q`. The
run is a witness, a function from indices to values, where the obvious definition
would be recursive. Appending an event extends the run (`LeadsFurther`), taking one
shortens it (`LeadsOn`), and an empty queue means that the two values are equal
(`NothingLeads`), which is each time the property.

### Component by component

- **SyncPipeline.** `TypeCorrect`, `NotifyAtMostOnce`, `CursorNeverGoesBack`,
  `PipelineDelivers`, `TailIsRecovered`, `HolesAreLarge`.
  `NotifiedOnce` is not inductive: a second notification needs a row at or below
  the cursor to enter a batch again. `CursorInv` adds that whatever was notified is
  not above the cursor, that the rows of an open batch are above it, distinct and
  cached, and that the cursor itself names a cached row. The last part is what a
  restart needs: the new cursor is the maximum of the cached rows, and rows never
  leave the table (`CacheGrows`), deleted ones included, so it is not below the
  old one. The refinement follows from the same invariant: `StoreKinds` sorts the
  steps by what they do to the set of rows, `StepKinds` by what they do to the
  poll loop, and each combination is a step of Delivery or stutters.
  `CursorNeverGoesBack` is proved and not run: the refinement says more.
  What a backfill recovers needs `RecoverInv`. `WorkerInv`: a worker's watermark is not
  above its channel's, the page it holds is of its channel, and nobody works for a
  connection that is not there yet. `CaughtInv`: once the present connection's worker has
  fetched, no message of the channel is newer than what is cached, on its page or on
  the socket; and one above the watermark it read is cached, on the page or on the socket,
  or has at least `FetchCap` newer ones, as a cut page is the newest `FetchCap`. That is
  `HolesAreLarge` when the worker is done.
- **ThreadSubs.** `TypeCorrect`, `LastReadNeverGoesBack`, `UnseenIsNeverMarked`,
  `SteadyRemain`.
  `LastReadKept` follows from type correctness, each of the four writes being
  forward (`WritesForward`); `LatestExists` and `ReconciledFact` give what a
  reconcile leaves in each row. `NeverMarksUnseen` needs `ReadInv`: not only the
  table and Slack but every value on its way to them (events on the socket,
  listed views, replies that commands hold) was read by the user.
  `SteadyIsNotDropped` needs `SteadyInv`: a thread that is steady for a listing is
  followed; while the listing is on, each steady thread above its cursor is in it, what is
  in it is above the cursor and is there once (so that its size can be compared with the
  cap); and a listing that ended well, of no more threads than the cap, has them all.
- **ChannelView.** `TypeCorrect`, `CopiesAgree`, `LinesRemain`,
  `UserSeesOneList`, for any channels, answers in flight, pieces and pages. `IInv` adds
  to the types that rows on their way are messages that exist and stand in their order,
  that what follows the first piece of an answer is never empty (else a piece could mark
  the channel at a pending line), that only channels of the user are asked for, and
  `TwoCopiesAgree` itself. `EveryStep` shows for each action at once that the invariant
  is kept and which lines a list may lose (`Kept`).
  What carries the two copies through an echo is `FirstOfItself`: the first pending line
  of a list is also the first with its own number, so the search in `_store` and the one
  in `messagesModel` stop at the same place. For the refinement, each function of
  `Backend.qml` that changes a list follows one way of `OneList` or stutters
  (`IngestFollows`, `LoadFollows`, `PrependFollows`, `DeleteFollows`), and each handler,
  timer and act does because of what it calls (`StepSimulated`). A page is one in the
  sense of `OneList` because every query gives its rows in order and pieces keep it
  (`PageFits`). What an older page may still add to a list that changed since it was
  asked for is what is older than its first line now (`OlderThanFirstFact`). That the
  screen is drawn from the list before and after a step is `TwoCopiesAgree` in both
  states, so the refinement rests on the invariant.
- **PermalinkPreviews.** `PreviewsTypeCorrect`, `NobodyWaitsInVain`, from `FlightInv`: a
  link is in flight exactly when some fetch goroutine holds it, each started goroutine
  holds one link, and only links in flight have waiters.
- **ImageFetch.** `FetchTypeCorrect`, `CacheStaysRight`, of any keys, file names, sizes, cap,
  callers and restarts. `CacheInv`: as long as no start found a key under two names
  (`twice`), the LRU lists a key once, the count is the sum of the sizes
  of what is listed, and what is listed is on disk. It needs `CallsInv` (`Sound`): a
  caller at a leader's step is the leader of its key's flight, so from the miss in the
  cache to `Put` it is the only one who could index the key; the key is not indexed
  meanwhile, hence not evicted, and the file it wrote is still there when it is indexed.
- **EmojiPlace.** `PlaceTypeCorrect`, `ScreenShowsThePicture`. `RegistryInv`: the next id
  is two more than the slots that have one, no two slots share an id, and nothing is
  uploaded or encoded under an id that was not given out. That is why an id, once
  drawn, stays the picture's. `OwnPicture`: the payload and the terminal have under
  an id the picture of its slot. `RenderedInv` and `ShownInv`: what a surface draws was
  rendered under its own slot and was written, unless a write failed.
- **InlineImages and custom emoji.** `InlineTypeCorrect`, `DownloadsStayWhole` and, with
  Media, `DownloadsShowUpHolds`. `OwnTempFile`: a download writes a temporary file no other fetch
  renames, removes or truncates, whole when it is renamed. Posters are left out: theirs
  is shared (Known limits). `TasksInv` gives each fetch a goroutine of its own.
- **Media.** `MediaTypeCorrect`, `FacesStayWhole`, `EmojiListStaysGood`, for any users,
  versions, scans, restarts and fetches. `FacesAreWhole` says nothing of what is not
  shown, so `FacesInv` adds that a picture under its own name is whole
  (`OwnNamesWhole`: only a rename makes such a name), that what a scan has found and
  not yet assigned is still there, that a user has one fetch at a time (`OneEach`), and
  that what a fetch has behind it is on disk (`Progressed`). `EmojiInv`, for the list: what
  is recorded, listed or read is on disk and not open, only a busy workspace has files
  open, and while none is at work the list, if one of them wrote it, is what is recorded. Torn
  files are then those of writes cut short.
- **Display.** `DisplayTypeCorrect`, `RowsStayRight`, for any set of messages, each of
  any length. `DisplayInv`: the cached message is the one said, or that without the app
  id a live event does not carry, and a row is what `MsgFromRaw` or `FormatMsg` makes of
  it. What is left is about these functions (`RowsAlike`, `MentionShown`): that the two
  rows are equal where nothing is said that only one of them reads, and that a message
  that counts as a mention draws one, unless it is a lone link whose image is drawn
  instead. A text is joined from parts with `FlattenSeq`, whose definition is recursive:
  that what it gives is the parts end to end, and hence that each token of a part is in
  the whole, is proved from its equation on the prefixes of the parts (`UpTo`,
  `FlattenFunction`, `Flattened`).
- **AttachSend.** `AttachTypeCorrect`, `OneMessagePerFile`, `FileKeepsItsThread`,
  `PasteSendsTogether`. `FileInv`: the staged file is in no message,
  was staged, and its thread is the slot's. `PasteInv`: the map names an upload that was
  read; a send read after an upload waits for one that was registered, so what it takes
  was staged before; and the only upload's file stays in the slot until a send
  takes it.
- **Clients.** `ClientsTypeCorrect`, `ClientsHear`, for any connections, clicks,
  refreshes and checks. `ListsInv`: a client that was not sent the last change is still
  ahead of some goroutine (`Serves`) or the timer is armed; a connection that is still to
  be made has no goroutine, or accepting it would overwrite one. `NewsInv`: one that was
  not told of the update will be, by a check about to announce it. `OpensInv`: a target on
  its way to the clients, or left for them, has reached none.
- **Notifier.** `NotifierInvHolds` and, with Focus, `DesktopTypeCorrect` and
  `DesktopAgreesHolds`. `VisibleIsRouted` is
  about moments when no send is being noted. `RoutedButNoted` says the same of all other
  ids meanwhile; `SentIsShown`, that the id being noted shows its conversation or nothing
  any more, and that the conversation had no other; `ClosingIsGone`, that an id whose
  closing is still to be handled is not shown, unless it was `overtaken`: else handling it
  would unroute what is shown.
- **Focus.** `FocusInvHolds`, `MessagesAreJudged`. `FocusBehind`: while the stream is up, its events lead from
  the windows and the focus the daemon knows to the desktop's; a stream that starts sends
  both whole, so nothing need be known of one that was down. `MessageIsJudged` follows from
  it at each of the two questions.
- **Directory.** `DirectoryInvHolds`, `NamesStayHolds` and, with Membership,
  `PeopleTypeCorrect` and `PeopleAgreeHolds`.
  `LastIsRight`: unless a change is still to be put into a list (`Owed`), the
  last list read is what the maps say, names learned for an author since left out
  (`unlisted`), and is shown or about to be. `AllFound`: the
  channel of a task that will open it is in every list that can be written before it
  does. `HeldInOrder` counts the lists read and shown, which is what "last" means.
- **Membership.** `MembershipInvHolds`. `OneFetches`: the sentinel stands for exactly one
  goroutine at work. `TableBehind`: unless an event passed a fetch, the table leads to
  Slack's set, and what is being fetched is that set.
- **Session.** `SessionTypeCorrect`, `AskedIsShown`, for any users, conversations, senders and
  URLs. The invariant `Answered` speaks of the row of presence events still on the
  socket: handling all of it leaves each user that was asked about as Slack has them
  (`EndsAs`). `AppendEnds`, `TailEnds` and `AnswersEnd` say what sending, handling
  and a query's answers do to such a row; `ListsRecorded` is needed because a list on its
  way may replace the one Slack holds.
- **Reactions.** `ReactionsInvHolds`, `ReactionsAgreeHolds`. `RowBehind`: unless `mixed`,
  the row is right about the users of some earlier moment (as many, and only such, listed;
  none listed only if none react), and the event at hand and those on their way lead from
  them to who reacts now. The last clause of "right" is needed because a row without
  users is deleted, whatever its count.
- **SearchStore.** `StoreInvHolds`, `SearchFindsHolds`. `IndexInStep`: the index, from the
  statement that makes it on, is that of the rows, whichever process made it;
  `OpenedInOrder`: a database gets to a step of opening when those before it are through.
- **ReadState.** `ReadInvHolds`, `UnreadShowsHolds`, for rows cached in any order. `MarksBehind`:
  nobody writes a mark above the highest Slack was given. `TickInOrder`: a tick has the rows
  above its cursor before it, one after the other; a row that came since is behind, or past
  all of them. `UnseenShow`: a message no mark covered, not behind, that the cursor has passed
  and nobody saw is in the badge, or its line is on its way, and no count of zero
  comes after it. That is where a count could go wrong that was made before the message
  (`CountAtHand`). A row that came behind the cursor is in none of this until a count has
  it: that it has no badge is a limit of the program (section 3).
- **Listings.** `ListingInvHolds`, `ListingsHaveNoGap`; with the other tables,
  `TablesTypeCorrect`. What was read is in order; it is
  of the window and not below the cursor; and what stayed of the window, from the cursor
  up, was read (`PagesAbove`). `OlderHalf` says the same of a window around a message whose
  older half has come. A capped or cut off listing then has no gap above its last item.

### Only model-checked

- Liveness (`LiveReachesPoll`, `CachedReachesPoll`, `WaiterIsServed`, `SendSettles`,
  `FetchReturns`, `BlanksGo`, `DaemonReconnects`): it rests on fairness and ENABLED,
  which the prover does not treat.
- `MarkupKeepsTheText`: the walk is recursive over a document's tree, with RECURSIVE
  operators.

## 6. Plan

Done: all modules of section 2, and the safety theorems of section 5. What is left is
an abstraction of the three tables, as OneList is of the list of messages: who reacts,
what was read and what is found as one value each, that their writers change at once.

### Not modelled

- Authentication, HTTP and the decoding of JSON: requests without state between calls.
  What they can answer (a result, an error, a deadline, a rate limit) is a choice in
  the models that call them.
- `slacknames_gen.go`: generated tables, a fifth of the Go code.
- The suspend watcher: a clock compared with another one. What it does, closing the
  socket and telling the clients to reload, is `StopWebSocket` in Session and `Resync`
  in ChannelView.
- `frecent.go`, `channelvisits.go`, `workspaces.go`: single statements nothing else
  depends on.
- Sixel and half-block output, and Markdown parsing (goldmark): computations of one
  value from another.
- The rest of the QML: threads panel, composer, pickers, pages. They keep no state that
  the daemon's lines and the user's acts reach in different orders, or copy what the
  message list does.
