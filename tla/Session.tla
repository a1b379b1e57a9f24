-------------------------------- MODULE Session --------------------------------
(***************************************************************************)
(* One workspace's websocket and the presence it brings:                   *)
(* ConnectionManager.Run (internal/slack/connection.go), StartWebSocket    *)
(* (client.go), the presence subscription (backfill.go), the socket's      *)
(* events (events.go, wshandler.go) and the wake from suspend (main.go).   *)
(*                                                                         *)
(* A loop dials, waits for the end of the socket and dials again, each     *)
(* time at the URL Slack last handed out, if any.  Slack tells the         *)
(* presence of the users on the list it was last sent on this socket, and  *)
(* answers a query with what it is now.  Lists are made under a lock and   *)
(* sent after it, by the backfill of a connection and by the opening of a  *)
(* channel.                                                                *)
(***************************************************************************)
EXTENDS Naturals, Sequences, FiniteSets

CONSTANTS
    SessionUsers, SessionDms,       \* whose presence; the counterparts of direct messages
    Senders,          \* goroutines that send a list
    GatewayUrls, NoUrl, \* URLs Slack hands out for the next connection
    MaxBackoff,       \* maxBackoff, in seconds
    MaxDialFails,     \* bound: dials that fail or hang
    MaxLinkDrops,         \* bound: connections that end
    MaxPresenceMoves,         \* bound: presence changes
    MaxWatches        \* bound: channels opened

ASSUME SessionAssumption ==
    /\ SessionDms \subseteq SessionUsers /\ NoUrl \notin GatewayUrls /\ MaxBackoff \in Nat \ {0}

VARIABLES
    mgr,        \* the loop: dial, hung (in a dial that does not end), up, pause
    backoff,
    url,        \* reconnectURL
    gone,       \* URLs the gateway no longer takes
    link,       \* the socket: none, open, silent (dead, not noticed), ended
    greeted,    \* hello came on this socket
    gate,       \* the last backfill is less than 30s old
    presSubs, sender,
    subs,       \* what Slack was last sent on this socket
    asked,      \* whom it was asked about while they were on that list
    wire,       \* presence_change events on their way
    truth, presence,
    dialFails, linkDrops, presenceMoves, watches

netVars == <<mgr, backoff, url, gone, link, greeted>>
sessionBounds == <<dialFails, linkDrops, presenceMoves, watches>>
presenceListVars == <<presSubs, sender>>
seenVars == <<wire, truth, presence>>
sessionVars == <<netVars, gate, presenceListVars, subs, asked, seenVars, sessionBounds>>

States == {"active", "away"}
SessionRests == [at |-> "rest"]
Alive == mgr = "up" /\ link = "open"

\* --- defective variants, for mutation runs ---
\* a migration URL that fails is kept
FailedUrl_Kept == url
\* a batched event moves one user
Batch_One(users) == {CHOOSE u \in users : TRUE}
\* the end of a socket found by its read deadline is not reported
Noticed_Close == FALSE

-----------------------------------------------------------------------------
(* The connection                                                          *)

\* A stale migration URL is dropped, so that the next dial is the default one.
FailedUrl == NoUrl

DialFails ==
    /\ mgr = "dial" /\ (dialFails < MaxDialFails \/ url \in gone)
    /\ dialFails' = IF url \in gone THEN dialFails ELSE dialFails + 1
    /\ mgr' = "pause" /\ url' = FailedUrl
    /\ UNCHANGED <<backoff, gone, link, greeted, gate, presenceListVars, subs, asked, seenVars,
                   linkDrops, presenceMoves, watches>>

\* A peer takes the connection and says nothing: the dialer has no
\* HandshakeTimeout and its context no end, so the loop waits for it, and closing
\* the socket, which is the last one's, does not wake it.
DialHangs ==
    /\ mgr = "dial" /\ dialFails < MaxDialFails /\ dialFails' = dialFails + 1
    /\ mgr' = "hung"
    /\ UNCHANGED <<backoff, url, gone, link, greeted, gate, presenceListVars, subs, asked, seenVars,
                   linkDrops, presenceMoves, watches>>

\* Only the peer can end it.
PeerEnds ==
    /\ mgr = "hung" /\ mgr' = "pause" /\ url' = FailedUrl
    /\ UNCHANGED <<backoff, gone, link, greeted, gate, presenceListVars, subs, asked, seenVars,
                   sessionBounds>>

\* The URL stays for the next connection.
StartWebSocket ==
    /\ mgr = "dial" /\ url \notin gone
    /\ mgr' = "up" /\ backoff' = 1
    /\ link' = "open" /\ greeted' = FALSE
    /\ subs' = {} /\ asked' = {} /\ wire' = <<>>
    /\ UNCHANGED <<url, gone, gate, presenceListVars, truth, presence, sessionBounds>>

\* nextBackoff, after the pause
Redial ==
    /\ mgr = "pause" /\ mgr' = "dial"
    /\ backoff' = IF 2 * backoff > MaxBackoff THEN MaxBackoff ELSE 2 * backoff
    /\ UNCHANGED <<url, gone, link, greeted, gate, presenceListVars, subs, asked, seenVars, sessionBounds>>

WsDone ==
    /\ mgr = "up" /\ link = "ended" /\ mgr' = "pause"
    /\ UNCHANGED <<backoff, url, gone, link, greeted, gate, presenceListVars, subs, asked, seenVars,
                   sessionBounds>>

\* The other side closes, or goes away without a word: the network is lost, the
\* machine sleeps.
Drop ==
    /\ link = "open" /\ linkDrops < MaxLinkDrops /\ linkDrops' = linkDrops + 1
    /\ link' \in {"ended", "silent"}
    /\ wire' = <<>>
    /\ UNCHANGED <<mgr, backoff, url, gone, greeted, gate, presenceListVars, subs, asked, truth,
                   presence, dialFails, presenceMoves, watches>>

\* 60s without a message or a pong.
Noticed == link = "silent"
ReadDeadline ==
    /\ Noticed /\ link' = "ended"
    /\ UNCHANGED <<mgr, backoff, url, gone, greeted, gate, presenceListVars, subs, asked, seenVars,
                   sessionBounds>>

\* The daemon wakes from suspend and closes the socket, dead or not.
StopWebSocket ==
    /\ link \in {"open", "silent"} /\ linkDrops < MaxLinkDrops /\ linkDrops' = linkDrops + 1
    /\ link' = "ended" /\ wire' = <<>>
    /\ UNCHANGED <<mgr, backoff, url, gone, greeted, gate, presenceListVars, subs, asked, truth,
                   presence, dialFails, presenceMoves, watches>>

OnReconnectURL(u) ==
    /\ link = "open" /\ u \notin gone /\ url' = u
    /\ UNCHANGED <<mgr, backoff, gone, link, greeted, gate, presenceListVars, subs, asked, seenVars,
                   sessionBounds>>

GatewayLeaves(u) ==
    /\ gone' = gone \cup {u}
    /\ UNCHANGED <<mgr, backoff, url, link, greeted, gate, presenceListVars, subs, asked, seenVars,
                   sessionBounds>>

-----------------------------------------------------------------------------
(* The presence subscription                                               *)

GateExpires ==
    /\ gate /\ gate' = FALSE
    /\ UNCHANGED <<netVars, presenceListVars, subs, asked, seenVars, sessionBounds>>

\* hello: a backfill, unless one ran less than 30s ago; it ends in resubPresence.
OnConnect(s) ==
    /\ link = "open" /\ ~greeted /\ greeted' = TRUE
    /\ IF gate THEN UNCHANGED <<gate, sender>>
       ELSE /\ sender[s] = SessionRests /\ gate' = TRUE
            /\ sender' = [sender EXCEPT ![s] = [at |-> "backfill"]]
    /\ UNCHANGED <<mgr, backoff, url, gone, link, presSubs, subs, asked, seenVars, sessionBounds>>

\* Under presMu: ids are recorded and the whole list is copied; ask is who will
\* be queried.
Record(s, ids, ask) ==
    /\ presSubs' = presSubs \cup ids
    /\ sender' = [sender EXCEPT ![s] =
                    IF ask = {} THEN SessionRests
                    ELSE [at |-> "subscribe", list |-> presSubs \cup ids, ask |-> ask]]

ResubPresence(s) ==
    /\ sender[s].at = "backfill"
    /\ Record(s, SessionDms, presSubs \cup SessionDms)
    /\ UNCHANGED <<netVars, gate, subs, asked, seenVars, sessionBounds>>

WatchPresence(s, ids) ==
    /\ sender[s] = SessionRests /\ watches < MaxWatches /\ watches' = watches + 1
    /\ Record(s, ids, ids \ presSubs)
    /\ UNCHANGED <<netVars, gate, subs, asked, seenVars, dialFails, linkDrops, presenceMoves>>

SubscribePresence(s) ==
    /\ sender[s].at = "subscribe"
    /\ IF link = "open"
       THEN /\ subs' = sender[s].list /\ asked' = asked \cap sender[s].list
            /\ sender' = [sender EXCEPT ![s].at = "query"]
       ELSE UNCHANGED <<subs, asked>> /\ sender' = [sender EXCEPT ![s] = SessionRests]
    /\ UNCHANGED <<netVars, gate, presSubs, seenVars, sessionBounds>>

\* Slack answers with an event per state.
Answers(users) ==
    LET of(x) == {u \in users : truth[u] = x}
        event(x) == IF of(x) = {} THEN <<>> ELSE <<[users |-> of(x), state |-> x]>>
    IN event("active") \o event("away")

QueryPresence(s) ==
    /\ sender[s].at = "query"
    /\ sender' = [sender EXCEPT ![s] = SessionRests]
    /\ IF link = "open"
       THEN /\ asked' = asked \cup (sender[s].ask \cap subs)
            /\ wire' = wire \o Answers(sender[s].ask)
       ELSE UNCHANGED <<asked, wire>>
    /\ UNCHANGED <<netVars, gate, presSubs, subs, truth, presence, sessionBounds>>

-----------------------------------------------------------------------------
(* Presence                                                                *)

Moves(u) ==
    /\ presenceMoves < MaxPresenceMoves /\ presenceMoves' = presenceMoves + 1
    /\ LET x == CHOOSE x \in States : x # truth[u] IN
       /\ truth' = [truth EXCEPT ![u] = x]
       /\ wire' = IF link = "open" /\ u \in subs
                  THEN Append(wire, [users |-> {u}, state |-> x]) ELSE wire
    /\ UNCHANGED <<netVars, gate, presenceListVars, subs, asked, presence, dialFails, linkDrops, watches>>

\* One event may name many users.
Batch(users) == users

OnPresenceChange ==
    /\ wire # <<>> /\ link = "open"
    /\ wire' = Tail(wire)
    /\ presence' = [u \in SessionUsers |-> IF u \in Batch(Head(wire).users)
                                    THEN Head(wire).state ELSE presence[u]]
    /\ UNCHANGED <<netVars, gate, presenceListVars, subs, asked, truth, sessionBounds>>

-----------------------------------------------------------------------------
SessionInit ==
    /\ mgr = "dial" /\ backoff = 1 /\ url = NoUrl /\ gone = {}
    /\ link = "none" /\ greeted = FALSE /\ gate = FALSE
    /\ presSubs = {} /\ sender = [s \in Senders |-> SessionRests]
    /\ subs = {} /\ asked = {} /\ wire = <<>>
    /\ truth = [u \in SessionUsers |-> "away"] /\ presence = [u \in SessionUsers |-> "away"]
    /\ dialFails = 0 /\ linkDrops = 0 /\ presenceMoves = 0 /\ watches = 0

Manager == StartWebSocket \/ Redial \/ WsDone

SessionNext ==
    \/ Manager \/ DialFails \/ DialHangs \/ PeerEnds \/ Drop \/ ReadDeadline \/ StopWebSocket
    \/ \E u \in GatewayUrls : OnReconnectURL(u) \/ GatewayLeaves(u)
    \/ GateExpires
    \/ \E s \in Senders : \/ OnConnect(s) \/ ResubPresence(s)
                          \/ \E ids \in SUBSET SessionUsers : WatchPresence(s, ids)
                          \/ SubscribePresence(s) \/ QueryPresence(s)
    \/ \E u \in SessionUsers : Moves(u)
    \/ OnPresenceChange

SessionSpec == SessionInit /\ [][SessionNext]_sessionVars

\* The loop runs and its timers fire.  A dial that does not hang ends one way or
\* the other; nothing is assumed of one that does.
Dialled == DialFails \/ DialHangs
SessionFairness ==
    /\ WF_sessionVars(Manager \/ Dialled)
    /\ WF_sessionVars(ReadDeadline)

-----------------------------------------------------------------------------
(* Properties                                                              *)

SessionTypeOK ==
    /\ mgr \in {"dial", "hung", "up", "pause"} /\ backoff \in 1 .. MaxBackoff
    /\ url \in GatewayUrls \cup {NoUrl} /\ gone \subseteq GatewayUrls
    /\ link \in {"none", "open", "silent", "ended"} /\ greeted \in BOOLEAN /\ gate \in BOOLEAN
    /\ presSubs \subseteq SessionUsers /\ subs \subseteq presSubs /\ asked \subseteq subs
    /\ \A s \in Senders :
         sender[s].at \in {"rest", "backfill"} \/
         (sender[s].list \subseteq presSubs /\ sender[s].ask \subseteq sender[s].list)
    /\ wire \in Seq([users : SUBSET SessionUsers, state : States])
    /\ truth \in [SessionUsers -> States] /\ presence \in [SessionUsers -> States]

\* Whatever fails, goes silent, closes or is closed, and whichever URLs Slack
\* handed out and withdrew, the daemon is connected again, or a dial is never
\* answered: client.go:296-298 gives it no deadline (client.go:296-312,
\* connection.go:40-68).
Hung == mgr = "hung"
Reconnects == ~Alive ~> (Alive \/ []Hung)

\* Once nothing is on its way, a user the daemon asked about, and who has been on
\* the list Slack holds ever since, is shown as Slack has them, wherever a change
\* falls: before the list, between list and query, in a batch of others, or
\* while another list replaces this one (backfill.go:47-100, events.go:344-356).
AskedIsCurrent ==
    (link = "open" /\ wire = <<>>) => \A u \in asked : presence[u] = truth[u]
=============================================================================
