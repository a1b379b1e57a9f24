------------------------------- MODULE Notifier -------------------------------
(***************************************************************************)
(* Desktop notifications: Notifier (internal/notify/notifier.go) and the   *)
(* session bus with its notification server, as the code uses them.        *)
(*                                                                         *)
(* A conversation has one notification, replaced by the next.  A send goes *)
(* over the bus; when it fails the bus is dialled again, once.  The ids    *)
(* the server gives are remembered in both directions: for the next        *)
(* replacement, and to find the conversation of the one that is clicked.   *)
(* The server's signals come on a goroutine of their own.                  *)
(***************************************************************************)
EXTENDS Naturals, FiniteSets

CONSTANTS
    Convs, NoConv,    \* conversations: RouteKey
    MaxIds,           \* bound: notifications that replace none
    MaxBreaks         \* bound: losses of the bus, restarts of its server

ASSUME NotifierAssumption == NoConv \notin Convs /\ {MaxIds, MaxBreaks} \subseteq Nat

VARIABLES
    bus,         \* the session bus and its server are up
    conn,        \* Notifier.conn: "ok", "broken" (not noticed), "nil"
    hears,       \* Notifier.notifier is there: signals are received
    visible,     \* the server's notifications: id -> conversation
    issued,      \* the last id the server gave
    closing,     \* ids whose NotificationClosed has not been handled
    lastID, idToKey,
    notifying,   \* the conversation in Notify, the id the server gave (0: none yet), and
                 \* whether its reply has come
    overtaken,   \* ids shown again before the signal that they had been closed
    unheard,     \* ids shown by a send whose reply was lost
    breaks

busVars == <<bus, visible, issued>>
notifierVars == <<busVars, conn, hears, closing, lastID, idToKey, notifying, overtaken, unheard,
                  breaks>>

IdSet == 1 .. MaxIds
NoSend == [conv |-> NoConv, id |-> 0, tries |-> 0, replied |-> FALSE]

\* --- defective variants, for mutation runs ---
\* a new connection starts with no ids to route
Kept_Forgotten == [i \in IdSet |-> NoConv]

-----------------------------------------------------------------------------
(* The bus                                                                 *)

\* The connection is lost; the server may have gone with it, and its
\* notifications too.
Break ==
    /\ breaks < MaxBreaks /\ breaks' = breaks + 1
    /\ conn' = (IF conn = "ok" THEN "broken" ELSE conn) /\ hears' = FALSE
    /\ closing' = {}
    /\ \/ UNCHANGED busVars
       \/ /\ bus' = FALSE /\ issued' = 0
          /\ visible' = [i \in IdSet |-> NoConv]
    /\ overtaken' = IF bus' THEN overtaken ELSE {}
    /\ UNCHANGED <<lastID, idToKey, notifying, unheard>>

BusReturns ==
    /\ ~bus /\ bus' = TRUE
    /\ UNCHANGED <<visible, issued, conn, hears, closing, lastID, idToKey, notifying,
                   overtaken, unheard, breaks>>

\* A notification expires or is dismissed.
NotifClosed(i) ==
    /\ visible[i] # NoConv
    /\ visible' = [visible EXCEPT ![i] = NoConv]
    /\ closing' = IF hears THEN closing \cup {i} ELSE closing
    /\ UNCHANGED <<bus, issued, conn, hears, lastID, idToKey, notifying, overtaken, unheard, breaks>>

HandleClosed(i) ==
    /\ i \in closing /\ closing' = closing \ {i}
    /\ idToKey' = [idToKey EXCEPT ![i] = NoConv]
    /\ UNCHANGED <<busVars, conn, hears, lastID, notifying, overtaken, unheard, breaks>>

-----------------------------------------------------------------------------
(* Notify, one at a time                                                   *)

Notify(k) ==
    /\ notifying = NoSend /\ conn # "nil"
    /\ notifying' = [conv |-> k, id |-> 0, tries |-> 0, replied |-> FALSE]
    /\ UNCHANGED <<busVars, conn, hears, closing, lastID, idToKey, overtaken, unheard, breaks>>

\* The server shows it under the id it replaces when that is there, and else under
\* the same one (as the desktop specification has it) or a new one.
NewIds == {i \in IdSet : i > issued /\ visible[i] = NoConv}
First(ids) == {i \in ids : \A j \in ids : i <= j}

SendDBus ==
    LET prev == lastID[notifying.conv]
        Given == IF prev = 0 THEN First(NewIds)
                 ELSE IF visible[prev] # NoConv THEN {prev} ELSE {prev} \cup First(NewIds)
    IN /\ notifying # NoSend /\ notifying.id = 0 /\ conn = "ok" /\ bus
       /\ \E i \in Given :
            /\ visible' = [visible EXCEPT ![i] = notifying.conv]
            /\ issued' = IF i = prev THEN issued ELSE i
            /\ overtaken' = IF i \in closing THEN overtaken \cup {i} ELSE overtaken \ {i}
            /\ unheard' = unheard \ {i}
            /\ notifying' = [notifying EXCEPT !.id = i]
       /\ UNCHANGED <<bus, conn, hears, closing, lastID, idToKey, breaks>>

\* The reply comes, or the connection is lost before it does and the send has
\* failed as one that was never shown.
Reply ==
    /\ notifying.id # 0 /\ ~ notifying.replied /\ conn = "ok"
    /\ notifying' = [notifying EXCEPT !.replied = TRUE]
    /\ UNCHANGED <<busVars, conn, hears, closing, lastID, idToKey, overtaken, unheard, breaks>>

ReplyLost ==
    /\ notifying.id # 0 /\ ~ notifying.replied /\ conn = "broken"
    /\ notifying' = [notifying EXCEPT !.id = 0]
    /\ unheard' = unheard \cup {notifying.id}
    /\ UNCHANGED <<busVars, conn, hears, closing, lastID, idToKey, overtaken, breaks>>

\* What is known of the ids survives the connection.
Kept == idToKey

\* A send that fails dials again and tries once more; the listener may not come
\* up, and without a bus there is no connection any more and the message goes
\* out another way.
Reconnect ==
    /\ notifying # NoSend /\ notifying.id = 0 /\ conn = "broken" /\ notifying.tries = 0
    /\ IF bus THEN /\ conn' = "ok" /\ hears' \in BOOLEAN
                   /\ notifying' = [notifying EXCEPT !.tries = 1]
              ELSE conn' = "nil" /\ hears' = FALSE /\ notifying' = NoSend
    /\ idToKey' = Kept
    /\ UNCHANGED <<busVars, closing, lastID, overtaken, unheard, breaks>>

GivesUp ==
    /\ notifying # NoSend /\ notifying.id = 0 /\ conn = "broken" /\ notifying.tries = 1
    /\ notifying' = NoSend
    /\ UNCHANGED <<busVars, conn, hears, closing, lastID, idToKey, overtaken, unheard, breaks>>

\* The id given before is forgotten when it is another one.
Noted ==
    LET k == notifying.conv
        prev == lastID[k]
    IN /\ notifying.replied
       /\ idToKey' = [i \in IdSet |-> IF i = notifying.id THEN k
                                      ELSE IF i = prev THEN NoConv ELSE idToKey[i]]
       /\ lastID' = [lastID EXCEPT ![k] = notifying.id]
       /\ notifying' = NoSend
       /\ UNCHANGED <<busVars, conn, hears, closing, overtaken, unheard, breaks>>

-----------------------------------------------------------------------------
NotifierInit ==
    /\ bus = TRUE /\ conn = "ok" /\ hears \in BOOLEAN
    /\ visible = [i \in IdSet |-> NoConv] /\ issued = 0 /\ closing = {}
    /\ lastID = [k \in Convs |-> 0] /\ idToKey = [i \in IdSet |-> NoConv]
    /\ notifying = NoSend /\ overtaken = {} /\ unheard = {} /\ breaks = 0

NotifierNext ==
    \/ Break \/ BusReturns
    \/ \E i \in IdSet : NotifClosed(i) \/ HandleClosed(i)
    \/ \E k \in Convs : Notify(k)
    \/ SendDBus \/ Reply \/ ReplyLost \/ Reconnect \/ GivesUp \/ Noted

NotifierSpec == NotifierInit /\ [][NotifierNext]_notifierVars

-----------------------------------------------------------------------------
(* Properties                                                              *)

NotifierTypeOK ==
    /\ bus \in BOOLEAN /\ conn \in {"ok", "broken", "nil"} /\ hears \in BOOLEAN
    /\ visible \in [IdSet -> Convs \cup {NoConv}] /\ issued \in 0 .. MaxIds
    /\ closing \subseteq IdSet /\ overtaken \subseteq IdSet /\ unheard \subseteq IdSet
    /\ lastID \in [Convs -> 0 .. MaxIds] /\ idToKey \in [IdSet -> Convs \cup {NoConv}]
    /\ notifying.conv \in Convs \cup {NoConv} /\ notifying.id \in 0 .. MaxIds
    /\ breaks \in 0 .. MaxBreaks

\* A click on what is shown finds its conversation (notifier.go:84-100), across
\* replacements, lost connections and a server that starts counting again, save
\* for the moment before a send is noted, for a notification shown again before
\* the daemon has heard that it had been closed, and for one it never heard of:
\* the connection was lost between the showing and the reply.
VisibleIsRouted ==
    notifying.id = 0 =>
        \A i \in IdSet : (visible[i] # NoConv /\ i \notin overtaken \cup unheard) =>
            idToKey[i] = visible[i]
=============================================================================
