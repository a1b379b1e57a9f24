--------------------------------- MODULE Focus ---------------------------------
(***************************************************************************)
(* What the user is looking at, and what follows from it for a message     *)
(* that comes in: watchNiriFocus, the focus command, maybeNotify and       *)
(* maybeMarkActiveRead (main.go), ShouldNotify (internal/notify).          *)
(*                                                                         *)
(* The compositor's events tell whether the client's window has the focus; *)
(* the client tells which channel it shows.  The poll loop asks twice for  *)
(* each message: first whether to notify, then whether to mark the channel *)
(* read.                                                                   *)
(***************************************************************************)
EXTENDS Naturals, Sequences, FiniteSets

CONSTANTS
    Windows, NoWindow,
    FocusChannels, NoChannel,   \* of one workspace; another one's is NoChannel
    MaxDown,               \* bound: ends of the event stream
    MaxFocusEvents,             \* bound: what the user does
    MaxMessages            \* bound: messages that come in

ASSUME FocusAssumption == NoWindow \notin Windows /\ NoChannel \notin FocusChannels

\* A message: in which channel, the user's own, a reply, and what else would make
\* it worth telling (a direct message, a followed thread, a mention, a watched
\* word).
Messages == [ch : FocusChannels, own : BOOLEAN, reply : BOOLEAN, told : BOOLEAN]

VARIABLES
    win,        \* each window: none, ours (titled slqs), other
    focus,      \* the window that has the focus
    stream,     \* the event stream: up, down
    focusEvents,     \* on their way
    qsWins, focused, appActive,
    activeCh,   \* the channel the client says it shows
    msg,        \* the message the poll loop handles, what became of it, and history:
                \* how it stood at each question (knew: all events read; there: the
                \* client's window had the focus)
    acts, focusMessages, downs

desk == <<win, focus, focusEvents>>
niriVars == <<stream, qsWins, focused, appActive>>
focusVars == <<desk, niriVars, activeCh, msg, acts, focusMessages, downs>>

NoMsg == [at |-> "none"]

\* --- defective variants, for mutation runs ---
\* the window that has just been given its title is not recognized
Ours_AtOpening(w) == w \in qsWins

-----------------------------------------------------------------------------
(* The desktop                                                             *)

Emit(event) == focusEvents' = IF stream = "up" THEN Append(focusEvents, event) ELSE focusEvents
Act == acts < MaxFocusEvents /\ acts' = acts + 1
Still == UNCHANGED <<niriVars, activeCh, msg, focusMessages, downs>>

\* A window opens without its title and with the focus, or changes its title.
FocusChange(w, to) ==
    /\ Act
    /\ win[w] # to /\ focus' = IF win[w] = "none" THEN w ELSE focus
    /\ win' = [win EXCEPT ![w] = to]
    /\ Emit([kind |-> "changed", w |-> w, ours |-> to = "ours", focused |-> focus' = w])
    /\ Still

Close(w) ==
    /\ Act /\ win[w] # "none" /\ win' = [win EXCEPT ![w] = "none"]
    /\ focus' = IF focus = w THEN NoWindow ELSE focus
    /\ Emit([kind |-> "closed", w |-> w]) /\ Still

FocusOn(w) ==
    /\ Act /\ focus # w /\ w \in {NoWindow} \cup {x \in Windows : win[x] # "none"}
    /\ focus' = w /\ Emit([kind |-> "focus", w |-> w])
    /\ UNCHANGED win /\ Still

-----------------------------------------------------------------------------
(* watchNiriFocus                                                          *)

Learn(wins, f) ==
    /\ qsWins' = wins /\ focused' = f
    /\ appActive' = (f # NoWindow /\ f \in wins)

StreamEnds ==
    /\ stream = "up" /\ downs < MaxDown /\ downs' = downs + 1
    /\ stream' = "down" /\ focusEvents' = <<>>
    /\ UNCHANGED <<win, focus, qsWins, focused, appActive, activeCh, msg, acts, focusMessages>>

\* The stream starts with a WindowsChanged; what was known is forgotten, save for
\* appActive, until it has been read.
StreamStarts ==
    /\ stream = "down" /\ stream' = "up"
    /\ focusEvents' = <<[kind |-> "windows", ours |-> {w \in Windows : win[w] = "ours"},
                    focused |-> focus]>>
    /\ qsWins' = {} /\ focused' = NoWindow
    /\ UNCHANGED <<win, focus, appActive, activeCh, msg, acts, focusMessages, downs>>

Ours(w) == Head(focusEvents).ours
AfterClose(w) == IF focused = w THEN NoWindow ELSE focused

Apply ==
    /\ stream = "up" /\ focusEvents # <<>> /\ focusEvents' = Tail(focusEvents)
    /\ LET e == Head(focusEvents)
       IN CASE e.kind = "windows" -> Learn(e.ours, IF e.focused = NoWindow THEN focused
                                                   ELSE e.focused)
            [] e.kind = "changed" -> Learn(IF Ours(e.w) THEN qsWins \cup {e.w} ELSE qsWins \ {e.w},
                                           IF e.focused THEN e.w ELSE focused)
            [] e.kind = "closed" -> Learn(qsWins \ {e.w}, AfterClose(e.w))
            [] e.kind = "focus" -> Learn(qsWins, e.w)
    /\ UNCHANGED <<win, focus, stream, activeCh, msg, acts, focusMessages, downs>>

\* The client says what it shows; nothing says so when it is gone.
FocusCommand(ch) ==
    /\ Act /\ activeCh # ch /\ activeCh' = ch
    /\ UNCHANGED <<desk, niriVars, msg, focusMessages, downs>>

-----------------------------------------------------------------------------
(* A message                                                               *)

Viewed(ch) == appActive /\ activeCh = ch
InFront == focus \in {w \in Windows : win[w] = "ours"}
Standing(ch) == [knew |-> stream = "up" /\ focusEvents = <<>>, there |-> InFront /\ activeCh = ch]

\* appActive is not asked for
ShouldNotify_Open(x) == ~x.own /\ activeCh # x.ch /\ x.told
ShouldNotify(x) == ~x.own /\ ~Viewed(x.ch) /\ x.told

MaybeNotify(x) ==
    /\ msg = NoMsg /\ focusMessages < MaxMessages /\ focusMessages' = focusMessages + 1
    /\ msg' = [at |-> "mark", x |-> x, notified |-> ShouldNotify(x), asked |-> Standing(x.ch)]
    /\ UNCHANGED <<desk, niriVars, activeCh, acts, downs>>

\* A reply is left to the client.
MaybeMarkActiveRead ==
    /\ msg # NoMsg /\ msg.at = "mark"
    /\ LET x == msg.x IN
       msg' = [at |-> "done", x |-> x, notified |-> msg.notified, asked |-> msg.asked,
               read |-> ~x.own /\ ~x.reply /\ Viewed(x.ch), marked |-> Standing(x.ch)]
    /\ UNCHANGED <<desk, niriVars, activeCh, acts, focusMessages, downs>>

PollNext ==
    /\ msg # NoMsg /\ msg.at = "done" /\ msg' = NoMsg
    /\ UNCHANGED <<desk, niriVars, activeCh, acts, focusMessages, downs>>

-----------------------------------------------------------------------------
FocusInit ==
    /\ win = [w \in Windows |-> "none"] /\ focus = NoWindow
    /\ stream = "down" /\ focusEvents = <<>>
    /\ qsWins = {} /\ focused = NoWindow /\ appActive = FALSE
    /\ activeCh = NoChannel /\ msg = NoMsg
    /\ acts = 0 /\ focusMessages = 0 /\ downs = 0

FocusNext ==
    \/ \E w \in Windows : FocusChange(w, "other") \/ FocusChange(w, "ours") \/ Close(w)
    \/ \E w \in Windows \cup {NoWindow} : FocusOn(w)
    \/ \E ch \in FocusChannels \cup {NoChannel} : FocusCommand(ch)
    \/ StreamEnds \/ StreamStarts \/ Apply
    \/ \E x \in Messages : MaybeNotify(x)
    \/ MaybeMarkActiveRead \/ PollNext

FocusSpec == FocusInit /\ [][FocusNext]_focusVars

-----------------------------------------------------------------------------
(* Properties                                                              *)

FocusTypeOK ==
    /\ win \in [Windows -> {"none", "ours", "other"}] /\ focus \in Windows \cup {NoWindow}
    /\ stream \in {"up", "down"}
    /\ \A i \in DOMAIN focusEvents : focusEvents[i].kind \in {"windows", "changed", "closed", "focus"}
    /\ qsWins \subseteq Windows /\ focused \in Windows \cup {NoWindow} /\ appActive \in BOOLEAN
    /\ activeCh \in FocusChannels \cup {NoChannel}
    /\ msg = NoMsg \/ msg.x \in Messages

\* Once the daemon has read what the compositor said it knows whether its client
\* has the focus, whatever was opened, titled, closed or focused while the stream
\* was down (main.go:2269-2358).
FocusIsKnown ==
    (stream = "up" /\ focusEvents = <<>>) =>
        appActive = InFront

\* What is worth telling is told unless the user had it in front, and what is
\* marked read, a moment later, was in front then, for a message that finds the
\* daemon with all events read; what is neither told nor marked was in front
\* first and then left, or is a reply (main.go:2160-2218).
MessageIsJudged ==
    msg # NoMsg /\ msg.x.told /\ ~msg.x.own /\ msg.asked.knew =>
        /\ msg.notified = ~msg.asked.there
        /\ msg.at = "done" /\ msg.marked.knew =>
               /\ msg.read => msg.marked.there
               /\ ~msg.notified /\ ~msg.read => msg.x.reply \/ (msg.asked.there /\ ~msg.marked.there)
=============================================================================
