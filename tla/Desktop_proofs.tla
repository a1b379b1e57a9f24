---------------------------- MODULE Desktop_proofs ----------------------------
(***************************************************************************)
(* Proofs about the side the user sees: Desktop (notifications and the     *)
(* focus, each and together), AttachSend and Clients.                      *)
(***************************************************************************)
EXTENDS Desktop, AttachSend, Clients, EventRuns, FiniteSetTheorems, TLAPS

-----------------------------------------------------------------------------
(* Notifier                                                                *)

Sending == [conv : Convs, id : 0 .. MaxIds, tries : {0, 1}, replied : BOOLEAN]

NotifierTyped ==
    /\ bus \in BOOLEAN /\ conn \in {"ok", "broken", "nil"} /\ hears \in BOOLEAN
    /\ visible \in [IdSet -> Convs \cup {NoConv}] /\ issued \in 0 .. MaxIds
    /\ closing \subseteq IdSet /\ overtaken \subseteq IdSet /\ unheard \subseteq IdSet
    /\ lastID \in [Convs -> 0 .. MaxIds] /\ idToKey \in [IdSet -> Convs \cup {NoConv}]
    /\ notifying = NoSend \/ notifying \in Sending
    /\ notifying.replied => notifying.id # 0
    /\ breaks \in 0 .. MaxBreaks

\* What is shown can be found by its id, but for the one that is being noted, those
\* shown again early and those whose reply was lost.
RoutedButNoted ==
    \A i \in IdSet :
        (visible[i] # NoConv /\ i \notin overtaken \cup unheard /\ i # notifying.id) =>
            idToKey[i] = visible[i]

\* Under the id a send was given nothing else is shown, and the id it replaces, if it
\* is another one, shows nothing any more.
SentIsShown ==
    notifying.id # 0 =>
        /\ visible[notifying.id] \in {NoConv, notifying.conv}
        /\ \/ lastID[notifying.conv] \in {0, notifying.id}
           \/ visible[lastID[notifying.conv]] = NoConv

\* An id whose closing is not handled yet is not shown, or was shown again early; without
\* a bus nothing is shown.
ClosingIsGone ==
    /\ \A i \in closing : visible[i] = NoConv \/ i \in overtaken
    /\ ~ bus => \A i \in IdSet : visible[i] = NoConv

NotifierInv == NotifierTyped /\ RoutedButNoted /\ SentIsShown /\ ClosingIsGone

LEMMA NoSendTyped ==
    /\ NoSend.conv = NoConv /\ NoSend.id = 0 /\ NoSend.tries = 0 /\ NoSend.replied = FALSE
    /\ NoSend \notin Sending
BY NotifierAssumption DEF NoSend, Sending

\* A send under way has the ids of the set, its conversation's last one among them.
LEMMA SentTyped ==
    ASSUME NotifierInv, notifying.id # 0
    PROVE  /\ notifying \in Sending /\ notifying.conv \in Convs /\ notifying.id \in IdSet
           /\ lastID[notifying.conv] \in {0} \cup IdSet
<1>1. notifying \in Sending
    BY NoSendTyped DEF NotifierInv, NotifierTyped
<1>2. notifying.conv \in Convs /\ notifying.id \in IdSet
    BY <1>1 DEF Sending, IdSet
<1>3. lastID[notifying.conv] \in 0 .. MaxIds
    BY <1>2 DEF NotifierInv, NotifierTyped
<1> QED
    BY <1>1, <1>2, <1>3 DEF IdSet

LEMMA BreakKeeps ==
    ASSUME NotifierInv, Break
    PROVE  NotifierInv'
<1>1. /\ UNCHANGED <<lastID, idToKey, notifying, unheard>> /\ closing' = {} /\ hears' = FALSE
      /\ conn' \in {"ok", "broken", "nil"} /\ breaks' \in 0 .. MaxBreaks
      /\ overtaken' = (IF bus' THEN overtaken ELSE {})
  <2>1. breaks < MaxBreaks /\ breaks' = breaks + 1 /\ breaks \in 0 .. MaxBreaks /\ MaxBreaks \in Nat
      BY NotifierAssumption DEF Break, NotifierInv, NotifierTyped
  <2>2. breaks' \in 0 .. MaxBreaks
      BY <2>1
  <2>3. conn' \in {"ok", "broken", "nil"}
      BY DEF Break, NotifierInv, NotifierTyped
  <2> QED
      BY <2>2, <2>3 DEF Break
<1>2. CASE UNCHANGED busVars
  <2>1. UNCHANGED <<bus, visible, issued>>
      BY <1>2 DEF busVars
  <2>2. NotifierTyped'
      BY <1>1, <2>1 DEF NotifierInv, NotifierTyped
  <2>3. RoutedButNoted'
      BY <1>1, <2>1 DEF NotifierInv, RoutedButNoted, ClosingIsGone
  <2>4. SentIsShown' /\ ClosingIsGone'
      BY <1>1, <2>1 DEF NotifierInv, SentIsShown, ClosingIsGone
  <2> QED
      BY <2>2, <2>3, <2>4 DEF NotifierInv
<1>3. CASE bus' = FALSE /\ issued' = 0 /\ visible' = [i \in IdSet |-> NoConv]
  <2>1. \A i \in IdSet : visible'[i] = NoConv
      BY <1>3
  <2>2. NotifierTyped'
    <3>1. visible' \in [IdSet -> Convs \cup {NoConv}]
        BY <1>3
    <3>2. issued' \in 0 .. MaxIds /\ bus' \in BOOLEAN
      <4>1. MaxIds \in Nat
          BY NotifierAssumption
      <4>2. issued' \in 0 .. MaxIds
          BY <4>1, <1>3
      <4> QED
          BY <4>2, <1>3
    <3>3. overtaken' \subseteq IdSet
        BY <1>1, <1>3
    <3> QED
        BY <1>1, <3>1, <3>2, <3>3 DEF NotifierInv, NotifierTyped, Sending
  <2>3. RoutedButNoted' /\ ClosingIsGone'
      BY <1>1, <2>1 DEF RoutedButNoted, ClosingIsGone
  <2>4. SentIsShown'
    <3>1. notifying.id # 0 =>
              notifying.id \in IdSet /\ lastID[notifying.conv] \in {0} \cup IdSet
        BY SentTyped
    <3> QED
        BY <1>1, <2>1, <3>1 DEF NotifierInv, SentIsShown
  <2> QED
      BY <2>2, <2>3, <2>4 DEF NotifierInv
<1> QED
    BY <1>2, <1>3 DEF Break

LEMMA ClosedKeeps ==
    ASSUME NotifierInv, NEW i \in IdSet, NotifClosed(i) \/ HandleClosed(i)
    PROVE  NotifierInv'
<1>1. CASE NotifClosed(i)
  <2>1. /\ UNCHANGED <<bus, issued, conn, hears, lastID, idToKey, notifying, overtaken,
                        unheard, breaks>>
        /\ closing' \subseteq closing \cup {i}
        /\ visible' = [visible EXCEPT ![i] = NoConv]
      BY <1>1 DEF NotifClosed
  <2>2. \A j \in IdSet : visible'[j] = IF j = i THEN NoConv ELSE visible[j]
      BY <2>1 DEF NotifierInv, NotifierTyped
  <2>3. NotifierTyped'
      BY <2>1 DEF NotifierInv, NotifierTyped
  <2>4. RoutedButNoted' /\ ClosingIsGone'
      BY <2>1, <2>2 DEF NotifierInv, NotifierTyped, RoutedButNoted, ClosingIsGone
  <2>5. SentIsShown'
    <3>1. notifying.id # 0 =>
              notifying.id \in IdSet /\ lastID[notifying.conv] \in {0} \cup IdSet
        BY SentTyped
    <3> QED
        BY <2>1, <2>2, <3>1 DEF NotifierInv, SentIsShown
  <2> QED
      BY <2>3, <2>4, <2>5 DEF NotifierInv
<1>2. CASE HandleClosed(i)
  <2>1. /\ UNCHANGED <<bus, visible, issued, conn, hears, lastID, notifying, overtaken, unheard,
                        breaks>>
        /\ closing' = closing \ {i} /\ i \in closing
        /\ idToKey' = [idToKey EXCEPT ![i] = NoConv]
      BY <1>2 DEF HandleClosed, busVars
  <2>2. \A j \in IdSet : idToKey'[j] = IF j = i THEN NoConv ELSE idToKey[j]
      BY <2>1 DEF NotifierInv, NotifierTyped
  <2>3. NotifierTyped'
      BY <2>1 DEF NotifierInv, NotifierTyped
  <2>4. RoutedButNoted' /\ ClosingIsGone' /\ SentIsShown'
      BY <2>1, <2>2 DEF NotifierInv, NotifierTyped, RoutedButNoted, ClosingIsGone, SentIsShown
  <2> QED
      BY <2>3, <2>4 DEF NotifierInv
<1> QED
    BY <1>1, <1>2

LEMMA SendKeeps ==
    ASSUME NotifierInv, SendDBus
    PROVE  NotifierInv'
<1> DEFINE k == notifying.conv
           old == lastID[k]
<1>1. /\ notifying \in Sending /\ notifying.id = 0 /\ ~ notifying.replied /\ bus
      /\ UNCHANGED <<bus, conn, hears, closing, lastID, idToKey, breaks>>
    BY DEF SendDBus, NotifierInv, NotifierTyped
<1>2. k \in Convs /\ old \in 0 .. MaxIds
    BY <1>1 DEF Sending, NotifierInv, NotifierTyped
<1>3. PICK i \in IdSet :
            /\ i = old \/ old = 0 \/ visible[old] = NoConv
            /\ visible' = [visible EXCEPT ![i] = k]
            /\ issued' = IF i = old THEN issued ELSE i
            /\ overtaken' = IF i \in closing THEN overtaken \cup {i} ELSE overtaken \ {i}
            /\ unheard' = unheard \ {i}
            /\ notifying' = [notifying EXCEPT !.id = i]
  <2>1. old # 0 => old \in IdSet
      BY <1>2 DEF IdSet
  <2>2. First(NewIds) \subseteq IdSet
      BY DEF First, NewIds
  <2> QED
      BY <2>1, <2>2 DEF SendDBus
<1>4. /\ notifying' \in Sending /\ notifying'.id = i /\ notifying'.conv = k
      /\ i # 0 /\ i \in 0 .. MaxIds
    BY <1>1, <1>2, <1>3 DEF Sending, IdSet
<1> HIDE DEF k, old
<1>5. \A j \in IdSet : visible'[j] = IF j = i THEN k ELSE visible[j]
    BY <1>3 DEF NotifierInv, NotifierTyped
<1>6. NotifierTyped'
    BY <1>1, <1>2, <1>3, <1>4 DEF NotifierInv, NotifierTyped
<1>7. RoutedButNoted'
    BY <1>1, <1>3, <1>4, <1>5 DEF NotifierInv, RoutedButNoted, IdSet
<1>8. SentIsShown'
  <2>1. visible'[i] = k /\ lastID'[k] = old
      BY <1>1, <1>5 DEF k, old
  <2>2. old = 0 \/ old = i \/ (old \in IdSet /\ visible'[old] = NoConv)
      BY <1>2, <1>3, <1>5 DEF IdSet
  <2> QED
      BY <1>4, <2>1, <2>2 DEF SentIsShown
<1>9. ClosingIsGone'
    BY <1>1, <1>3, <1>5 DEF NotifierInv, NotifierTyped, ClosingIsGone
<1> QED
    BY <1>6, <1>7, <1>8, <1>9 DEF NotifierInv

\* The reply comes, or is lost with the connection.
LEMMA ReplyKeeps ==
    ASSUME NotifierInv, Reply \/ ReplyLost
    PROVE  NotifierInv'
<1>1. /\ notifying.id # 0 /\ ~ notifying.replied
      /\ UNCHANGED <<bus, visible, issued, conn, hears, closing, lastID, idToKey, overtaken, breaks>>
    BY DEF Reply, ReplyLost, busVars
<1>2. notifying \in Sending /\ notifying.conv \in Convs /\ notifying.id \in IdSet
    BY <1>1, SentTyped
<1>3. CASE Reply
  <2>1. /\ notifying' \in Sending /\ notifying'.id = notifying.id
        /\ notifying'.conv = notifying.conv /\ unheard' = unheard
      BY <1>2, <1>3 DEF Reply, Sending
  <2>2. NotifierTyped'
      BY <1>1, <2>1 DEF NotifierInv, NotifierTyped
  <2>3. RoutedButNoted' /\ SentIsShown' /\ ClosingIsGone'
      BY <1>1, <2>1 DEF NotifierInv, RoutedButNoted, SentIsShown, ClosingIsGone
  <2> QED
      BY <2>2, <2>3 DEF NotifierInv
<1>4. CASE ReplyLost
  <2>1. MaxIds \in Nat
      BY NotifierAssumption
  <2>2. /\ notifying' \in Sending /\ notifying'.id = 0 /\ ~ notifying'.replied
        /\ unheard' = unheard \cup {notifying.id}
    <3>1. notifying' = [notifying EXCEPT !.id = 0] /\ unheard' = unheard \cup {notifying.id}
        BY <1>4 DEF ReplyLost
    <3> QED
        BY <1>1, <1>2, <2>1, <3>1 DEF Sending
  <2>3. NotifierTyped'
      BY <1>1, <1>2, <2>2 DEF NotifierInv, NotifierTyped
  <2>4. RoutedButNoted' /\ SentIsShown' /\ ClosingIsGone'
      BY <1>1, <2>2 DEF NotifierInv, RoutedButNoted, SentIsShown, ClosingIsGone
  <2> QED
      BY <2>3, <2>4 DEF NotifierInv
<1> QED
    BY <1>3, <1>4

LEMMA NotedKeeps ==
    ASSUME NotifierInv, Noted
    PROVE  NotifierInv'
<1> DEFINE k == notifying.conv
           old == lastID[k]
<1>1. /\ notifying.replied /\ notifying' = NoSend
      /\ idToKey' = [i \in IdSet |-> IF i = notifying.id THEN k
                                     ELSE IF i = old THEN NoConv ELSE idToKey[i]]
      /\ lastID' = [lastID EXCEPT ![k] = notifying.id]
      /\ UNCHANGED <<bus, visible, issued, conn, hears, closing, overtaken, unheard, breaks>>
    BY DEF Noted, busVars
<1>2. /\ notifying.id # 0 /\ notifying \in Sending /\ k \in Convs /\ notifying.id \in IdSet
      /\ old \in {0} \cup IdSet
    BY <1>1, SentTyped DEF NotifierInv, NotifierTyped
<1>3. /\ visible[notifying.id] \in {NoConv, k}
      /\ old \in {0, notifying.id} \/ visible[old] = NoConv
    BY <1>2 DEF NotifierInv, SentIsShown
<1> HIDE DEF k, old
<1>4. \A i \in IdSet : \/ idToKey'[i] = IF i = notifying.id THEN k ELSE idToKey[i]
                       \/ visible[i] = NoConv
    BY <1>1, <1>3 DEF IdSet
<1>5. notifying.id \in 0 .. MaxIds /\ notifying'.id = 0 /\ ~ notifying'.replied
    BY <1>1, <1>2, NoSendTyped DEF IdSet
<1>6. idToKey' \in [IdSet -> Convs \cup {NoConv}]
    BY <1>1, <1>2 DEF NotifierInv, NotifierTyped
<1>7. NotifierTyped'
    BY <1>1, <1>5, <1>6 DEF NotifierInv, NotifierTyped
<1>8. RoutedButNoted'
    BY <1>1, <1>3, <1>4 DEF NotifierInv, RoutedButNoted
<1>9. SentIsShown' /\ ClosingIsGone'
    BY <1>1, <1>5 DEF NotifierInv, SentIsShown, ClosingIsGone
<1> QED
    BY <1>7, <1>8, <1>9 DEF NotifierInv

\* The steps that show nothing and note nothing.
LEMMA OthersKeep ==
    ASSUME NotifierInv,
           BusReturns \/ (\E k \in Convs : Notify(k)) \/ Reconnect \/ GivesUp \/ UNCHANGED notifierVars
    PROVE  NotifierInv'
<1>1. /\ UNCHANGED <<visible, issued, closing, lastID, idToKey, overtaken, unheard, breaks>>
      /\ bus' \in BOOLEAN /\ (~ bus' => ~ bus)
      /\ conn' \in {"ok", "broken", "nil"} /\ hears' \in BOOLEAN
    BY DEF BusReturns, Notify, Reconnect, Kept, GivesUp, notifierVars, busVars, NotifierInv,
       NotifierTyped
<1>2. notifying' = notifying \/ (/\ notifying.id = 0 /\ notifying'.id = 0 /\ ~ notifying'.replied
                                 /\ (notifying' = NoSend \/ notifying' \in Sending))
  <2>1. CASE \E k \in Convs : Notify(k)
    <3>1. \A k \in Convs :
              [conv |-> k, id |-> 0, tries |-> 0, replied |-> FALSE] \in Sending
        BY NotifierAssumption DEF Sending
    <3> QED
        BY <2>1, <3>1, NoSendTyped DEF Notify
  <2>2. CASE Reconnect
    <3>1. notifying \in Sending /\ notifying.id = 0 /\ ~ notifying.replied
        BY <2>2 DEF Reconnect, NotifierInv, NotifierTyped
    <3>2. /\ [notifying EXCEPT !.tries = 1] \in Sending
          /\ [notifying EXCEPT !.tries = 1].id = notifying.id
          /\ [notifying EXCEPT !.tries = 1].replied = notifying.replied
        BY <3>1 DEF Sending
    <3> QED
        BY <2>2, <3>1, <3>2, NoSendTyped DEF Reconnect
  <2> QED
      BY <2>1, <2>2, NoSendTyped DEF BusReturns, GivesUp, notifierVars
<1>3. NotifierTyped'
    BY <1>1, <1>2 DEF NotifierInv, NotifierTyped
<1>4. RoutedButNoted' /\ SentIsShown' /\ ClosingIsGone'
    BY <1>1, <1>2 DEF NotifierInv, RoutedButNoted, SentIsShown, ClosingIsGone
<1> QED
    BY <1>3, <1>4 DEF NotifierInv

\* What is shown can be found by its id, but for the one that is being noted, those
\* shown again early and those whose reply was lost (notifier.go:84-100, 135-153).
THEOREM NotifierInvHolds == NotifierSpec => []NotifierInv
<1>1. NotifierInit => NotifierInv
    BY NotifierAssumption, NoSendTyped DEF NotifierInit, NotifierInv, NotifierTyped, RoutedButNoted,
       SentIsShown, ClosingIsGone, IdSet
<1>2. NotifierInv /\ [NotifierNext]_notifierVars => NotifierInv'
    BY BreakKeeps, ClosedKeeps, SendKeeps, ReplyKeeps, NotedKeeps, OthersKeep DEF NotifierNext
<1> QED
    BY <1>1, <1>2, PTL DEF NotifierSpec

LEMMA NotifierFromInv ==
    ASSUME NotifierInv
    PROVE  NotifierTypeOK /\ VisibleIsRouted
<1>1. NotifierTypeOK
  <2>1. notifying.conv \in Convs \cup {NoConv} /\ notifying.id \in 0 .. MaxIds
      BY NoSendTyped, NotifierAssumption DEF NotifierInv, NotifierTyped, Sending
  <2> QED
      BY <2>1 DEF NotifierInv, NotifierTyped, NotifierTypeOK
<1>2. VisibleIsRouted
    BY DEF NotifierInv, RoutedButNoted, VisibleIsRouted, IdSet
<1> QED
    BY <1>1, <1>2

-----------------------------------------------------------------------------
(* Focus                                                                   *)

AnyWindow == Windows \cup {NoWindow}
FocusEvent ==
    [kind : {"windows"}, ours : SUBSET Windows, focused : AnyWindow]
        \cup [kind : {"changed"}, w : Windows, ours : BOOLEAN, focused : BOOLEAN]
        \cup [kind : {"closed"}, w : Windows]
        \cup [kind : {"focus"}, w : AnyWindow]

\* What is known of the desktop: which windows are the client's, and the focused one.
Knowledge == (SUBSET Windows) \X AnyWindow
DeskNow == <<{w \in Windows : win[w] = "ours"}, focus>>

FocusTyped ==
    /\ win \in [Windows -> {"none", "ours", "other"}] /\ focus \in AnyWindow
    /\ stream \in {"up", "down"} /\ focusEvents \in Seq(FocusEvent)
    /\ qsWins \subseteq Windows /\ focused \in AnyWindow /\ appActive \in BOOLEAN
    /\ activeCh \in FocusChannels \cup {NoChannel}
    /\ msg = NoMsg \/ msg.x \in Messages

\* What an event tells, and what was known before.
FocusSteps ==
    {step \in Knowledge \X FocusEvent \X Knowledge :
        LET a == step[1]
            e == step[2]
            b == step[3]
        IN /\ e.kind = "windows" =>
                  b = <<e.ours, IF e.focused = NoWindow THEN a[2] ELSE e.focused>>
           /\ e.kind = "changed" =>
                  b = <<IF e.ours THEN a[1] \cup {e.w} ELSE a[1] \ {e.w},
                        IF e.focused THEN e.w ELSE a[2]>>
           /\ e.kind = "closed" => b = <<a[1] \ {e.w}, IF a[2] = e.w THEN NoWindow ELSE a[2]>>
           /\ e.kind = "focus" => b = <<a[1], e.w>>}

\* While the stream is up its events lead from what the daemon knows to the desktop as it
\* is, and with none left the daemon has drawn the conclusion.
FocusBehind ==
    stream = "up" =>
        /\ Leads(focusEvents, FocusSteps, Knowledge, <<qsWins, focused>>, DeskNow)
        /\ focusEvents = <<>> => (appActive <=> focused # NoWindow /\ focused \in qsWins)

FocusInv == FocusTyped /\ FocusBehind

LEMMA DeskTyped ==
    ASSUME FocusTyped
    PROVE  DeskNow \in Knowledge /\ <<qsWins, focused>> \in Knowledge
BY DEF FocusTyped, DeskNow, Knowledge

\* The user does something, and the stream tells if it is up.
LEMMA TellKeeps ==
    ASSUME FocusInv, FocusTyped', NEW e \in FocusEvent, Emit(e), Still,
           <<DeskNow, e, DeskNow'>> \in FocusSteps
    PROVE  FocusInv'
<1>1. UNCHANGED <<stream, qsWins, focused, appActive>>
    BY DEF Still, niriVars
<1>2. CASE stream = "up"
  <2>1. focusEvents' = Append(focusEvents, e) /\ focusEvents \in Seq(FocusEvent)
      BY <1>2 DEF Emit, FocusInv, FocusTyped
  <2>2. Leads(focusEvents, FocusSteps, Knowledge, <<qsWins, focused>>, DeskNow)
      BY <1>2 DEF FocusInv, FocusBehind
  <2>3. DeskNow' \in Knowledge
      BY DEF FocusTyped, DeskNow, Knowledge
  <2>4. Leads(Append(focusEvents, e), FocusSteps, Knowledge, <<qsWins, focused>>, DeskNow')
      BY <2>1, <2>2, <2>3, LeadsFurther
  <2>5. Append(focusEvents, e) # <<>>
      BY <2>1
  <2> QED
      BY <1>1, <2>1, <2>4, <2>5 DEF FocusInv, FocusBehind
<1>3. CASE stream # "up"
    BY <1>1, <1>3 DEF FocusInv, FocusBehind
<1> QED
    BY <1>2, <1>3

LEMMA FocusChangeKeeps ==
    ASSUME FocusInv, NEW w \in Windows, FocusChange(w, "other") \/ FocusChange(w, "ours")
    PROVE  FocusInv'
<1>1. PICK as \in {"other", "ours"} : FocusChange(w, as)
    OBVIOUS
<1> DEFINE e == [kind |-> "changed", w |-> w, ours |-> as = "ours", focused |-> focus' = w]
<1>2. /\ Emit(e) /\ Still
      /\ focus' = (IF win[w] = "none" THEN w ELSE focus)
      /\ win' = [win EXCEPT ![w] = as]
    BY <1>1 DEF FocusChange
<1>3. e \in FocusEvent
    BY DEF FocusEvent
<1>4. e.kind = "changed" /\ e.w = w /\ (e.ours <=> as = "ours") /\ (e.focused <=> focus' = w)
    OBVIOUS
<1> HIDE DEF e
<1>5. FocusTyped'
  <2>1. focusEvents' \in Seq(FocusEvent)
      BY <1>2, <1>3 DEF Emit, FocusInv, FocusTyped
  <2> QED
      BY <1>2, <2>1 DEF Still, niriVars, FocusInv, FocusTyped, AnyWindow
<1>6. \A x \in Windows : win'[x] = IF x = w THEN as ELSE win[x]
    BY <1>2 DEF FocusInv, FocusTyped
<1>7. {x \in Windows : win'[x] = "ours"} = IF e.ours THEN {x \in Windows : win[x] = "ours"} \cup {w}
                                           ELSE {x \in Windows : win[x] = "ours"} \ {w}
    BY <1>4, <1>6
<1>8. focus' = IF e.focused THEN w ELSE focus
    BY <1>2, <1>4
<1>9. DeskNow' = <<IF e.ours THEN DeskNow[1] \cup {e.w} ELSE DeskNow[1] \ {e.w},
                   IF e.focused THEN e.w ELSE DeskNow[2]>>
    BY <1>4, <1>7, <1>8 DEF DeskNow
<1>10. DeskNow \in Knowledge /\ DeskNow' \in Knowledge
    BY <1>5 DEF FocusInv, FocusTyped, DeskNow, Knowledge
<1>11. <<DeskNow, e, DeskNow'>> \in FocusSteps
    BY <1>3, <1>4, <1>9, <1>10 DEF FocusSteps
<1> QED
    BY <1>2, <1>3, <1>5, <1>11, TellKeeps

LEMMA CloseKeeps ==
    ASSUME FocusInv, NEW w \in Windows, Close(w)
    PROVE  FocusInv'
<1> DEFINE e == [kind |-> "closed", w |-> w]
<1>1. /\ Emit(e) /\ Still
      /\ focus' = (IF focus = w THEN NoWindow ELSE focus)
      /\ win' = [win EXCEPT ![w] = "none"]
    BY DEF Close
<1>2. e \in FocusEvent /\ e.kind = "closed" /\ e.w = w
    BY DEF FocusEvent
<1> HIDE DEF e
<1>3. FocusTyped'
  <2>1. focusEvents' \in Seq(FocusEvent)
      BY <1>1, <1>2 DEF Emit, FocusInv, FocusTyped
  <2> QED
      BY <1>1, <2>1 DEF Still, niriVars, FocusInv, FocusTyped, AnyWindow
<1>4. \A x \in Windows : win'[x] = IF x = w THEN "none" ELSE win[x]
    BY <1>1 DEF FocusInv, FocusTyped
<1>5. {x \in Windows : win'[x] = "ours"} = {x \in Windows : win[x] = "ours"} \ {w}
    BY <1>4
<1>6. DeskNow' = <<DeskNow[1] \ {e.w}, IF DeskNow[2] = e.w THEN NoWindow ELSE DeskNow[2]>>
    BY <1>1, <1>2, <1>5 DEF DeskNow
<1>7. DeskNow \in Knowledge /\ DeskNow' \in Knowledge
    BY <1>3 DEF FocusInv, FocusTyped, DeskNow, Knowledge
<1>8. <<DeskNow, e, DeskNow'>> \in FocusSteps
    BY <1>2, <1>6, <1>7 DEF FocusSteps
<1> QED
    BY <1>1, <1>2, <1>3, <1>8, TellKeeps

LEMMA FocusOnKeeps ==
    ASSUME FocusInv, NEW w \in Windows \cup {NoWindow}, FocusOn(w)
    PROVE  FocusInv'
<1> DEFINE e == [kind |-> "focus", w |-> w]
<1>1. Emit(e) /\ Still /\ focus' = w /\ win' = win
    BY DEF FocusOn
<1>2. e \in FocusEvent /\ e.kind = "focus" /\ e.w = w
    BY DEF FocusEvent, AnyWindow
<1> HIDE DEF e
<1>3. FocusTyped'
  <2>1. focusEvents' \in Seq(FocusEvent)
      BY <1>1, <1>2 DEF Emit, FocusInv, FocusTyped
  <2> QED
      BY <1>1, <2>1 DEF Still, niriVars, FocusInv, FocusTyped, AnyWindow
<1>4. DeskNow' = <<DeskNow[1], e.w>>
    BY <1>1, <1>2 DEF DeskNow
<1>5. DeskNow \in Knowledge /\ DeskNow' \in Knowledge
    BY <1>3 DEF FocusInv, FocusTyped, DeskNow, Knowledge
<1>6. <<DeskNow, e, DeskNow'>> \in FocusSteps
    BY <1>2, <1>4, <1>5 DEF FocusSteps
<1> QED
    BY <1>1, <1>2, <1>3, <1>6, TellKeeps

LEMMA StreamKeeps ==
    ASSUME FocusInv, StreamEnds \/ StreamStarts
    PROVE  FocusInv'
<1>1. CASE StreamEnds
    BY <1>1 DEF StreamEnds, FocusInv, FocusTyped, FocusBehind
<1>2. CASE StreamStarts
  <2> DEFINE ours == {w \in Windows : win[w] = "ours"}
             e == [kind |-> "windows", ours |-> ours, focused |-> focus]
  <2>1. /\ focusEvents' = <<e>> /\ qsWins' = {} /\ focused' = NoWindow
        /\ stream' = "up" /\ UNCHANGED <<win, focus, appActive, activeCh, msg>>
      BY <1>2 DEF StreamStarts
  <2>2. /\ e \in FocusEvent /\ e.kind = "windows" /\ e.focused = focus
        /\ e.ours = {w \in Windows : win[w] = "ours"}
      BY DEF FocusEvent, FocusInv, FocusTyped
  <2> HIDE DEF e, ours
  <2>3. FocusTyped'
      BY <2>1, <2>2 DEF FocusInv, FocusTyped, AnyWindow
  <2>4. <<{}, NoWindow>> \in Knowledge /\ DeskNow' \in Knowledge
      BY <2>3 DEF FocusTyped, Knowledge, DeskNow, AnyWindow
  <2>5. <<<<{}, NoWindow>>, e, DeskNow'>> \in FocusSteps
    <3>1. DeskNow' = <<e.ours, IF e.focused = NoWindow THEN <<{}, NoWindow>>[2] ELSE e.focused>>
        BY <2>1, <2>2 DEF DeskNow
    <3> QED
        BY <2>2, <2>4, <3>1 DEF FocusSteps
  <2>6. Leads(<<>>, FocusSteps, Knowledge, <<{}, NoWindow>>, <<{}, NoWindow>>)
      BY <2>4, NothingLeads
  <2>7. <<>> \in Seq(FocusEvent) /\ Append(<<>>, e) = <<e>>
      BY <2>2
  <2>8. Leads(<<e>>, FocusSteps, Knowledge, <<{}, NoWindow>>, DeskNow')
    <3>1. Leads(Append(<<>>, e), FocusSteps, Knowledge, <<{}, NoWindow>>, DeskNow')
        BY <2>2, <2>4, <2>5, <2>6, <2>7, LeadsFurther
    <3> QED
        BY <2>7, <3>1
  <2>9. <<e>> # <<>>
      OBVIOUS
  <2> QED
      BY <2>1, <2>3, <2>8, <2>9 DEF FocusInv, FocusBehind
<1> QED
    BY <1>1, <1>2

LEMMA FocusApplyKeeps ==
    ASSUME FocusInv, Apply
    PROVE  FocusInv'
<1> DEFINE e == Head(focusEvents)
<1>1. /\ stream = "up" /\ focusEvents # <<>> /\ focusEvents' = Tail(focusEvents)
      /\ e \in FocusEvent /\ focusEvents' \in Seq(FocusEvent) /\ focusEvents \in Seq(FocusEvent)
      /\ UNCHANGED <<win, focus, stream, activeCh, msg>>
    BY DEF Apply, FocusInv, FocusTyped
<1>2. PICK next \in Knowledge :
            /\ <<<<qsWins, focused>>, e, next>> \in FocusSteps
            /\ Leads(focusEvents', FocusSteps, Knowledge, next, DeskNow)
    BY <1>1, LeadsOn DEF FocusInv, FocusBehind
<1>3. Learn(next[1], next[2])
  <2>1. /\ e.kind = "windows" =>
              next = <<e.ours, IF e.focused = NoWindow THEN focused ELSE e.focused>>
        /\ e.kind = "changed" =>
              next = <<IF e.ours THEN qsWins \cup {e.w} ELSE qsWins \ {e.w},
                       IF e.focused THEN e.w ELSE focused>>
        /\ e.kind = "closed" => next = <<qsWins \ {e.w}, IF focused = e.w THEN NoWindow ELSE focused>>
        /\ e.kind = "focus" => next = <<qsWins, e.w>>
      BY <1>2 DEF FocusSteps
  <2>2. CASE e.kind = "windows"
    <3>1. Learn(e.ours, IF e.focused = NoWindow THEN focused ELSE e.focused)
        BY <2>2 DEF Apply
    <3> QED
        BY <2>1, <2>2, <3>1
  <2>3. CASE e.kind = "changed"
    <3>1. Learn(IF e.ours THEN qsWins \cup {e.w} ELSE qsWins \ {e.w},
                IF e.focused THEN e.w ELSE focused)
        BY <2>3 DEF Apply, Ours
    <3> QED
        BY <2>1, <2>3, <3>1
  <2>4. CASE e.kind = "closed"
    <3>1. Learn(qsWins \ {e.w}, IF focused = e.w THEN NoWindow ELSE focused)
        BY <2>4 DEF Apply, AfterClose
    <3> QED
        BY <2>1, <2>4, <3>1
  <2>5. CASE e.kind = "focus"
    <3>1. Learn(qsWins, e.w)
        BY <2>5 DEF Apply
    <3> QED
        BY <2>1, <2>5, <3>1
  <2>6. e.kind \in {"windows", "changed", "closed", "focus"}
      BY <1>1 DEF FocusEvent
  <2> QED
      BY <2>2, <2>3, <2>4, <2>5, <2>6
<1>4. /\ <<qsWins', focused'>> = next /\ qsWins' \subseteq Windows /\ focused' \in AnyWindow
      /\ appActive' \in BOOLEAN /\ (appActive' <=> focused' # NoWindow /\ focused' \in qsWins')
  <2>1. qsWins' = next[1] /\ focused' = next[2]
      BY <1>3, Zenon DEF Learn
  <2>2. <<qsWins', focused'>> = next /\ qsWins' \subseteq Windows /\ focused' \in AnyWindow
      BY <2>1 DEF Knowledge
  <2>3. appActive' = (next[2] # NoWindow /\ next[2] \in next[1])
      BY <1>3, Zenon DEF Learn
  <2>4. appActive' \in BOOLEAN
      BY <2>3, Zenon
  <2>5. appActive' <=> focused' # NoWindow /\ focused' \in qsWins'
      BY <2>1, <2>3, Zenon
  <2> QED
      BY <2>2, <2>4, <2>5
<1>5. FocusTyped'
    BY <1>1, <1>4 DEF FocusInv, FocusTyped
<1>6. DeskNow' = DeskNow
    BY <1>1 DEF DeskNow
<1>7. FocusBehind'
    BY <1>2, <1>4, <1>6 DEF FocusBehind
<1> QED
    BY <1>5, <1>7 DEF FocusInv

\* The client's word, and what is made of a message.
LEMMA MessageKeeps ==
    ASSUME FocusInv,
           \/ \E ch \in FocusChannels \cup {NoChannel} : FocusCommand(ch)
           \/ \E x \in Messages : MaybeNotify(x)
           \/ MaybeMarkActiveRead \/ PollNext \/ UNCHANGED focusVars
    PROVE  FocusInv'
<1>1. UNCHANGED <<win, focus, focusEvents, stream, qsWins, focused, appActive>>
    BY DEF FocusCommand, MaybeNotify, MaybeMarkActiveRead, PollNext, focusVars, desk, niriVars
<1>2. activeCh' \in FocusChannels \cup {NoChannel} /\ (msg' = NoMsg \/ msg'.x \in Messages)
    BY DEF FocusCommand, MaybeNotify, MaybeMarkActiveRead, PollNext, focusVars, FocusInv, FocusTyped
<1>3. FocusTyped'
    BY <1>1, <1>2 DEF FocusInv, FocusTyped
<1>4. FocusBehind'
    BY <1>1 DEF FocusInv, FocusBehind, DeskNow
<1> QED
    BY <1>3, <1>4 DEF FocusInv

\* While the stream is up, what the daemon knows of the desktop is behind by the events on
\* their way only, whatever happened while it was down (main.go:2269-2358).
THEOREM FocusInvHolds == FocusSpec => []FocusInv
<1>1. FocusInit => FocusInv
  <2>1. <<>> \in Seq(FocusEvent)
      OBVIOUS
  <2> QED
      BY <2>1 DEF FocusInit, FocusInv, FocusTyped, FocusBehind, AnyWindow
<1>2. FocusInv /\ [FocusNext]_focusVars => FocusInv'
  <2> SUFFICES ASSUME FocusInv, [FocusNext]_focusVars
               PROVE  FocusInv'
      OBVIOUS
  <2>1. CASE \E w \in Windows : FocusChange(w, "other") \/ FocusChange(w, "ours") \/ Close(w)
      BY <2>1, FocusChangeKeeps, CloseKeeps
  <2>2. CASE \E w \in Windows \cup {NoWindow} : FocusOn(w)
      BY <2>2, FocusOnKeeps
  <2>3. CASE StreamEnds \/ StreamStarts
      BY <2>3, StreamKeeps
  <2>4. CASE Apply
      BY <2>4, FocusApplyKeeps
  <2>5. CASE \/ \E ch \in FocusChannels \cup {NoChannel} : FocusCommand(ch)
             \/ \E x \in Messages : MaybeNotify(x)
             \/ MaybeMarkActiveRead \/ PollNext \/ UNCHANGED focusVars
      BY <2>5, MessageKeeps
  <2> QED
      BY <2>1, <2>2, <2>3, <2>4, <2>5 DEF FocusNext
<1> QED
    BY <1>1, <1>2, PTL DEF FocusSpec

LEMMA FocusFromInv ==
    ASSUME FocusInv
    PROVE  FocusIsKnown
<1> SUFFICES ASSUME stream = "up", focusEvents = <<>>
             PROVE  appActive = (focus \in {w \in Windows : win[w] = "ours"})
    BY DEF FocusIsKnown, InFront
<1>1. Leads(<<>>, FocusSteps, Knowledge, <<qsWins, focused>>, DeskNow)
      /\ (appActive <=> focused # NoWindow /\ focused \in qsWins) /\ appActive \in BOOLEAN
    BY DEF FocusInv, FocusBehind, FocusTyped
<1>2. <<qsWins, focused>> = DeskNow
    BY <1>1, DeskTyped, NothingLeads DEF FocusInv
<1>3. qsWins = {w \in Windows : win[w] = "ours"} /\ focused = focus
    BY <1>2 DEF DeskNow
<1> QED
    BY <1>1, <1>3, FocusAssumption

\* With all events read, what the daemon takes for viewed is in front of the user.
LEMMA ViewedIsThere ==
    ASSUME FocusInv, NEW ch, Standing(ch).knew
    PROVE  Viewed(ch) <=> Standing(ch).there
<1>1. stream = "up" /\ focusEvents = <<>>
    BY DEF Standing
<1>2. appActive <=> InFront
  <2>1. appActive = InFront
      BY <1>1, FocusFromInv DEF FocusIsKnown
  <2> QED
      BY <2>1, Zenon
<1>3. Standing(ch).there <=> InFront /\ activeCh = ch
    BY DEF Standing
<1> QED
    BY <1>2, <1>3 DEF Viewed

LEMMA JudgedKeeps ==
    ASSUME FocusInv, MessageIsJudged, [FocusNext]_focusVars
    PROVE  MessageIsJudged'
<1>1. CASE UNCHANGED msg
    BY <1>1 DEF MessageIsJudged
<1>2. ASSUME NEW x \in Messages, MaybeNotify(x)
      PROVE  MessageIsJudged'
  <2> DEFINE now == Standing(x.ch)
  <2>1. msg' = [at |-> "mark", x |-> x, notified |-> ShouldNotify(x), asked |-> now]
      BY <1>2 DEF MaybeNotify
  <2> HIDE DEF now
  <2>2. msg'.at = "mark" /\ msg'.x = x /\ msg'.notified = ShouldNotify(x) /\ msg'.asked = now
      BY <2>1
  <2>3. now.knew => (Viewed(x.ch) <=> now.there)
      BY ViewedIsThere DEF now
  <2>4. now.there \in BOOLEAN
      BY DEF now, Standing
  <2>5. x.told /\ ~x.own /\ now.knew => ShouldNotify(x) = ~now.there
      BY <2>3, <2>4, Zenon DEF ShouldNotify
  <2>6. x.told /\ ~x.own /\ now.knew => msg'.notified = ~msg'.asked.there
      BY <2>2, <2>5, Zenon
  <2> QED
      BY <2>2, <2>6 DEF MessageIsJudged
<1>3. CASE MaybeMarkActiveRead
  <2> DEFINE x == msg.x
             then == msg.asked
             now == Standing(x.ch)
  <2>1. /\ msg # NoMsg /\ msg.at = "mark"
        /\ msg' = [at |-> "done", x |-> x, notified |-> msg.notified, asked |-> then,
                   read |-> ~x.own /\ ~x.reply /\ Viewed(x.ch), marked |-> now]
      BY <1>3 DEF MaybeMarkActiveRead
  <2>2. /\ msg'.at = "done" /\ msg'.x = x /\ msg'.notified = msg.notified /\ msg'.asked = then
        /\ msg'.read = (~x.own /\ ~x.reply /\ Viewed(x.ch)) /\ msg'.marked = now
      BY <2>1
  <2>3. now.knew => (Viewed(x.ch) <=> now.there)
      BY ViewedIsThere
  <2>4. x.told /\ ~x.own /\ then.knew => msg.notified = ~then.there
      BY <2>1, Zenon DEF MessageIsJudged
  <2> HIDE DEF x, then, now
  <2> SUFFICES ASSUME x.told, ~x.own, then.knew
               PROVE  /\ msg'.notified = ~msg'.asked.there
                      /\ msg'.marked.knew =>
                            /\ msg'.read => msg'.marked.there
                            /\ ~msg'.notified /\ ~msg'.read =>
                                  msg'.x.reply \/ (msg'.asked.there /\ ~msg'.marked.there)
      BY <2>2 DEF MessageIsJudged
  <2>5. msg.notified = ~then.there
      BY <2>4
  <2>6. msg'.notified = ~msg'.asked.there
      BY <2>2, <2>5, Zenon
  <2>7. ASSUME now.knew
        PROVE  /\ msg'.read => now.there
               /\ ~msg'.notified /\ ~msg'.read => x.reply \/ (then.there /\ ~now.there)
      BY <2>2, <2>3, <2>5, <2>7, Zenon
  <2> QED
      BY <2>2, <2>6, <2>7, Zenon
<1>4. CASE PollNext
  <2>1. msg' = NoMsg
      BY <1>4 DEF PollNext
  <2> QED
      BY <2>1 DEF MessageIsJudged
<1>5. CASE \/ \E w \in Windows : FocusChange(w, "other") \/ FocusChange(w, "ours") \/ Close(w)
           \/ \E w \in Windows \cup {NoWindow} : FocusOn(w)
           \/ \E ch \in FocusChannels \cup {NoChannel} : FocusCommand(ch)
           \/ StreamEnds \/ StreamStarts \/ Apply \/ UNCHANGED focusVars
  <2>1. UNCHANGED msg
      BY <1>5 DEF FocusChange, Close, FocusOn, FocusCommand, StreamEnds, StreamStarts, Apply, Still,
         focusVars
  <2> QED
      BY <2>1, <1>1
<1> QED
    BY <1>2, <1>3, <1>4, <1>5 DEF FocusNext

\* A message that finds the daemon with all events read is told, or marked read, as the
\* user has its channel in front or not, for any desktop (main.go:2160-2218).
THEOREM MessagesAreJudged == FocusSpec => []MessageIsJudged
<1>1. FocusInit => MessageIsJudged
    BY DEF FocusInit, MessageIsJudged
<1>2. FocusInv /\ MessageIsJudged /\ [FocusNext]_focusVars => MessageIsJudged'
    BY JudgedKeeps
<1> QED
    BY <1>1, <1>2, FocusInvHolds, PTL DEF FocusSpec

\* The ids of notifications are the server's, and the windows the daemon tracks the
\* compositor's (notifier.go:40-140, main.go:2269-2358).
THEOREM DesktopTypeCorrect == NotifierSpec /\ FocusSpec => [](NotifierTypeOK /\ FocusTypeOK)
<1>1. NotifierInv => NotifierTypeOK
    BY NotifierFromInv
<1>2. FocusInv => FocusTypeOK
  <2> SUFFICES ASSUME FocusInv PROVE FocusTypeOK
      OBVIOUS
  <2>1. \A i \in DOMAIN focusEvents : focusEvents[i] \in FocusEvent
      BY DEF FocusInv, FocusTyped
  <2>2. \A e \in FocusEvent : e.kind \in {"windows", "changed", "closed", "focus"}
      BY DEF FocusEvent
  <2> QED
      BY <2>1, <2>2 DEF FocusInv, FocusTyped, FocusTypeOK, AnyWindow
<1> QED
    BY <1>1, <1>2, NotifierInvHolds, FocusInvHolds, PTL

\* A click finds its conversation, save for what was shown again early or by a send whose
\* reply was lost; once the daemon has read what the compositor said it knows whether its
\* client has the focus, and judges a message by it (notifier.go:84-100, main.go:2160-2358).
THEOREM DesktopAgreesHolds == NotifierSpec /\ FocusSpec => []DesktopAgrees
<1>1. NotifierInv /\ FocusInv /\ MessageIsJudged => DesktopAgrees
    BY NotifierFromInv, FocusFromInv DEF DesktopAgrees
<1> QED
    BY <1>1, NotifierInvHolds, FocusInvHolds, MessagesAreJudged, PTL

-----------------------------------------------------------------------------
(* AttachSend                                                              *)

UploadAt == {"idle", "running", "staged", "done", "failed"}
SendAt == {"idle", "spawned", "waiting", "take", "post", "share"} \cup Sent

-----------------------------------------------------------------------------
(* Type correctness                                                        *)

LEMMA CommandsTyped ==
    ASSUME AttachTypeOK,
           \/ \E u \in Uploads : UploadCommand(u)
           \/ \E m \in Sends : SendCommand(m)
           \/ DropAttach
    PROVE  AttachTypeOK'
<1> USE NamesAssumption, DropsAssumption DEF Commands
<1>1. CASE \E u \in Uploads : UploadCommand(u)
    BY <1>1 DEF UploadCommand, RegisterUpload, AttachTypeOK, fixed, sending, Sent
<1>2. CASE \E m \in Sends : SendCommand(m)
    BY <1>2 DEF SendCommand, AttachTypeOK, fixed, slots, Sent
<1>3. CASE DropAttach
    BY <1>3 DEF DropAttach, ClearSlot, AttachTypeOK, fixed, sending, Sent
<1> QED
    BY <1>1, <1>2, <1>3

LEMMA UploadsTyped ==
    ASSUME AttachTypeOK, NEW u \in Uploads, Upload(u)
    PROVE  AttachTypeOK'
<1> USE NamesAssumption DEF Commands
<1>1. CASE Stage(u)
  <2>1. thread[u] \in Threads \cup {None}
      BY DEF AttachTypeOK
  <2> QED
      BY <1>1, <2>1 DEF Stage, AttachTypeOK, fixed, input, sending, Sent
<1>2. CASE CloseDone(u)
    BY <1>2 DEF CloseDone, AttachTypeOK, fixed, input, slots, sending, Sent
<1>3. CASE UploadFails(u)
    BY <1>3 DEF UploadFails, AttachTypeOK, fixed, input, slots, sending, Sent
<1> QED
    BY <1>1, <1>2, <1>3 DEF Upload

LEMMA SendsTyped ==
    ASSUME AttachTypeOK, NEW m \in Sends, SendSteps(m)
    PROVE  AttachTypeOK'
<1> USE NamesAssumption DEF Commands
<1>1. CASE Observe(m)
    BY <1>1 DEF Observe, Observed, AttachTypeOK, fixed, input, slots, Sent
<1>2. CASE UploadDone(m)
    BY <1>2 DEF UploadDone, AttachTypeOK, fixed, input, slots, Sent
<1>3. CASE TimesOut(m)
    BY <1>3 DEF TimesOut, AttachTypeOK, fixed, input, slots, Sent
<1>4. CASE TakeAttach(m)
  <2>1. Target(m) \in Threads \cup {None}
      BY DEF Target, AttachTypeOK
  <2> QED
      BY <1>4, <2>1 DEF TakeAttach, ClearSlot, AttachTypeOK, fixed, input, Sent
<1>5. CASE Post(m)
    BY <1>5 DEF Post, AttachTypeOK, fixed, input, slots, Sent
<1>6. CASE Share(m)
    BY <1>6 DEF Share, AttachTypeOK, fixed, input, slots, Sent
<1> QED
    BY <1>1, <1>2, <1>3, <1>4, <1>5, <1>6 DEF SendSteps

\* Every variable keeps its type, for any sets of commands and threads.
THEOREM AttachTypeCorrect == AttachSpec => []AttachTypeOK
<1>1. AttachInit => AttachTypeOK
    BY NamesAssumption, DropsAssumption DEF AttachInit, AttachTypeOK, Commands, Sent
<1>2. AttachTypeOK /\ [AttachNext]_attachVars => AttachTypeOK'
  <2> SUFFICES ASSUME AttachTypeOK, [AttachNext]_attachVars PROVE AttachTypeOK'
      OBVIOUS
  <2>1. CASE AttachNext
      BY <2>1, CommandsTyped, UploadsTyped, SendsTyped DEF AttachNext
  <2>2. CASE UNCHANGED attachVars
      BY <2>2 DEF attachVars, fixed, input, slots, sending, AttachTypeOK, Commands, Sent
  <2> QED
      BY <2>1, <2>2
<1> QED
    BY <1>1, <1>2, PTL DEF AttachSpec

-----------------------------------------------------------------------------
(* One message at most, in the thread of its file                          *)

Staged(u) == up[u] \in {"staged", "done"}

\* What the slot holds was staged, in that thread, and no message has it.
SlotInv ==
    pendingAttach # None =>
        /\ Staged(pendingAttach)
        /\ pendingAttachThread = thread[pendingAttach]
        /\ \A m \in Sends : file[m] # pendingAttach

\* What a message has was staged.
HeldInv == \A m \in Sends : file[m] # None => Staged(file[m])

FileInv == AttachTypeOK /\ SlotInv /\ HeldInv /\ FilePostedOnce /\ FileInItsThread

\* Steps that leave the slot and the messages' files alone, and stage nothing.
LEMMA FilesUntouched ==
    ASSUME FileInv, AttachTypeOK',
           UNCHANGED <<thread, pendingAttach, pendingAttachThread, file, to>>,
           \A u \in Uploads : Staged(u) => Staged(u)'
    PROVE  FileInv'
BY NamesAssumption
   DEF FileInv, SlotInv, HeldInv, FilePostedOnce, FileInItsThread, AttachTypeOK, Staged

LEMMA FileStep ==
    ASSUME FileInv, AttachTypeOK', [AttachNext]_attachVars
    PROVE  FileInv'
<1> USE NamesAssumption DEF FileInv
<1>1. ASSUME NEW u \in Uploads, UploadCommand(u) PROVE FileInv'
  <2>1. \A v \in Uploads : Staged(v) => Staged(v)'
      BY <1>1 DEF UploadCommand, Staged, AttachTypeOK
  <2> QED
      BY <1>1, <2>1, FilesUntouched DEF UploadCommand, fixed, sending
<1>2. ASSUME NEW u \in Uploads, Stage(u) PROVE FileInv'
  <2>1. \A m \in Sends : file[m] # u
      BY <1>2 DEF Stage, HeldInv, Staged, Commands
  <2>2. \A v \in Uploads : Staged(v) => Staged(v)'
      BY <1>2 DEF Stage, Staged, AttachTypeOK
  <2>3. SlotInv'
      BY <1>2, <2>1 DEF Stage, SlotInv, Staged, AttachTypeOK, fixed, sending
  <2>4. HeldInv'
      BY <1>2, <2>2 DEF Stage, HeldInv, AttachTypeOK, sending
  <2> QED
      BY <1>2, <2>3, <2>4
      DEF Stage, FilePostedOnce, FileInItsThread, fixed, sending
<1>3. ASSUME NEW u \in Uploads, CloseDone(u) \/ UploadFails(u) PROVE FileInv'
  <2>1. \A v \in Uploads : Staged(v) => Staged(v)'
      BY <1>3 DEF CloseDone, UploadFails, Staged, AttachTypeOK
  <2> QED
      BY <1>3, <2>1, FilesUntouched
      DEF CloseDone, UploadFails, fixed, slots, sending
<1>4. ASSUME NEW m \in Sends,
             SendCommand(m) \/ Observe(m) \/ UploadDone(m) \/ TimesOut(m)
                \/ Post(m) \/ Share(m)
      PROVE  FileInv'
  <2>1. \A v \in Uploads : Staged(v) => Staged(v)'
      BY <1>4 DEF SendCommand, Observe, Observed, UploadDone, TimesOut, Post, Share, Staged
  <2> QED
      BY <1>4, <2>1, FilesUntouched
      DEF SendCommand, Observe, Observed, UploadDone, TimesOut, Post, Share, fixed, slots
<1>5. ASSUME NEW m \in Sends, TakeAttach(m) PROVE FileInv'
  <2>1. /\ file' = [file EXCEPT ![m] = pendingAttach]
        /\ to' = [to EXCEPT ![m] = Target(m)]
        /\ pendingAttach' = None
        /\ UNCHANGED <<thread, up>>
      BY <1>5 DEF TakeAttach, ClearSlot, fixed
  <2>2. SlotInv'
      BY <2>1 DEF SlotInv
  <2>3. HeldInv'
      BY <2>1 DEF SlotInv, HeldInv, Staged, AttachTypeOK
  <2>4. FilePostedOnce'
      BY <2>1 DEF SlotInv, FilePostedOnce, AttachTypeOK
  <2>5. FileInItsThread'
      BY <2>1 DEF SlotInv, FileInItsThread, Target, AttachTypeOK
  <2> QED
      BY <2>2, <2>3, <2>4, <2>5
<1>6. CASE DropAttach
    BY <1>6 DEF DropAttach, ClearSlot, SlotInv, HeldInv, FilePostedOnce,
                FileInItsThread, Staged, fixed, sending
<1>7. CASE UNCHANGED attachVars
  <2>1. \A v \in Uploads : Staged(v) => Staged(v)'
      BY <1>7 DEF attachVars, Staged
  <2> QED
      BY <1>7, <2>1, FilesUntouched DEF attachVars, fixed, slots, sending
<1> QED
    BY <1>1, <1>2, <1>3, <1>4, <1>5, <1>6, <1>7 DEF AttachNext, Upload, SendSteps

LEMMA FileInvariant == AttachSpec => []FileInv
<1>1. AttachInit => SlotInv /\ HeldInv /\ FilePostedOnce /\ FileInItsThread
    BY DEF AttachInit, SlotInv, HeldInv, FilePostedOnce, FileInItsThread
<1> QED
    BY <1>1, FileStep, AttachTypeCorrect, PTL DEF AttachSpec, FileInv

\* Whatever sends race for it, a staged file goes out with one message at most.
THEOREM OneMessagePerFile == AttachSpec => []FilePostedOnce
BY FileInvariant, PTL DEF FileInv

\* A file goes to the thread it was staged in, whichever send picks it up.
THEOREM FileKeepsItsThread == AttachSpec => []FileInItsThread
BY FileInvariant, PTL DEF FileInv

-----------------------------------------------------------------------------
(* Paste, then send                                                        *)

Untaken == {"idle", "spawned", "waiting", "take"}

\* The map names the latest upload read, and is empty before the first.
RegisteredInv ==
    IF uploading = None THEN \A u \in Uploads : up[u] = "idle"
                        ELSE up[uploading] # "idle"

\* Commands remembered as read were read.
HistoryInv ==
    /\ last \in Uploads => up[last] # "idle"
    /\ \A m \in Sends : prev[m] \in Uploads => up[prev[m]] # "idle"
    /\ \A m \in Sends : waitOn[m] # None => up[waitOn[m]] # "idle"

\* A send read after an upload waited for some upload to be done.
WaitedInv ==
    \A m \in Sends :
        (snd[m] = "take" /\ ~timedOut[m] /\ prev[m] \in Uploads) =>
            waitOn[m] # None /\ Closed(waitOn[m])

\* The only upload's file stays in the slot until a send takes it.
KeptInv ==
    \A u \in Uploads :
        (/\ Staged(u) /\ \A v \in Uploads \ {u} : up[v] = "idle"
         /\ drops = 0 /\ \A m \in Sends : snd[m] \in Untaken)
            => pendingAttach = u

PasteInv ==
    /\ AttachTypeOK /\ RegisteredInv /\ HistoryInv /\ WaitedInv /\ KeptInv
    /\ PasteThenSend

LEMMA SupportStep ==
    ASSUME PasteInv, AttachTypeOK', [AttachNext]_attachVars
    PROVE  RegisteredInv' /\ HistoryInv' /\ WaitedInv'
<1> USE NamesAssumption DEF PasteInv, AttachTypeOK, RegisteredInv, HistoryInv, WaitedInv,
                           Closed, Commands
<1>1. ASSUME NEW u \in Uploads, UploadCommand(u)
      PROVE  RegisteredInv' /\ HistoryInv' /\ WaitedInv'
    BY <1>1 DEF UploadCommand, RegisterUpload, sending
<1>2. ASSUME NEW u \in Uploads, Upload(u)
      PROVE  RegisteredInv' /\ HistoryInv' /\ WaitedInv'
    BY <1>2 DEF Upload, Stage, CloseDone, UploadFails, input, slots, sending
<1>3. ASSUME NEW m \in Sends, SendCommand(m)
      PROVE  RegisteredInv' /\ HistoryInv' /\ WaitedInv'
    BY <1>3 DEF SendCommand, slots
<1>4. ASSUME NEW m \in Sends, Observe(m)
      PROVE  RegisteredInv' /\ HistoryInv' /\ WaitedInv'
    BY <1>4 DEF Observe, Observed, input, slots
<1>5. ASSUME NEW m \in Sends, UploadDone(m) \/ TimesOut(m)
      PROVE  RegisteredInv' /\ HistoryInv' /\ WaitedInv'
    BY <1>5 DEF UploadDone, TimesOut, input, slots
<1>6. ASSUME NEW m \in Sends, TakeAttach(m) \/ Post(m) \/ Share(m)
      PROVE  RegisteredInv' /\ HistoryInv' /\ WaitedInv'
    BY <1>6 DEF TakeAttach, Post, Share, input, slots
<1>7. CASE DropAttach
    BY <1>7 DEF DropAttach, sending
<1>8. CASE UNCHANGED attachVars
    BY <1>8 DEF attachVars, input, slots, sending
<1> QED
    BY <1>1, <1>2, <1>3, <1>4, <1>5, <1>6, <1>7, <1>8 DEF AttachNext, SendSteps

LEMMA KeptStep ==
    ASSUME PasteInv, AttachTypeOK', [AttachNext]_attachVars
    PROVE  KeptInv'
<1> USE NamesAssumption DEF PasteInv, AttachTypeOK, KeptInv, Staged, Untaken
<1>1. ASSUME NEW u \in Uploads, UploadCommand(u) PROVE KeptInv'
    BY <1>1 DEF UploadCommand, sending
<1>2. ASSUME NEW u \in Uploads, Upload(u) PROVE KeptInv'
    BY <1>2 DEF Upload, Stage, CloseDone, UploadFails, input, slots, sending
<1>3. ASSUME NEW m \in Sends, SendCommand(m) PROVE KeptInv'
    BY <1>3 DEF SendCommand, slots
<1>4. ASSUME NEW m \in Sends, SendSteps(m) PROVE KeptInv'
  <2>1. CASE Observe(m) \/ UploadDone(m) \/ TimesOut(m)
      BY <2>1 DEF Observe, Observed, UploadDone, TimesOut, input, slots
  <2>2. CASE TakeAttach(m) \/ Post(m) \/ Share(m)
    <3>1. snd'[m] \notin Untaken
        BY <2>2 DEF TakeAttach, Post, Share, Untaken
    <3> QED
        BY <3>1
  <2> QED
      BY <1>4, <2>1, <2>2 DEF SendSteps
<1>5. CASE DropAttach
  <2>1. drops' # 0
      BY <1>5 DEF DropAttach
  <2> QED
      BY <2>1
<1>6. CASE UNCHANGED attachVars
    BY <1>6 DEF attachVars, input, slots, sending
<1> QED
    BY <1>1, <1>2, <1>3, <1>4, <1>5, <1>6 DEF AttachNext

\* The case of PasteThenSend for one upload and one send.
Paste(u, m) ==
    (/\ prev[m] = u /\ Read = {u, m} /\ drops = 0
     /\ snd[m] \in Sent \cup {"post", "share"}
     /\ ~timedOut[m] /\ up[u] # "failed") => file[m] = u

\* The send takes its attachment: the upload it waited for is the only one.
LEMMA TakesItsImage ==
    ASSUME PasteInv, NEW u \in Uploads, NEW m \in Sends, TakeAttach(m),
           prev[m] = u, Read = {u, m}, drops = 0, ~timedOut[m], up[u] # "failed"
    PROVE  pendingAttach = u
<1> USE NamesAssumption DEF PasteInv, AttachTypeOK, Commands
<1>1. /\ \A v \in Uploads \ {u} : up[v] = "idle"
      /\ \A n \in Sends \ {m} : snd[n] = "idle"
    BY DEF Read
<1>2. waitOn[m] \in Uploads /\ Closed(waitOn[m])
    BY DEF TakeAttach, WaitedInv
<1>3. waitOn[m] = u
    BY <1>1, <1>2 DEF Closed
<1>4. Staged(u)
    BY <1>2, <1>3 DEF Closed, Staged
<1>5. \A n \in Sends : snd[n] \in Untaken
    BY <1>1 DEF TakeAttach, Untaken
<1> QED
    BY <1>1, <1>4, <1>5 DEF KeptInv

LEMMA PasteStep ==
    ASSUME PasteInv, AttachTypeOK', [AttachNext]_attachVars
    PROVE  PasteThenSend'
<1> SUFFICES ASSUME NEW u \in Uploads, NEW m \in Sends PROVE Paste(u, m)'
    BY DEF Paste, PasteThenSend
<1>0. Paste(u, m)
    BY DEF PasteInv, Paste, PasteThenSend
<1> USE NamesAssumption DEF PasteInv, AttachTypeOK, Commands, Paste, Read
<1>1. ASSUME NEW v \in Uploads, UploadCommand(v) PROVE Paste(u, m)'
  <2>1. CASE v = u
      BY <1>1, <2>1 DEF UploadCommand, HistoryInv
  <2>2. CASE v # u
    <3>1. v \in Read' /\ v \notin {u, m}
        BY <1>1, <2>2 DEF UploadCommand
    <3> QED
        BY <3>1
  <2> QED
      BY <2>1, <2>2
<1>2. ASSUME NEW v \in Uploads, Upload(v) PROVE Paste(u, m)'
  <2>1. Read' = Read
      BY <1>2 DEF Upload, Stage, CloseDone, UploadFails, sending
  <2> QED
      BY <1>0, <1>2, <2>1 DEF Upload, Stage, CloseDone, UploadFails, input, sending
<1>3. ASSUME NEW n \in Sends, SendCommand(n) PROVE Paste(u, m)'
  <2>1. CASE n = m
      BY <1>3, <2>1 DEF SendCommand, Sent
  <2>2. CASE n # m
    <3>1. n \in Read' /\ n \notin {u, m}
        BY <1>3, <2>2 DEF SendCommand
    <3> QED
        BY <3>1
  <2> QED
      BY <2>1, <2>2
<1>4. ASSUME NEW n \in Sends, SendSteps(n) PROVE Paste(u, m)'
  <2>1. Read' = Read
      BY <1>4 DEF SendSteps, Observe, Observed, UploadDone, TimesOut, TakeAttach, Post, Share,
                  slots, Sent
  <2>2. UNCHANGED <<prev, drops, up>>
      BY <1>4 DEF SendSteps, Observe, Observed, UploadDone, TimesOut, TakeAttach, Post, Share,
                  input, slots
  <2>3. CASE TakeAttach(n)
    <3>1. CASE n = m
      <4> SUFFICES ASSUME prev[m] = u, Read = {u, m}, drops = 0,
                          timedOut'[m] = FALSE, up[u] # "failed"
                   PROVE  file'[m] = u
          BY <2>1, <2>2
      <4>1. timedOut[m] = FALSE
          BY <2>3 DEF TakeAttach
      <4>2. pendingAttach = u
          BY <2>3, <3>1, <4>1, TakesItsImage
      <4> QED
          BY <2>3, <3>1, <4>2 DEF TakeAttach
    <3>2. CASE n # m
        BY <1>0, <2>1, <2>2, <2>3, <3>2 DEF TakeAttach
    <3> QED
        BY <3>1, <3>2
  <2>4. CASE Observe(n) \/ UploadDone(n) \/ TimesOut(n)
      BY <1>0, <2>1, <2>2, <2>4 DEF Observe, Observed, UploadDone, TimesOut, Sent
  <2>5. CASE Post(n) \/ Share(n)
      BY <1>0, <2>1, <2>2, <2>5 DEF Post, Share, Sent
  <2> QED
      BY <1>4, <2>3, <2>4, <2>5 DEF SendSteps
<1>5. CASE DropAttach
    BY <1>5 DEF DropAttach
<1>6. CASE UNCHANGED attachVars
    BY <1>0, <1>6 DEF attachVars, input, sending
<1> QED
    BY <1>1, <1>2, <1>3, <1>4, <1>5, <1>6 DEF AttachNext

\* A paste, then a send, nothing else: the image posts with that message.
THEOREM PasteSendsTogether == AttachSpec => []PasteThenSend
<1>1. AttachInit => RegisteredInv /\ HistoryInv /\ WaitedInv /\ KeptInv /\ PasteThenSend
    BY NamesAssumption DEF AttachInit, RegisteredInv, HistoryInv, WaitedInv, KeptInv,
       PasteThenSend, Staged, Commands, Sent
<1> QED
    BY <1>1, SupportStep, KeptStep, PasteStep, AttachTypeCorrect, PTL DEF AttachSpec, PasteInv

-----------------------------------------------------------------------------
(* Clients                                                                 *)

Told == [lists : SUBSET Nat, opens : Seq(Clicks), update : BOOLEAN]
JobState ==
    {NoJob} \cup [at : {"build", "open"}, to : Conns, rest : SUBSET Conns]
            \cup [at : {"write"}, to : Conns, rest : SUBSET Conns, list : Nat]

LinksTyped ==
    /\ clientLink \in [Conns -> {"none", "open", "left", "closed"}] /\ conns \subseteq Conns
    /\ told \in [Conns -> Told]
ListsTyped == version \in 0 .. MaxChanges /\ timer \in BOOLEAN /\ job \in [Jobs -> JobState]
ClicksTyped ==
    /\ pendingOpen \in Clicks \cup {NoClient}
    /\ click \in [Clicks -> {"none", "broadcast", "stash", "done"}]
ChecksTyped ==
    /\ updEtag \in 0 .. MaxRev /\ updateEvent \in 0 .. MaxRev /\ head \in 0 .. MaxRev
    /\ check \in [Checks -> [at : {"idle", "changelog", "tell", "done"}, rev : 0 .. MaxRev]]
Typed == LinksTyped /\ ListsTyped /\ ClicksTyped /\ ChecksTyped

\* The goroutine j will send c a list that shows the last change.
Serves(j, c) ==
    \/ job[j].at \in {"build", "write", "open"} /\ c \in job[j].rest
    \/ job[j].at = "build" /\ job[j].to = c
    \/ job[j].at = "write" /\ job[j].to = c /\ job[j].list = version

\* Who has not been sent the last change is served, or the timer is armed; and a
\* connection that is still to be made has no goroutine.
ListsInv ==
    /\ \A c \in conns : Heard(c) =>
          timer \/ version \in told[c].lists \/ \E j \in Jobs : Serves(j, c)
    /\ \A c \in Conns : clientLink[c] = "none" => job[c] = NoJob

\* Who has not been told of the update will be by a check about to announce it.
NewsInv ==
    updateEvent = 0 \/ (\E u \in Checks : check[u].at = "tell")
        \/ \A c \in conns : Heard(c) => told[c].update

Once(s, k) == \A i, j \in DOMAIN s : s[i] = k /\ s[j] = k => i = j
Never(s, k) == \A i \in DOMAIN s : s[i] # k

\* A target on its way to the clients, or left for them, has reached none.
OpensInv ==
    \A k \in Clicks :
        /\ click[k] # "done" => pendingOpen # k
        /\ click[k] # "done" \/ pendingOpen = k => \A c \in Conns : Never(told[c].opens, k)
        /\ \A c \in Conns : Once(told[c].opens, k)

ClientsInv == Typed /\ ListsInv /\ NewsInv /\ OpensInv

-----------------------------------------------------------------------------
(* Writing                                                                 *)

LEMMA TellList ==
    ASSUME LinksTyped, NEW c \in Conns, NEW n \in Nat, Tell(c, "lists", told[c].lists \cup {n})
    PROVE  /\ told' \in [Conns -> Told]
           /\ \A d \in Conns :
                 /\ told'[d].opens = told[d].opens /\ told'[d].update = told[d].update
                 /\ told[d].lists \subseteq told'[d].lists
           /\ Heard(c) => n \in told'[c].lists
BY DEF LinksTyped, Told, Tell, Heard

LEMMA TellOpen ==
    ASSUME LinksTyped, NEW c \in Conns, NEW k \in Clicks,
           Tell(c, "opens", Append(told[c].opens, k))
    PROVE  /\ told' \in [Conns -> Told]
           /\ \A d \in Conns :
                 /\ told'[d].lists = told[d].lists /\ told'[d].update = told[d].update
                 /\ \/ told'[d].opens = told[d].opens
                    \/ told'[d].opens = Append(told[d].opens, k)
<1> DEFINE s == Append(told[c].opens, k)
<1>1. told \in [Conns -> Told] /\ s \in Seq(Clicks)
    BY DEF LinksTyped, Told
<1>2. told' = IF Heard(c) THEN [told EXCEPT ![c].opens = s] ELSE told
    BY DEF Tell
<1>3. s = Append(told[c].opens, k)
    OBVIOUS
<1> HIDE DEF s
<1>4. CASE Heard(c)
  <2>1. told'[c] = [told[c] EXCEPT !.opens = s] /\ \A d \in Conns : d # c => told'[d] = told[d]
      BY <1>1, <1>2, <1>4
  <2>2. /\ told'[c] \in Told /\ told'[c].opens = s
        /\ told'[c].lists = told[c].lists /\ told'[c].update = told[c].update
      BY <1>1, <2>1 DEF Told
  <2> QED
      BY <1>1, <1>2, <1>3, <1>4, <2>1, <2>2
<1>5. CASE ~Heard(c)
    BY <1>1, <1>2, <1>5
<1> QED
    BY <1>4, <1>5

LEMMA BroadcastSays ==
    ASSUME LinksTyped, NEW heard \in [Conns -> Told], Broadcast(heard)
    PROVE  /\ told' \in [Conns -> Told] /\ conns' \subseteq conns
           /\ clientLink' \in [Conns -> {"none", "open", "left", "closed"}]
           /\ \A c \in Conns : /\ clientLink'[c] \in {clientLink[c], "closed"}
                               /\ c \in conns' => told'[c] = heard[c]
                               /\ told'[c] \in {told[c], heard[c]}
BY DEF LinksTyped, Broadcast, Heard

LEMMA Appended ==
    ASSUME NEW s \in Seq(Clicks), NEW x \in Clicks, NEW k \in Clicks
    PROVE  /\ k # x /\ Never(s, k) => Never(Append(s, x), k)
           /\ k # x /\ Once(s, k) => Once(Append(s, x), k)
           /\ Never(s, x) => Once(Append(s, x), x)
<1> DEFINE v == Append(s, x)
<1>1. /\ DOMAIN s = 1 .. Len(s) /\ Len(s) \in Nat /\ DOMAIN v = 1 .. (Len(s) + 1)
      /\ v[Len(s) + 1] = x /\ \A i \in 1 .. Len(s) : v[i] = s[i]
    OBVIOUS
<1> HIDE DEF v
<1>2. \A i \in DOMAIN v : i \in DOMAIN s \/ i = Len(s) + 1
    BY <1>1
<1> QED
    BY <1>1, <1>2 DEF Never, Once, v

-----------------------------------------------------------------------------
(* Steps that have nothing to do with one of the three                     *)

LEMMA ListsStay ==
    ASSUME LinksTyped, ListsInv, UNCHANGED clientListVars, conns' \subseteq conns,
           \A c \in Conns : /\ clientLink'[c] \in {clientLink[c], "left", "closed"}
                            /\ told'[c].lists = told[c].lists
    PROVE  ListsInv'
<1>1. \A j, c : Serves(j, c) <=> Serves(j, c)'
    BY DEF Serves, clientListVars
<1> QED
    BY <1>1 DEF LinksTyped, ListsInv, Heard, clientListVars

LEMMA NewsStay ==
    ASSUME LinksTyped, NewsInv, UNCHANGED <<updateEvent, check>>, conns' \subseteq conns,
           \A c \in Conns : /\ clientLink'[c] \in {clientLink[c], "left", "closed"}
                            /\ told'[c].update = told[c].update
    PROVE  NewsInv'
BY DEF LinksTyped, NewsInv, Heard

LEMMA OpensStay ==
    ASSUME OpensInv, UNCHANGED <<pendingOpen, click>>,
           \A c \in Conns : told'[c].opens = told[c].opens
    PROVE  OpensInv'
BY DEF OpensInv, Never, Once

-----------------------------------------------------------------------------
(* Connections                                                             *)

LEMMA AcceptKeeps ==
    ASSUME ClientsInv, NEW c \in Conns, Accept(c)
    PROVE  ClientsInv'
<1> DEFINE own == [at |-> "build", to |-> c, rest |-> {}]
<1>1. Typed
    BY DEF ClientsInv
<1>2. Replay(c) \in BOOLEAN /\ (Replay(c) <=> updateEvent # 0)
    BY DEF Replay
<1>3. /\ told' \in [Conns -> Told] /\ told'[c].update = Replay(c)
      /\ \A d \in Conns : /\ told'[d].lists = told[d].lists /\ told'[d].opens = told[d].opens
                          /\ d # c => told'[d] = told[d]
    BY <1>1, <1>2 DEF Accept, Typed, LinksTyped, Told
<1>4. /\ clientLink'[c] = "open" /\ \A d \in Conns : d # c => clientLink'[d] = clientLink[d]
      /\ conns' = conns \cup {c} /\ job' = [job EXCEPT ![c] = own]
    BY <1>1 DEF Accept, Typed, LinksTyped
<1>5. own \in JobState /\ c \in Jobs
    BY DEF JobState, Jobs
<1>6. Typed'
    BY <1>1, <1>3, <1>4, <1>5 DEF Accept, Typed, LinksTyped, ListsTyped, ClicksTyped, ChecksTyped, updateVars
<1>7. ListsInv'
  <2>1. job[c] = NoJob
      BY <1>1 DEF ClientsInv, ListsInv, Accept
  <2>2. Serves(c, c)'
      BY <1>1, <1>4, <1>5 DEF Serves, Typed, ListsTyped
  <2>3. \A j \in Jobs, d \in Conns : Serves(j, d) => Serves(j, d)'
      BY <1>1, <1>4, <2>1 DEF Serves, Typed, ListsTyped, Accept, NoJob
  <2>4. \A d \in Conns : d # c => job'[d] = job[d]
      BY <1>1, <1>4 DEF Typed, ListsTyped, Jobs
  <2> QED
      BY <1>1, <1>3, <1>4, <1>5, <2>2, <2>3, <2>4
         DEF ClientsInv, ListsInv, Accept, Heard, Typed, LinksTyped
<1>8. NewsInv'
    BY <1>1, <1>2, <1>3, <1>4 DEF ClientsInv, NewsInv, Accept, Heard, Typed, LinksTyped, updateVars
<1>9. OpensInv'
    BY <1>3, OpensStay DEF ClientsInv, Accept
<1> QED
    BY <1>6, <1>7, <1>8, <1>9 DEF ClientsInv

LEMMA EndsKeep ==
    ASSUME ClientsInv, NEW c \in Conns, Leave(c) \/ ReadEnds(c)
    PROVE  ClientsInv'
<1>1. /\ clientLink' \in [Conns -> {"none", "open", "left", "closed"}] /\ conns' \subseteq conns
      /\ \A d \in Conns : clientLink'[d] \in {clientLink[d], "left", "closed"}
      /\ UNCHANGED <<told, clientListVars, pendingOpen, click, updateVars>>
    BY DEF ClientsInv, Typed, LinksTyped, Leave, ReadEnds
<1>2. Typed'
    BY <1>1 DEF ClientsInv, Typed, LinksTyped, ListsTyped, ClicksTyped, ChecksTyped,
                clientListVars, updateVars
<1>3. ListsInv' /\ NewsInv' /\ OpensInv'
    BY <1>1, ListsStay, NewsStay, OpensStay DEF ClientsInv, Typed, updateVars
<1> QED
    BY <1>2, <1>3 DEF ClientsInv

-----------------------------------------------------------------------------
(* The channel list                                                        *)

LEMMA DirtyKeeps ==
    ASSUME ClientsInv, MarkThreadsDirty
    PROVE  ClientsInv'
<1>1. Typed'
    BY ClientsAssumption DEF ClientsInv, MarkThreadsDirty, Armed, Typed, LinksTyped, ListsTyped,
        ClicksTyped, ChecksTyped, updateVars
<1>2. ListsInv'
    BY DEF ClientsInv, MarkThreadsDirty, Armed, ListsInv
<1>3. NewsInv' /\ OpensInv'
    BY NewsStay, OpensStay DEF ClientsInv, Typed, MarkThreadsDirty, updateVars
<1> QED
    BY <1>1, <1>2, <1>3 DEF ClientsInv

LEMMA NextServes ==
    ASSUME NEW rest \in SUBSET Conns, NEW next \in NextOf(rest)
    PROVE  /\ next \in JobState
           /\ \A c \in rest : \/ next.at = "build" /\ next.to = c
                              \/ next.at = "build" /\ c \in next.rest
BY DEF NextOf, JobState

LEMMA RefreshKeeps ==
    ASSUME ClientsInv, NEW r \in Refreshes, RefreshChannels(r)
    PROVE  ClientsInv'
<1>1. PICK next \in NextOf(conns) : job' = [job EXCEPT ![r] = next]
    BY DEF RefreshChannels
<1>2. /\ next \in JobState /\ r \in Jobs /\ r \notin Conns /\ Typed
      /\ \A c \in conns : \/ next.at = "build" /\ next.to = c
                          \/ next.at = "build" /\ c \in next.rest
    BY NextServes, ClientsAssumption DEF ClientsInv, Typed, LinksTyped, Jobs, Refreshes
<1>3. Typed'
    BY <1>1, <1>2 DEF RefreshChannels, Typed, LinksTyped, ListsTyped, ClicksTyped, ChecksTyped,
        updateVars
<1>4. ListsInv'
  <2>1. job'[r] = next /\ \A c \in Conns : job'[c] = job[c]
      BY <1>1, <1>2 DEF Typed, ListsTyped, Jobs
  <2>2. \A c \in conns : Serves(r, c)'
      BY <1>2, <2>1 DEF Serves
  <2> QED
      BY <1>2, <2>1, <2>2 DEF ClientsInv, ListsInv, RefreshChannels, Heard
<1>5. NewsInv' /\ OpensInv'
    BY NewsStay, OpensStay DEF ClientsInv, Typed, RefreshChannels, updateVars
<1> QED
    BY <1>3, <1>4, <1>5 DEF ClientsInv

\* A goroutine takes its next step: whom it served it still serves, or has served.
LEMMA JobSteps ==
    ASSUME Typed, ListsInv, NEW j \in Jobs, job[j] # NoJob, NEW next \in JobState,
           job' = [job EXCEPT ![j] = next],
           UNCHANGED <<clientLink, conns, version, timer>>,
           \A c \in Conns : told[c].lists \subseteq told'[c].lists,
           \A c \in conns : Heard(c) /\ Serves(j, c) => Serves(j, c)' \/ version \in told'[c].lists
    PROVE  ListsInv'
<1>1. job'[j] = next /\ \A i \in Jobs : i # j => job'[i] = job[i]
    BY DEF Typed, ListsTyped
<1>2. \A i \in Jobs, c \in Conns : i # j /\ Serves(i, c) => Serves(i, c)'
    BY <1>1 DEF Serves
<1>3. \A c \in conns : Heard(c)' =>
          timer' \/ version' \in told'[c].lists \/ \E i \in Jobs : Serves(i, c)'
  <2> SUFFICES ASSUME NEW c \in conns, Heard(c), ~timer, version \notin told'[c].lists
               PROVE  \E i \in Jobs : Serves(i, c)'
      BY DEF Heard
  <2>1. c \in Conns /\ version \notin told[c].lists
      BY DEF Typed, LinksTyped
  <2>2. PICK i \in Jobs : Serves(i, c)
      BY <2>1 DEF ListsInv
  <2> QED
      BY <1>2, <2>1, <2>2
<1>4. \A c \in Conns : clientLink'[c] = "none" => job'[c] = NoJob
    BY <1>1 DEF ListsInv, Jobs
<1> QED
    BY <1>3, <1>4 DEF ListsInv

LEMMA BuildKeeps ==
    ASSUME ClientsInv, NEW j \in Jobs, Build(j)
    PROVE  ClientsInv'
<1> DEFINE next == [at |-> "write", to |-> job[j].to, rest |-> job[j].rest, list |-> version]
<1>1. Typed /\ job[j] # NoJob /\ next \in JobState
    BY DEF ClientsInv, Typed, ListsTyped, JobState, NoJob, Build
<1>2. job' = [job EXCEPT ![j] = next]
    BY <1>1 DEF Build, Typed, ListsTyped
<1>3. Typed'
    BY <1>1, <1>2 DEF Build, Typed, LinksTyped, ListsTyped, ClicksTyped, ChecksTyped, updateVars
<1>4. \A c \in conns : Serves(j, c) => Serves(j, c)'
    BY <1>1, <1>2 DEF Serves, Build, Typed, ListsTyped
<1>5. ListsInv'
    BY <1>1, <1>2, <1>4, JobSteps DEF ClientsInv, Build
<1>6. NewsInv' /\ OpensInv'
    BY <1>1, NewsStay, OpensStay DEF ClientsInv, Typed, Build, updateVars
<1> QED
    BY <1>3, <1>5, <1>6 DEF ClientsInv

LEMMA WriteKeeps ==
    ASSUME ClientsInv, NEW j \in Jobs, Write(j)
    PROVE  ClientsInv'
<1> DEFINE c0 == job[j].to
           next == [at |-> "open", to |-> c0, rest |-> job[j].rest]
<1>1. /\ Typed /\ job[j] # NoJob /\ next \in JobState /\ c0 \in Conns /\ job[j].list \in Nat
      /\ job[j].at = "write"
    BY DEF ClientsInv, Typed, ListsTyped, JobState, NoJob, Write
<1>2. job' = [job EXCEPT ![j] = next]
    BY <1>1 DEF Write, Typed, ListsTyped
<1>3. /\ told' \in [Conns -> Told]
      /\ \A d \in Conns :
            /\ told'[d].opens = told[d].opens /\ told'[d].update = told[d].update
            /\ told[d].lists \subseteq told'[d].lists
      /\ Heard(c0) => job[j].list \in told'[c0].lists
    BY <1>1, TellList DEF Write, Typed
<1>4. Typed'
    BY <1>1, <1>2, <1>3 DEF Write, Typed, LinksTyped, ListsTyped, ClicksTyped, ChecksTyped, updateVars
<1>5. \A c \in conns : Heard(c) /\ Serves(j, c) => Serves(j, c)' \/ version \in told'[c].lists
    BY <1>1, <1>2, <1>3 DEF Serves, Typed, ListsTyped
<1>6. ListsInv'
    BY <1>1, <1>2, <1>3, <1>5, JobSteps DEF ClientsInv, Write
<1>7. NewsInv'
    BY <1>1, <1>3, NewsStay DEF ClientsInv, Typed, Write, updateVars
<1>8. OpensInv'
    BY <1>3, OpensStay DEF ClientsInv, Write
<1> QED
    BY <1>4, <1>6, <1>7, <1>8 DEF ClientsInv

LEMMA OpenKeeps ==
    ASSUME ClientsInv, NEW j \in Jobs, OpenPending(j)
    PROVE  ClientsInv'
<1> DEFINE c0 == job[j].to
<1>1. PICK next \in NextOf(job[j].rest) : job' = [job EXCEPT ![j] = next]
    BY DEF OpenPending
<1>2. /\ Typed /\ job[j] # NoJob /\ c0 \in Conns /\ job[j].rest \subseteq Conns /\ job[j].at = "open"
    BY DEF ClientsInv, Typed, ListsTyped, JobState, NoJob, OpenPending
<1>3. /\ next \in JobState
      /\ \A c \in job[j].rest : \/ next.at = "build" /\ next.to = c
                                \/ next.at = "build" /\ c \in next.rest
    BY <1>2, NextServes
<1>4. /\ told' \in [Conns -> Told]
      /\ \A d \in Conns :
            /\ told'[d].lists = told[d].lists /\ told'[d].update = told[d].update
            /\ \/ told'[d].opens = told[d].opens
               \/ pendingOpen \in Clicks /\ told'[d].opens = Append(told[d].opens, pendingOpen)
  <2>1. CASE pendingOpen = NoClient
      BY <1>2, <2>1 DEF OpenPending, Typed, LinksTyped
  <2>2. CASE pendingOpen # NoClient
    <3>1. pendingOpen \in Clicks /\ Tell(c0, "opens", Append(told[c0].opens, pendingOpen))
        BY <1>2, <2>2 DEF OpenPending, Typed, ClicksTyped
    <3> HIDE DEF c0
    <3> QED
        BY <1>2, <3>1, TellOpen DEF Typed
  <2> QED
      BY <2>1, <2>2
<1>5. Typed'
    BY <1>1, <1>2, <1>3, <1>4 DEF OpenPending, TakeOpen, Typed, LinksTyped, ListsTyped,
        ClicksTyped, ChecksTyped, updateVars
<1>6. \A c \in conns : Serves(j, c) => Serves(j, c)'
    BY <1>1, <1>2, <1>3 DEF Serves, Typed, ListsTyped
<1>7. ListsInv'
    BY <1>1, <1>2, <1>3, <1>4, <1>6, JobSteps DEF ClientsInv, OpenPending
<1>8. NewsInv'
    BY <1>2, <1>4, NewsStay DEF ClientsInv, Typed, OpenPending, updateVars
<1>9. OpensInv'
  <2> SUFFICES ASSUME NEW k \in Clicks
               PROVE  /\ click[k] # "done" => \A c \in Conns : Never(told'[c].opens, k)
                      /\ \A c \in Conns : Once(told'[c].opens, k)
      BY ClientsAssumption DEF OpensInv, OpenPending, TakeOpen
  <2>1. ASSUME NEW c \in Conns
        PROVE  Once(told'[c].opens, k) /\ (click[k] # "done" => Never(told'[c].opens, k))
    <3>1. told[c].opens \in Seq(Clicks)
        BY <1>2 DEF Typed, LinksTyped, Told
    <3>2. CASE told'[c].opens = told[c].opens
        BY <3>2 DEF ClientsInv, OpensInv
    <3>3. CASE pendingOpen \in Clicks /\ told'[c].opens = Append(told[c].opens, pendingOpen)
        BY <3>1, <3>3, Appended DEF ClientsInv, OpensInv
    <3> QED
        BY <1>4, <3>2, <3>3
  <2> QED
      BY <2>1
<1> QED
    BY <1>5, <1>7, <1>8, <1>9 DEF ClientsInv

-----------------------------------------------------------------------------
(* Clicks and updates                                                      *)

LEMMA ClickKeeps ==
    ASSUME ClientsInv, NEW k \in Clicks, OnNotifActivate(k) \/ Stash(k)
    PROVE  ClientsInv'
<1>1. Typed /\ Typed'
    BY DEF ClientsInv, OnNotifActivate, Stash, Typed, LinksTyped, ListsTyped, ClicksTyped,
        ChecksTyped, clientListVars, updateVars
<1>2. /\ UNCHANGED <<clientLink, conns, told, clientListVars, updateVars>>
    BY DEF OnNotifActivate, Stash
<1>3. ListsInv' /\ NewsInv'
    BY <1>1, <1>2, ListsStay, NewsStay DEF ClientsInv, Typed, updateVars
<1>4. OpensInv'
  <2>1. CASE OnNotifActivate(k)
    <3>1. click[k] = "none" /\ pendingOpen' = pendingOpen
          /\ \A x \in Clicks : x # k => click'[x] = click[x]
        BY <1>1, <2>1 DEF OnNotifActivate, Typed, ClicksTyped
    <3> QED
        BY <1>2, <3>1 DEF ClientsInv, OpensInv
  <2>2. CASE Stash(k)
    <3>1. click[k] = "stash" /\ click'[k] = "done" /\ pendingOpen' = k
          /\ \A x \in Clicks : x # k => click'[x] = click[x]
        BY <1>1, <2>2 DEF Stash, Typed, ClicksTyped
    <3> QED
        BY <1>2, <3>1 DEF ClientsInv, OpensInv
  <2> QED
      BY <2>1, <2>2
<1> QED
    BY <1>1, <1>3, <1>4 DEF ClientsInv

LEMMA BroadcastOpenKeeps ==
    ASSUME ClientsInv, NEW k \in Clicks, BroadcastOpen(k)
    PROVE  ClientsInv'
<1> DEFINE heard == [c \in Conns |-> [told[c] EXCEPT !.opens = Append(@, k)]]
<1>1. Typed /\ click[k] = "broadcast"
    BY DEF ClientsInv, BroadcastOpen
<1>2. \A c \in Conns : told[c] \in Told /\ Append(told[c].opens, k) \in Seq(Clicks)
    BY <1>1 DEF Typed, LinksTyped, Told
<1>3. ASSUME NEW c \in Conns
      PROVE  /\ heard[c] \in Told /\ heard[c].opens = Append(told[c].opens, k)
             /\ heard[c].lists = told[c].lists /\ heard[c].update = told[c].update
  <2> DEFINE s == Append(told[c].opens, k)
  <2>1. s \in Seq(Clicks) /\ told[c] \in Told /\ heard[c] = [told[c] EXCEPT !.opens = s]
      BY <1>2
  <2> HIDE DEF s, heard
  <2>2. /\ heard[c] \in Told /\ heard[c].opens = s
        /\ heard[c].lists = told[c].lists /\ heard[c].update = told[c].update
      BY <2>1 DEF Told
  <2> QED
      BY <2>2 DEF s
<1>4. heard \in [Conns -> Told] /\ Broadcast(heard)
    BY <1>3 DEF BroadcastOpen
<1> HIDE DEF heard
<1>5. /\ told' \in [Conns -> Told] /\ conns' \subseteq conns
      /\ clientLink' \in [Conns -> {"none", "open", "left", "closed"}]
      /\ \A c \in Conns : /\ clientLink'[c] \in {clientLink[c], "closed"}
                          /\ told'[c].lists = told[c].lists /\ told'[c].update = told[c].update
                          /\ \/ told'[c].opens = told[c].opens
                             \/ told'[c].opens = Append(told[c].opens, k)
    BY <1>1, <1>3, <1>4, BroadcastSays DEF Typed
<1>6. click' = [click EXCEPT ![k] = "done"] /\ UNCHANGED <<clientListVars, pendingOpen, updateVars>>
    BY DEF BroadcastOpen
<1>7. Typed'
    BY <1>1, <1>5, <1>6 DEF Typed, LinksTyped, ListsTyped, ClicksTyped, ChecksTyped,
        clientListVars, updateVars
<1>8. ListsInv' /\ NewsInv'
    BY <1>1, <1>5, <1>6, ListsStay, NewsStay DEF ClientsInv, Typed, updateVars
<1>9. OpensInv'
  <2> SUFFICES ASSUME NEW x \in Clicks
               PROVE  /\ click'[x] # "done" => pendingOpen # x
                      /\ click'[x] # "done" \/ pendingOpen = x =>
                            \A c \in Conns : Never(told'[c].opens, x)
                      /\ \A c \in Conns : Once(told'[c].opens, x)
      BY <1>6 DEF OpensInv
  <2>1. click'[k] = "done" /\ pendingOpen # k /\ (x # k => click'[x] = click[x])
      BY <1>1, <1>6 DEF ClientsInv, OpensInv, Typed, ClicksTyped
  <2>2. ASSUME NEW c \in Conns
        PROVE  /\ Once(told'[c].opens, x)
               /\ x # k /\ Never(told[c].opens, x) => Never(told'[c].opens, x)
    <3>1. told[c].opens \in Seq(Clicks)
        BY <1>2 DEF Told
    <3>2. Once(told[c].opens, x) /\ Never(told[c].opens, k)
        BY <1>1 DEF ClientsInv, OpensInv
    <3> QED
        BY <1>5, <3>1, <3>2, Appended
  <2> QED
      BY <2>1, <2>2 DEF ClientsInv, OpensInv
<1> QED
    BY <1>7, <1>8, <1>9 DEF ClientsInv

LEMMA CheckKeeps ==
    ASSUME ClientsInv, Push \/ \E u \in Checks : CheckUpdate(u) \/ SetUpdateEvent(u)
    PROVE  ClientsInv'
<1>1. Typed /\ UNCHANGED <<clientLink, conns, told, clientListVars, pendingOpen, click>>
    BY DEF ClientsInv, Push, CheckUpdate, SetUpdateEvent
<1>2. Typed' /\ NewsInv'
  <2>1. CASE Push
      BY <1>1, <2>1, ClientsAssumption DEF Push, ClientsInv, NewsInv, Heard, Typed, LinksTyped,
         ListsTyped, ClicksTyped, ChecksTyped, clientListVars
  <2>2. ASSUME NEW u \in Checks, CheckUpdate(u) PROVE Typed' /\ NewsInv'
    <3> DEFINE Entry == [at : {"idle", "changelog", "tell", "done"}, rev : 0 .. MaxRev]
    <3>1. /\ check' \in [Checks -> Entry]
          /\ \A v \in Checks : v # u => check'[v] = check[v]
      <4>1. CASE \E rev \in {0, head} :
                   check' = [check EXCEPT ![u] = [at |-> IF rev = 0 THEN "done" ELSE "changelog",
                                                  rev |-> rev]]
          BY <1>1, <4>1, ClientsAssumption DEF Typed, ChecksTyped
      <4>2. CASE check' = [check EXCEPT ![u].at = "done"]
          BY <1>1, <4>2 DEF Typed, ChecksTyped
      <4> QED
          BY <2>2, <4>1, <4>2 DEF CheckUpdate
    <3>2. check[u].at = "idle" /\ updateEvent' = updateEvent
        BY <2>2 DEF CheckUpdate
    <3>3. updEtag' \in 0 .. MaxRev /\ head' = head
        BY <1>1, <2>2 DEF CheckUpdate, Typed, ChecksTyped
    <3>4. Typed'
        BY <1>1, <3>1, <3>2, <3>3 DEF Typed, LinksTyped, ListsTyped, ClicksTyped, ChecksTyped,
           clientListVars
    <3>5. \A v \in Checks : check[v].at = "tell" => check'[v].at = "tell"
        BY <1>1, <3>1, <3>2 DEF Typed, ChecksTyped
    <3> QED
        BY <1>1, <3>2, <3>4, <3>5 DEF ClientsInv, NewsInv, Heard
  <2>3. ASSUME NEW u \in Checks, SetUpdateEvent(u) PROVE Typed' /\ NewsInv'
    <3>1. check'[u].at = "tell"
        BY <1>1, <2>3 DEF SetUpdateEvent, Typed, ChecksTyped
    <3> QED
        BY <1>1, <2>3, <3>1 DEF SetUpdateEvent, NewsInv, Typed, LinksTyped, ListsTyped,
           ClicksTyped, ChecksTyped, clientListVars
  <2> QED
      BY <2>1, <2>2, <2>3
<1>3. ListsInv' /\ OpensInv'
    BY <1>1, ListsStay, OpensStay DEF ClientsInv, Typed
<1> QED
    BY <1>2, <1>3 DEF ClientsInv

LEMMA BroadcastUpdateKeeps ==
    ASSUME ClientsInv, NEW u \in Checks, BroadcastUpdate(u)
    PROVE  ClientsInv'
<1> DEFINE heard == [c \in Conns |-> [told[c] EXCEPT !.update = TRUE]]
<1>1. Typed /\ Broadcast(heard)
    BY DEF ClientsInv, BroadcastUpdate
<1>2. \A c \in Conns : /\ heard[c] \in Told /\ heard[c].update
                       /\ heard[c].lists = told[c].lists /\ heard[c].opens = told[c].opens
    BY <1>1 DEF Typed, LinksTyped, Told
<1>3. heard \in [Conns -> Told]
    BY <1>2
<1> HIDE DEF heard
<1>4. /\ told' \in [Conns -> Told] /\ conns' \subseteq conns
      /\ clientLink' \in [Conns -> {"none", "open", "left", "closed"}]
      /\ \A c \in Conns : /\ clientLink'[c] \in {clientLink[c], "closed"}
                          /\ c \in conns' => told'[c].update
                          /\ told'[c].lists = told[c].lists /\ told'[c].opens = told[c].opens
    BY <1>1, <1>2, <1>3, BroadcastSays DEF Typed
<1>5. /\ check' = [check EXCEPT ![u].at = "done"]
      /\ UNCHANGED <<clientListVars, pendingOpen, click, updEtag, updateEvent, head>>
    BY DEF BroadcastUpdate
<1>6. Typed'
    BY <1>1, <1>4, <1>5 DEF Typed, LinksTyped, ListsTyped, ClicksTyped, ChecksTyped, clientListVars
<1>7. ListsInv' /\ OpensInv'
    BY <1>1, <1>4, <1>5, ListsStay, OpensStay DEF ClientsInv, Typed
<1>8. NewsInv'
    BY <1>1, <1>4 DEF NewsInv, Typed, LinksTyped
<1> QED
    BY <1>6, <1>7, <1>8 DEF ClientsInv

-----------------------------------------------------------------------------
(* The theorems                                                            *)

LEMMA InvHolds == ClientsSpec => []ClientsInv
<1>1. ASSUME ClientsInit PROVE ClientsInv
  <2>1. Quiet \in Told /\ Quiet.opens = <<>>
      BY DEF Quiet, Told
  <2>2. LinksTyped /\ ClicksTyped
      BY <1>1, <2>1 DEF ClientsInit, LinksTyped, ClicksTyped
  <2>3. ListsTyped /\ ChecksTyped
    <3>1. NoJob \in JobState /\ 0 \in 0 .. MaxChanges /\ 0 \in 0 .. MaxRev
        BY ClientsAssumption DEF JobState
    <3>2. ListsTyped
        BY <1>1, <3>1 DEF ClientsInit, ListsTyped
    <3>3. [at |-> "idle", rev |-> 0] \in
              [at : {"idle", "changelog", "tell", "done"}, rev : 0 .. MaxRev]
        BY <3>1
    <3> QED
        BY <1>1, <3>1, <3>2, <3>3 DEF ClientsInit, ChecksTyped
  <2>4. ListsInv /\ NewsInv
      BY <1>1 DEF ClientsInit, ListsInv, NewsInv, Jobs
  <2>5. OpensInv
    <3>1. \A k : Never(<<>>, k) /\ Once(<<>>, k)
        BY DEF Never, Once
    <3>2. pendingOpen \notin Clicks /\ \A c \in Conns : told[c].opens = <<>>
        BY <1>1, <2>1, ClientsAssumption DEF ClientsInit
    <3> QED
        BY <3>1, <3>2 DEF OpensInv
  <2> QED
      BY <2>2, <2>3, <2>4, <2>5 DEF ClientsInv, Typed
<1>2. ASSUME ClientsInv, [ClientsNext]_clientVars PROVE ClientsInv'
  <2>1. ASSUME NEW c \in Conns, Accept(c) \/ Leave(c) \/ ReadEnds(c) PROVE ClientsInv'
      BY <1>2, <2>1, AcceptKeeps, EndsKeep
  <2>2. CASE MarkThreadsDirty
      BY <1>2, <2>2, DirtyKeeps
  <2>3. ASSUME NEW r \in Refreshes, RefreshChannels(r) PROVE ClientsInv'
      BY <1>2, <2>3, RefreshKeeps
  <2>4. ASSUME NEW j \in Jobs, Build(j) \/ Write(j) \/ OpenPending(j) PROVE ClientsInv'
      BY <1>2, <2>4, BuildKeeps, WriteKeeps, OpenKeeps
  <2>5. ASSUME NEW k \in Clicks, OnNotifActivate(k) \/ BroadcastOpen(k) \/ Stash(k)
        PROVE  ClientsInv'
      BY <1>2, <2>5, ClickKeeps, BroadcastOpenKeeps
  <2>6. CASE Push
      BY <1>2, <2>6, CheckKeeps
  <2>7. ASSUME NEW u \in Checks, CheckUpdate(u) \/ SetUpdateEvent(u) \/ BroadcastUpdate(u)
        PROVE  ClientsInv'
      BY <1>2, <2>7, CheckKeeps, BroadcastUpdateKeeps
  <2>8. CASE UNCHANGED clientVars
    <3>1. Typed'
        BY <1>2, <2>8 DEF ClientsInv, clientVars, clientListVars, updateVars, Typed, LinksTyped,
           ListsTyped, ClicksTyped, ChecksTyped
    <3>2. ListsInv' /\ NewsInv' /\ OpensInv'
        BY <1>2, <2>8, ListsStay, NewsStay, OpensStay DEF ClientsInv, clientVars, updateVars, Typed
    <3> QED
        BY <3>1, <3>2 DEF ClientsInv
  <2> QED
      BY <1>2, <2>1, <2>2, <2>3, <2>4, <2>5, <2>6, <2>7, <2>8 DEF ClientsNext
<1> QED
    BY <1>1, <1>2, PTL DEF ClientsSpec

LEMMA CountOnce ==
    ASSUME NEW s \in Seq(Clicks), NEW k
    PROVE  /\ Once(s, k) => Cardinality({i \in DOMAIN s : s[i] = k}) <= 1
           /\ Never(s, k) => Cardinality({i \in DOMAIN s : s[i] = k}) = 0
<1> DEFINE at == {i \in DOMAIN s : s[i] = k}
<1>1. CASE at = {}
    BY <1>1, FS_EmptySet
<1>2. CASE at # {}
  <2>1. PICK i \in at : TRUE
      BY <1>2
  <2>2. ~Never(s, k)
      BY <2>1 DEF Never
  <2>3. Once(s, k) => at = {i}
      BY <2>1 DEF Once
  <2>4. Cardinality({i}) = 1
      BY FS_Singleton
  <2>5. Once(s, k) => Cardinality(at) = 1
      BY <2>3, <2>4
  <2> HIDE DEF at
  <2>6. Once(s, k) => Cardinality(at) <= 1
      BY <2>5
  <2> QED
      BY <2>2, <2>6 DEF at
<1> QED
    BY <1>1, <1>2

\* Type correctness of the clients, the timer, the clicks and the checks (main.go:
\* conns, threadsDirtyTimer, pendingOpen, updateEvent).
THEOREM ClientsTypeCorrect == ClientsSpec => []ClientsTypeOK
<1>1. ClientsInv => ClientsTypeOK
    BY DEF ClientsInv, Typed, LinksTyped, ListsTyped, ClicksTyped, ChecksTyped, JobState, Told,
       ClientsTypeOK
<1> QED
    BY <1>1, InvHolds, PTL

\* For any number of clients, clicks, refreshes and update checks: when nothing is under
\* way every client has the last list and knows of an announced update, and a target is
\* opened at most once by each (main.go:2517-2543, 2692-2702, cache_render.go:943-951).
THEOREM ClientsHear == ClientsSpec => []ClientsAreTold
<1> SUFFICES ASSUME ClientsInv PROVE ClientsAreTold
    BY InvHolds, PTL
<1>1. EveryoneKnows
    BY DEF ClientsInv, NewsInv, EveryoneKnows
<1>2. ListsCatchUp
  <2>1. (\A j \in Jobs : job[j] = NoJob) => \A j \in Jobs, c \in Conns : ~Serves(j, c)
      BY DEF Serves, NoJob
  <2> QED
      BY <2>1 DEF ClientsInv, Typed, LinksTyped, ListsInv, ListsCatchUp
<1>3. OpensOnce
  <2>1. \A c \in Conns : told[c].opens \in Seq(Clicks)
      BY DEF ClientsInv, Typed, LinksTyped, Told
  <2> QED
      BY <2>1, CountOnce DEF ClientsInv, OpensInv, OpensOnce
<1> QED
    BY <1>1, <1>2, <1>3 DEF ClientsAreTold
=============================================================================
