------------------------------- MODULE OneList --------------------------------
(***************************************************************************)
(* What the user is promised of the list of messages, whatever is fetched, *)
(* announced, retried and lost underneath: every channel has one list, and *)
(* once a page has come for the channel in view the screen is that list.   *)
(* A list changes one way at a time.  A message comes last, and is not     *)
(* added where it stands already; a line the user sent stands at once, and *)
(* the oldest such line becomes the message in its place; a page, in the   *)
(* order of its messages, goes before the list, after it or in its stead,  *)
(* before it only with messages older than the one the list begins with.   *)
(* Nothing but a deletion or a page in its stead takes a line away.        *)
(*                                                                         *)
(* ChannelView implements this specification.                              *)
(***************************************************************************)
EXTENDS Naturals, Sequences

CONSTANTS
    Channels,
    Last,        \* messages are numbered up to here, in the order of time
    Sends        \* numbers of the lines the user sends

VARIABLES
    list,        \* lines of each channel
    view,        \* channel on screen
    opened,      \* a page has come for it
    screen       \* the lines on screen, once one has

Messages == 1 .. Last
InList(m) == [ts |-> m, pending |-> FALSE]
Sent(n) == [ts |-> n, pending |-> TRUE]

Pages ==
    {p \in UNION {[1 .. n -> Messages] : n \in 0 .. Last} :
        \A i, j \in DOMAIN p : i < j => p[i] < p[j]}
Written(page) == [i \in DOMAIN page |-> InList(page[i])]

\* The screen follows the list.
Drawn == screen' = IF opened' THEN list'[view'] ELSE <<>>

Becomes(c, lines) ==
    /\ list' = [list EXCEPT ![c] = lines]
    /\ UNCHANGED <<view, opened>>
    /\ Drawn

Init ==
    /\ list = [c \in Channels |-> <<>>]
    /\ view \in Channels
    /\ opened = FALSE
    /\ screen = <<>>

Open(c) ==
    /\ view' = c
    /\ opened' = FALSE
    /\ UNCHANGED list
    /\ Drawn

Send(c) == \E n \in Sends : Becomes(c, Append(list[c], Sent(n)))

\* A message comes, after all others or in the place of the oldest line sent.
Arrive(c, m) ==
    /\ \A i \in DOMAIN list[c] : list[c][i] # InList(m)
    /\ \/ Becomes(c, Append(list[c], InList(m)))
       \/ \E i \in DOMAIN list[c] :
            /\ list[c][i].pending /\ \A j \in 1 .. i - 1 : ~ list[c][j].pending
            /\ Becomes(c, [list[c] EXCEPT ![i] = InList(m)])

Delete(c, m) ==
    \E i \in DOMAIN list[c] :
      /\ list[c][i] = InList(m)
      /\ Becomes(c, SubSeq(list[c], 1, i - 1) \o SubSeq(list[c], i + 1, Len(list[c])))

Earlier(c, page) ==
    /\ list[c] # <<>> /\ ~ list[c][1].pending
         => \A i \in DOMAIN page : page[i] < list[c][1].ts
    /\ Becomes(c, Written(page) \o list[c])

Later(c, page) == Becomes(c, list[c] \o Written(page))

\* A channel the user is not in comes on screen with its page.
Replace(c, page) ==
    /\ list' = [list EXCEPT ![c] = Written(page)]
    /\ view' \in {view, c}
    /\ opened' = (opened \/ view' = c)
    /\ Drawn

Next ==
    \E c \in Channels :
      \/ Open(c)
      \/ Send(c)
      \/ \E m \in Messages : Arrive(c, m) \/ Delete(c, m)
      \/ \E page \in Pages : Earlier(c, page) \/ Later(c, page) \/ Replace(c, page)

Spec == Init /\ [][Next]_<<list, view, opened, screen>>
=============================================================================
