---------------------------- MODULE MCChannelView ----------------------------
(***************************************************************************)
(* ChannelView on a small instance, and a comment of Backend.qml that does *)
(* not hold of it.                                                         *)
(***************************************************************************)
EXTENDS ChannelView

CONSTANTS a, b

\* Backend.qml:751-752: a loaded page is marked read at its last message
\* "(latest ts known), so it doesn't resurface as unread elsewhere".  Here: the
\* window of a link into the past, which ends at the target, does not take the
\* mark of its channel back.
JumpKeepsRead ==
    [][\A q \in Reqs, ch \in Channels :
         (/\ Sending(q, "jump") /\ req'[q] # req[q]
          /\ Cardinality({ts \in Posts(ch) : ts > req[q].arg}) > Around)
            => mark'[ch] >= mark[ch]]_vars
=============================================================================
