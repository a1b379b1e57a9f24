------------------------------- MODULE Delivery -------------------------------
(***************************************************************************)
(* What the daemon promises of the messages of a workspace, whatever       *)
(* connects, crashes and is fetched again underneath: messages are stored  *)
(* in any order and for good, a cursor moves over the stored ones, only    *)
(* forward, and a message is told to the user when the cursor gets to it,  *)
(* or never.  Starting again skips to the newest stored message.           *)
(*                                                                         *)
(* SyncPipeline implements this specification.                             *)
(***************************************************************************)
EXTENDS Naturals

CONSTANT Messages    \* numbers, 0 not among them

VARIABLES
    stored,    \* messages in the cache
    cursor,    \* the last message passed, or 0
    told       \* times each message was told

Init ==
    /\ stored = {}
    /\ cursor = 0
    /\ told = [t \in Messages |-> 0]

Store(t) ==
    /\ t \notin stored
    /\ stored' = stored \cup {t}
    /\ UNCHANGED <<cursor, told>>

\* Messages of a channel the workspace does not list are passed in silence.
Pass(t) ==
    /\ t \in stored /\ t > cursor
    /\ cursor' = t
    /\ \/ told' = [told EXCEPT ![t] = @ + 1]
       \/ UNCHANGED told
    /\ UNCHANGED stored

Resume ==
    /\ cursor' \in stored \cup {0}
    /\ cursor' >= cursor
    /\ \A t \in stored : t <= cursor'
    /\ UNCHANGED <<stored, told>>

Next == (\E t \in Messages : Store(t) \/ Pass(t)) \/ Resume

Spec == Init /\ [][Next]_<<stored, cursor, told>>
=============================================================================
