---------------------------- MODULE MCWorkspace -----------------------------
(***************************************************************************)
(* The daemon around a workspace, on small instances: the connection and   *)
(* presence, clients, notifications and focus, channels and names, members, *)
(* reactions, what is read, the searchable store, listings of the REST     *)
(* API, and sending.  They meet only in the message table and the socket,  *)
(* which each module has its own view of, so one part moves in a           *)
(* behaviour, chosen at the start; the clients come in three parts.        *)
(***************************************************************************)
EXTENDS Workspace, TLC

CONSTANTS c1, d1, d2, u1, u2, ta, tb, wa, wb,
          MaxWorkers,  \* bound: tasks and lookups of Directory together
          MaxTrouble   \* bound: failures and presence changes of Session together

VARIABLE part

Parts == {"attach", "session", "lists", "opens", "news", "notifier", "focus", "directory",
          "members", "read", "reactions", "store", "listings"}

\* Two direct messages, a channel to join, one to open and one a message comes in.
WithWhom == (d1 :> u1) @@ (d2 :> u2)
SomeTasks == {[kind |-> "join", channel |-> c1], [kind |-> "dm", channel |-> d1],
              [kind |-> "event", channel |-> d2]}

\* Two terms: each starts one word, and one is also inside the other word.
TermStarts == {<<ta, wa>>, <<tb, wb>>}
TermWithin == TermStarts \cup {<<tb, wa>>}

MCInit ==
    /\ AttachInit /\ SessionInit /\ ClientsInit /\ NotifierInit /\ FocusInit /\ DirectoryInit
    /\ MembershipInit /\ ReadInit /\ ReactionsInit /\ StoreInit /\ ListingsInit
    /\ part \in Parts
    /\ part # "attach" => thread = [c \in Commands |-> None]
    /\ part # "notifier" => hears
    /\ part # "store" => added = Columns /\ driver
    /\ part # "listings" => live = {}

lineVars == <<attachVars, sessionVars, clientVars>>
deskVars == <<notifierVars, focusVars>>
peopleVars == <<directoryVars, membershipVars>>
messageVars == <<readVars, reactionVars, storeVars, listingVars>>

\* Clients: channel lists that change, targets to open, updates to announce.
ClientsPart ==
    /\ part # "news" => UNCHANGED updateVars
    /\ part = "news" => UNCHANGED version
    /\ part # "opens" => UNCHANGED click
    /\ part = "lists" => \A c \in Conns : clientLink'[c] # "left"
    /\ part = "opens" => version' < 2

MCNext ==
    /\ UNCHANGED part
    /\ \/ /\ part = "attach" /\ AttachNext
          /\ UNCHANGED <<sessionVars, clientVars, deskVars, peopleVars, messageVars>>
       \/ /\ part = "session" /\ SessionNext /\ dialFails' + presenceMoves' <= MaxTrouble
          /\ UNCHANGED <<attachVars, clientVars, deskVars, peopleVars, messageVars>>
       \/ /\ part \in {"lists", "opens", "news"} /\ ClientsNext /\ ClientsPart
          /\ UNCHANGED <<attachVars, sessionVars, deskVars, peopleVars, messageVars>>
       \/ /\ part = "notifier" /\ NotifierNext
          /\ UNCHANGED <<focusVars, lineVars, peopleVars, messageVars>>
       \/ /\ part = "focus" /\ FocusNext
          /\ UNCHANGED <<notifierVars, lineVars, peopleVars, messageVars>>
       \/ /\ part = "directory" /\ DirectoryNext /\ begun' + looked' <= MaxWorkers
          /\ UNCHANGED <<membershipVars, lineVars, deskVars, messageVars>>
       \/ /\ part = "members" /\ MembershipNext
          /\ UNCHANGED <<directoryVars, lineVars, deskVars, messageVars>>
       \/ /\ part = "read" /\ ReadNext
          /\ UNCHANGED <<reactionVars, storeVars, listingVars, lineVars, deskVars, peopleVars>>
       \/ /\ part = "reactions" /\ ReactionsNext
          /\ UNCHANGED <<readVars, storeVars, listingVars, lineVars, deskVars, peopleVars>>
       \/ /\ part = "store" /\ StoreNext
          /\ UNCHANGED <<readVars, reactionVars, listingVars, lineVars, deskVars, peopleVars>>
       \/ /\ part = "listings" /\ ListingsNext
          /\ UNCHANGED <<readVars, reactionVars, storeVars, lineVars, deskVars, peopleVars>>

MCSpec == MCInit /\ [][MCNext]_<<part, lineVars, deskVars, peopleVars, messageVars>>
=============================================================================
