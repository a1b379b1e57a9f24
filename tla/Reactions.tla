------------------------------- MODULE Reactions -------------------------------
(***************************************************************************)
(* One emoji on one message: the row of the reactions table                *)
(* (internal/cache/reactions.go), changed by the socket one event at a     *)
(* time (wshandler.go:85-121: read the row, then write it) and replaced by *)
(* whatever a fetched page says (persistMessage, cache_render.go:35-47).   *)
(* Slack lists only some of many reactors.  The order of a row's users is  *)
(* not modelled, nor one listed twice: taking a user off takes off both.   *)
(***************************************************************************)
EXTENDS Integers, Sequences, FiniteSets

CONSTANTS
    Reactors,       \* who react
    Listed,      \* how many of them a page lists
    MaxReactionEvents,   \* bound: reactions added and removed
    MaxPages     \* bound: pages fetched

ASSUME ReactionAssumption ==
    /\ IsFiniteSet(Reactors)
    /\ Listed \in Nat \ {0} /\ {MaxReactionEvents, MaxPages} \subseteq Nat

VARIABLES
    slack,    \* who react
    reactionEvents,   \* on their way, in order
    row,      \* user_ids and count; NoRow
    reading,  \* the socket: the event at hand and the row it has read
    page,     \* a page on its way: what Slack said
    mixed,    \* history: a page and an event passed each other, or the row went with
              \* the last user it lists while others react; until the next page
    sent, pages

reactionVars == <<slack, reactionEvents, row, reading, page, mixed, sent, pages>>

NoRow == [users |-> {}, count |-> 0]
Nothing == [at |-> "nothing"]

\* --- defective variants, for mutation runs ---
\* the count goes down to the users still listed
RowRemoved_ByList(r, u) ==
    IF r.users \subseteq {u} THEN NoRow
    ELSE [users |-> r.users \ {u}, count |-> Cardinality(r.users \ {u})]

-----------------------------------------------------------------------------
\* A user reacts, or takes a reaction back.
Toggled(by, u) == IF u \in by THEN by \ {u} ELSE by \cup {u}

React(u) ==
    /\ sent < MaxReactionEvents /\ sent' = sent + 1
    /\ slack' = Toggled(slack, u)
    /\ reactionEvents' = Append(reactionEvents, [user |-> u, added |-> u \notin slack])
    /\ UNCHANGED <<row, reading, page, mixed, pages>>

\* OnReactionAdded counts one more; OnReactionRemoved one less, and drops the row with
\* the last user it lists.
RowAdded(r, u) == [users |-> r.users \cup {u}, count |-> r.count + 1]
RowRemoved(r, u) ==
    IF r.users \subseteq {u} THEN NoRow
    ELSE [users |-> r.users \ {u}, count |-> r.count - 1]

GetReactions ==
    /\ reading = Nothing /\ reactionEvents # <<>> /\ reactionEvents' = Tail(reactionEvents)
    /\ reading' = [at |-> "row", event |-> Head(reactionEvents), row |-> row]
    /\ UNCHANGED <<slack, row, page, mixed, sent, pages>>

UpsertReaction ==
    /\ reading # Nothing /\ reading' = Nothing
    /\ LET e == reading.event r == reading.row IN
       /\ row' = IF e.added THEN RowAdded(r, e.user)
                 ELSE IF r = NoRow THEN row ELSE RowRemoved(r, e.user)
       /\ mixed' = (mixed \/ (row' = NoRow /\ r.count > 1))
    /\ UNCHANGED <<slack, reactionEvents, page, sent, pages>>

-----------------------------------------------------------------------------
FetchPage ==
    /\ page = Nothing /\ pages < MaxPages /\ pages' = pages + 1
    /\ page' = [at |-> "page", slack |-> slack]
    /\ UNCHANGED <<slack, reactionEvents, row, reading, mixed, sent>>

\* The rows a page may hold: some of the users, all of them if they are few.
PageRows(by) ==
    {r \in [users : SUBSET by, count : {Cardinality(by)}] :
        Cardinality(r.users) = IF Cardinality(by) < Listed THEN Cardinality(by) ELSE Listed}

\* persistMessage: the page's row replaces the cached one, or removes it.
PersistReactions ==
    /\ page # Nothing /\ page' = Nothing
    /\ row' \in PageRows(page.slack)
    /\ mixed' = (reactionEvents # <<>> \/ reading # Nothing \/ slack # page.slack)
    /\ UNCHANGED <<slack, reactionEvents, reading, sent, pages>>

-----------------------------------------------------------------------------
ReactionsInit ==
    /\ slack = {} /\ reactionEvents = <<>> /\ row = NoRow /\ reading = Nothing
    /\ page = Nothing /\ mixed = FALSE /\ sent = 0 /\ pages = 0

ReactionsNext ==
    \/ \E u \in Reactors : React(u)
    \/ GetReactions \/ UpsertReaction \/ FetchPage \/ PersistReactions

ReactionsSpec == ReactionsInit /\ [][ReactionsNext]_reactionVars

-----------------------------------------------------------------------------
(* Properties                                                              *)

ReactionsTypeOK ==
    /\ slack \subseteq Reactors /\ row \in [users : SUBSET Reactors, count : Int]
    /\ mixed \in BOOLEAN

\* Once every event is handled, the count is Slack's and whoever is listed reacts,
\* unless a page and an event passed each other, or a row went while users it does
\* not list still react; and the next page that meets no event repairs either
\* (wshandler.go:84-121, cache_render.go:35-47).
ReactionsAgree ==
    (reactionEvents = <<>> /\ reading = Nothing /\ ~mixed) =>
        row.count = Cardinality(slack) /\ row.users \subseteq slack
=============================================================================
