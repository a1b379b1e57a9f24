------------------------------- MODULE Tables -------------------------------
(***************************************************************************)
(* The tables of the local store that are changed from several sides, each *)
(* in the view of a module of its own: a message's reactions, the text     *)
(* that is searched, and what of a channel is read.                        *)
(***************************************************************************)
EXTENDS Reactions, SearchStore, ReadState

\* What is stored, or shown from it, is what Slack has, each at rest and with the
\* exceptions its own comment names: who reacts (wshandler.go:84-121), the searchable
\* text (search.go:40-118) and a badge for what is unread (main.go:1233-1302,
\* channels_read_state.go:28-84).
TablesAgree == ReactionsAgree /\ SearchFinds /\ UnreadShows
=============================================================================
