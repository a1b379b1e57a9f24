-------------------------------- MODULE People --------------------------------
(***************************************************************************)
(* The workspace's channels and the people in them: Directory and          *)
(* Membership, which share no state.                                       *)
(***************************************************************************)
EXTENDS Directory, Membership

\* The list of channels the client has is the daemon's (cache_render.go:905-913,
\* main.go:1397-1418); a channel's members are fetched once and are Slack's
\* (manager.go:152-190).
PeopleAgree == ListIsCurrent /\ FetchedOnce /\ MembersAgree
=============================================================================
