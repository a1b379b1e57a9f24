------------------------------ MODULE Membership ------------------------------
(***************************************************************************)
(* Who is in a channel (internal/slack/membership/manager.go over the      *)
(* channel_members tables, internal/cache/channel_members.go): a member    *)
(* set in memory and one on disk, replaced as a whole by a fetch and       *)
(* changed by the socket's events.  A fetch is made when the last one is   *)
(* a day old, by whichever of the callers of EnsureFresh comes first.      *)
(***************************************************************************)
EXTENDS Naturals, Sequences, FiniteSets

CONSTANTS
    Members,     \* users
    Fetchers,    \* goroutines: calls of EnsureFresh and their fetches
    MaxMemberMoves,    \* bound: users who join or leave
    MaxMemberStarts,   \* bound: starts of the program
    MaxStale,    \* bound: reconnects and days that pass
    MaxErrors,   \* bound: failed fetches
    MaxCalls     \* bound: calls of EnsureFresh

ASSUME MembershipAssumption ==
    {MaxMemberMoves, MaxMemberStarts, MaxStale, MaxErrors, MaxCalls} \subseteq Nat

VARIABLES
    inside,      \* Slack's member set
    memberMoves,       \* events on their way
    table, meta, \* channel_members; last_full_fetch_at is within the TTL
    memory,      \* m.members of the channel; NotLoaded
    applying,    \* an event that is in the table and not yet in memory
    fetching,    \* the in-flight sentinel
    recent,      \* lastFetched is within the TTL
    fetcher,     \* what a goroutine is at, and what it has read
    since,       \* history: fetches made since freshness last lapsed
    passed,      \* history: a fetch and an event passed each other
    moved, started, lapsed, failed, called

diskState == <<table, meta>>
managerState == <<memory, applying, fetching, recent>>
memberBounds == <<moved, started, lapsed, failed, called>>
membershipVars == <<inside, memberMoves, diskState, managerState, fetcher, since, passed, memberBounds>>

NotLoaded == {"not loaded"}
MembershipRests == [at |-> "rest"]
Loaded == memory # NotLoaded
WithMember(set, e) == IF e.joins THEN set \cup {e.user} ELSE set \ {e.user}

\* --- defective variants, for mutation runs ---
\* only a fetch that is still running keeps another one from starting
MayFetch_Idle == ~fetching

-----------------------------------------------------------------------------
(* Slack, and time                                                         *)

Move(u) ==
    /\ moved < MaxMemberMoves /\ moved' = moved + 1
    /\ inside' = IF u \in inside THEN inside \ {u} ELSE inside \cup {u}
    /\ memberMoves' = Append(memberMoves, [user |-> u, joins |-> u \notin inside])
    /\ passed' = (passed \/ \E f \in Fetchers : fetcher[f].at \in {"fetch", "replaced"})
    /\ UNCHANGED <<diskState, managerState, fetcher, since, started, lapsed, failed, called>>

\* ForceStale at a reconnect, or a day goes by.
ForceStale ==
    /\ lapsed < MaxStale /\ lapsed' = lapsed + 1
    /\ meta' = FALSE /\ recent' = FALSE /\ since' = 0
    /\ UNCHANGED <<inside, memberMoves, table, memory, applying, fetching, fetcher, passed,
                   moved, started, failed, called>>

\* The program stops, events are missed, and it starts again.
StartMembers ==
    /\ started < MaxMemberStarts /\ started' = started + 1
    /\ memberMoves' = <<>> /\ memory' = NotLoaded /\ applying' = <<>>
    /\ fetching' = FALSE /\ recent' = FALSE
    /\ fetcher' = [f \in Fetchers |-> MembershipRests] /\ since' = 0
    /\ passed' = (passed \/ memberMoves # <<>> \/ applying # <<>>)
    /\ UNCHANGED <<inside, diskState, moved, lapsed, failed, called>>

-----------------------------------------------------------------------------
(* EnsureFresh                                                             *)

\* The table is read into memory unless a set is there, and pushed; then the age of
\* the last fetch is read.
EnsureFresh(f) ==
    /\ fetcher[f] = MembershipRests /\ called < MaxCalls /\ called' = called + 1
    /\ memory' = IF Loaded THEN memory ELSE table
    /\ fetcher' = IF meta THEN fetcher ELSE [fetcher EXCEPT ![f] = [at |-> "stale"]]
    /\ UNCHANGED <<inside, memberMoves, diskState, applying, fetching, recent, since, passed,
                   moved, started, lapsed, failed>>

MayFetch == ~fetching /\ ~recent

BackgroundFetch(f) ==
    /\ fetcher[f].at = "stale"
    /\ IF MayFetch
       THEN /\ fetching' = TRUE /\ since' = since + 1
            /\ fetcher' = [fetcher EXCEPT ![f] = [at |-> "fetch", got |-> inside]]
            /\ passed' = (passed \/ memberMoves # <<>> \/ applying # <<>>)
       ELSE /\ fetcher' = [fetcher EXCEPT ![f] = MembershipRests]
            /\ UNCHANGED <<fetching, since, passed>>
    /\ UNCHANGED <<inside, memberMoves, diskState, memory, applying, recent, memberBounds>>

FetchFails(f) ==
    /\ fetcher[f].at = "fetch" /\ failed < MaxErrors /\ failed' = failed + 1
    /\ fetcher' = [fetcher EXCEPT ![f] = MembershipRests] /\ fetching' = FALSE
    /\ since' = IF since = 0 THEN 0 ELSE since - 1
    /\ UNCHANGED <<inside, memberMoves, diskState, memory, applying, recent, passed, moved,
                   started, lapsed, called>>

ReplaceChannelMembers(f) ==
    /\ fetcher[f].at = "fetch"
    /\ table' = fetcher[f].got /\ meta' = TRUE
    /\ fetcher' = [fetcher EXCEPT ![f].at = "replaced"]
    /\ UNCHANGED <<inside, memberMoves, managerState, since, passed, memberBounds>>

\* Memory follows, and the sentinel goes.  A ForceStale in between is forgotten.
SetMembers(f) ==
    /\ fetcher[f].at = "replaced"
    /\ memory' = fetcher[f].got /\ recent' = TRUE /\ fetching' = FALSE
    /\ since' = IF since = 0 THEN 1 ELSE since
    /\ fetcher' = [fetcher EXCEPT ![f] = MembershipRests]
    /\ UNCHANGED <<inside, memberMoves, diskState, applying, passed, memberBounds>>

-----------------------------------------------------------------------------
(* ApplyJoin, ApplyLeave: the table first                                  *)

ApplyToTable ==
    /\ applying = <<>> /\ memberMoves # <<>>
    /\ applying' = <<Head(memberMoves)>> /\ memberMoves' = Tail(memberMoves)
    /\ table' = WithMember(table, Head(memberMoves))
    /\ UNCHANGED <<inside, meta, memory, fetching, recent, fetcher, since, passed, memberBounds>>

\* A join makes a set of one where none was loaded; a leave then does nothing.
ApplyToMemory ==
    /\ applying # <<>> /\ applying' = <<>>
    /\ memory' = IF Loaded THEN WithMember(memory, applying[1])
                 ELSE IF applying[1].joins THEN {applying[1].user} ELSE memory
    /\ UNCHANGED <<inside, memberMoves, diskState, fetching, recent, fetcher, since, passed, memberBounds>>

-----------------------------------------------------------------------------
MembershipInit ==
    /\ inside = {} /\ memberMoves = <<>> /\ table = {} /\ meta = FALSE
    /\ memory = NotLoaded /\ applying = <<>> /\ fetching = FALSE /\ recent = FALSE
    /\ fetcher = [f \in Fetchers |-> MembershipRests] /\ since = 0 /\ passed = FALSE
    /\ moved = 0 /\ started = 0 /\ lapsed = 0 /\ failed = 0 /\ called = 0

MembershipNext ==
    \/ \E u \in Members : Move(u)
    \/ ForceStale \/ StartMembers \/ ApplyToTable \/ ApplyToMemory
    \/ \E f \in Fetchers : EnsureFresh(f) \/ BackgroundFetch(f) \/ FetchFails(f)
                           \/ ReplaceChannelMembers(f) \/ SetMembers(f)

MembershipSpec == MembershipInit /\ [][MembershipNext]_membershipVars

-----------------------------------------------------------------------------
(* Properties                                                              *)

MembershipTypeOK ==
    /\ inside \cup table \subseteq Members /\ (Loaded => memory \subseteq Members)
    /\ {meta, fetching, recent, passed} \subseteq BOOLEAN /\ since \in Nat

\* However many callers find a channel stale at once, one of them fetches, and none
\* again before a day or a reconnect (manager.go:152-161).
FetchedOnce == since <= 1

\* Events handled, no fetch running: the table is Slack's set if it was fetched and no
\* event passed a fetch (manager.go:165-190).
MembersAgree ==
    (meta /\ memberMoves = <<>> /\ applying = <<>> /\ ~fetching /\ ~passed) => table = inside
=============================================================================
