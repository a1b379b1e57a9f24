-------------------------------- MODULE Listings --------------------------------
(***************************************************************************)
(* Listings fetched page by page while what they list changes              *)
(* (internal/slack/client.go): channels, members, replies, sections, the   *)
(* history after a mark, followed threads, and the window around a         *)
(* message.  Slack may answer "too many requests", fail, or the caller's   *)
(* deadline may pass.  Items are numbered, the newest last; a page goes    *)
(* from newer to older, and its cursor is its last item.                   *)
(***************************************************************************)
EXTENDS Naturals, Sequences, SequencesExt

CONSTANTS
    MaxItem,     \* bound: items
    PageSize,    \* 100, 200 or 1000
    Cap,         \* maxTotal, listThreadSubscriptionsHardCap
    MaxListChanges,  \* bound: items that come or go during a listing
    MaxFaults    \* bound: refused or failed requests, and deadlines

ASSUME ListingAssumption ==
    /\ MaxItem \in Nat /\ PageSize \in Nat \ {0} /\ Cap \in Nat \ {0}
    /\ {MaxListChanges, MaxFaults} \subseteq Nat

VARIABLES
    live,     \* the items at Slack
    stayed,   \* history: those that were there from the first request on
    walk,     \* the listing: kind, what it is at, where, what it has
    changes, faults

listingVars == <<live, stayed, walk, changes, faults>>

Items == 1 .. MaxItem
\* A "list" is all or nothing; "sections" too, and knows no rate limit; "since" and
\* "threads" stop at the cap, and hand on what they have when they fail or run out of
\* time; "around" is two requests at a message.
Kinds == {"list", "sections", "since", "threads", "around"}
NoWalk == [kind |-> "list", at |-> "idle", cursor |-> 0, from |-> 0, got |-> <<>>]

\* The latest n of some items, the latest first; all of them if there are no more.
Latest(S, n) ==
    {p \in BoundedSeq(S, n) :
        /\ \A i, j \in DOMAIN p : i < j => p[i] > p[j]
        /\ \A s \in S : s \in ToSet(p) \/ (Len(p) = n /\ s < p[n])}

\* --- defective variants, for mutation runs ---
\* a rate limited page is skipped
AfterLimit_Skips(w) == [w EXCEPT !.at = "page", !.cursor = IF @ > PageSize THEN @ - PageSize ELSE @]

-----------------------------------------------------------------------------
(* Slack                                                                   *)

Window(w) == IF w.kind = "since" THEN {i \in live : i > w.from} ELSE live
Rest(w) == {i \in Window(w) : i < w.cursor}
HasMore(w, batch) == Rest(w) # ToSet(batch)

\* Something is posted, joined or followed, or goes away.
ListChanges ==
    /\ walk.at \in {"page", "wait", "newer"} /\ changes < MaxListChanges /\ changes' = changes + 1
    /\ \E i \in Items :
         \/ (\A old \in live : old < i) /\ live' = live \cup {i} /\ UNCHANGED stayed
         \/ i \in live /\ live' = live \ {i} /\ stayed' = stayed \ {i}
    /\ UNCHANGED <<walk, faults>>

-----------------------------------------------------------------------------
(* The loops of GetChannels, GetAllPublicChannels, GetUsersInConversation, *)
(* GetReplies, GetChannelSections, GetHistorySince and                     *)
(* ListThreadSubscriptions                                                 *)

BeginListing(kind) ==
    /\ walk.at = "idle" /\ stayed' = live
    /\ \E ts \in Items : walk' = [kind |-> kind, at |-> "page", cursor |-> MaxItem + 1,
                                 from |-> ts, got |-> <<>>]
    /\ UNCHANGED <<live, changes, faults>>

Ended(w, got, how) == [w EXCEPT !.at = how, !.got = got]

\* Only two kinds stop at the cap: GetHistorySince says so, a cut list of threads does
\* not.
Capped(w, got) == w.kind \in {"since", "threads"} /\ Len(got) >= Cap

GetPage ==
    /\ walk.at = "page" /\ walk.kind # "around"
    /\ \E batch \in Latest(Rest(walk), PageSize) :
         LET got == walk.got \o batch IN
         walk' = IF Capped(walk, got) THEN Ended(walk, SubSeq(got, 1, Cap), "capped")
                 ELSE IF ~HasMore(walk, batch) THEN Ended(walk, got, "done")
                 ELSE [walk EXCEPT !.got = got, !.cursor = Last(got)]
    /\ UNCHANGED <<live, stayed, changes, faults>>

\* 429: the same page again after the time Slack names.
RateLimited ==
    /\ walk.at \in {"page", "newer"} /\ walk.kind \in {"list", "since", "around"}
    /\ faults < MaxFaults /\ faults' = faults + 1
    /\ walk' = IF walk.at = "newer" THEN walk ELSE [walk EXCEPT !.at = "wait"]
    /\ UNCHANGED <<live, stayed, changes>>

AfterLimit(w) == [w EXCEPT !.at = "page"]

Retry ==
    /\ walk.at = "wait" /\ walk' = AfterLimit(walk)
    /\ UNCHANGED <<live, stayed, changes, faults>>

\* A deadline, or an error: GetHistorySince hands back what it has in either case, the
\* list of threads in the first, and the others nothing.
KeepsPart(w, deadline) == w.kind = "since" \/ (w.kind = "threads" /\ deadline)

Fail ==
    /\ walk.at \in {"page", "wait", "newer"} /\ faults < MaxFaults /\ faults' = faults + 1
    /\ \E deadline \in BOOLEAN :
         walk' = Ended(walk, IF KeepsPart(walk, deadline) THEN walk.got ELSE <<>>, "failed")
    /\ UNCHANGED <<live, stayed, changes>>

-----------------------------------------------------------------------------
(* GetHistoryAround: up to PageSize at or before the message, then those   *)
(* after it, unless there are more of them than one page                   *)

Older ==
    /\ walk.at = "page" /\ walk.kind = "around"
    /\ \E batch \in Latest({i \in live : i <= walk.from}, PageSize) :
         walk' = [walk EXCEPT !.at = "newer", !.got = batch]
    /\ UNCHANGED <<live, stayed, changes, faults>>

Newer ==
    /\ walk.at = "newer"
    /\ LET after == {i \in live : i > walk.from} IN
       \E batch \in Latest(after, PageSize) :
         walk' = Ended(walk, IF after = ToSet(batch) THEN batch \o walk.got ELSE walk.got, "done")
    /\ UNCHANGED <<live, stayed, changes, faults>>

-----------------------------------------------------------------------------
ListingsInit ==
    /\ live \in SUBSET (1 .. MaxItem - 1) /\ stayed = {} /\ walk = NoWalk
    /\ changes = 0 /\ faults = 0

ListingsNext ==
    \/ \E kind \in Kinds : BeginListing(kind)
    \/ ListChanges \/ GetPage \/ RateLimited \/ Retry \/ Fail \/ Older \/ Newer

ListingsSpec == ListingsInit /\ [][ListingsNext]_listingVars

-----------------------------------------------------------------------------
(* Properties                                                              *)

WalkAt == {"idle", "page", "wait", "newer", "done", "capped", "failed"}
ListingsTypeOK ==
    /\ live \cup stayed \subseteq Items
    /\ walk \in [kind : Kinds, at : WalkAt, cursor : 0 .. MaxItem + 1, from : 0 .. MaxItem,
               got : Seq(Items)]
    /\ {changes, faults} \subseteq Nat

\* Whatever a listing returns, whole, cut off or cut short, holds no item twice and
\* leaves out no item between its oldest and its newest that was there all the time;
\* one that ends well holds every such item of its window (client.go:440-590, 669-842,
\* 1748-1776, 1846-1916).
Between(i, s) == \E a, b \in s : a <= i /\ i <= b
ListingHasNoGap ==
    walk.at \in {"done", "capped", "failed"} =>
        LET items == ToSet(walk.got) IN
        /\ IsInjective(walk.got)
        /\ \A i \in stayed : Between(i, items) => i \in items
        /\ walk.at = "done" /\ walk.kind # "around" =>
               \A i \in stayed : (walk.kind = "since" => i > walk.from) => i \in items
=============================================================================
