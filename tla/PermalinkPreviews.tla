-------------------------- MODULE PermalinkPreviews --------------------------
(***************************************************************************)
(* Previews of Slack permalinks inside messages (permalink.go).            *)
(*                                                                         *)
(* Rendering a host message looks each linked message up in prevDone and,  *)
(* on a miss, registers the host as a waiter and makes sure one fetch is   *)
(* in flight.  A fetch, at most permaConcurrency at once, publishes its    *)
(* result, takes the waiters and renders and broadcasts each of them       *)
(* again.  prevMu covers each of the three steps, not two of them, and     *)
(* nothing covers a whole rendering.                                       *)
(***************************************************************************)
EXTENDS Naturals, FiniteSets

CONSTANTS
    Hosts,        \* messages that carry permalinks
    Targets,      \* linked messages: the keys channel|ts
    Links,        \* links of each host
    Cached,       \* hosts that are cache rows of a known channel
    Callers,      \* goroutines that render messages besides the fetches
    Fetchers,     \* bound: fetch goroutines started in a behaviour
    MaxRenders,   \* bound: renderings those callers make
    Concurrency   \* permaConcurrency

ASSUME LinksAssumption == Links \in [Hosts -> SUBSET Targets]
ASSUME CachedAssumption == Cached \subseteq Hosts
ASSUME GoroutinesAssumption == Callers \cap Fetchers = {}
ASSUME BoundsAssumption == MaxRenders \in Nat /\ Concurrency \in Nat \ {0}

\* A rendering in progress: links to visit, previews collected, a link that
\* missed and is not registered yet.
Renderers == Callers \cup Fetchers
Rendering == [host : Hosts, left : SUBSET Targets, block : SUBSET Targets,
              miss : SUBSET Targets]

VARIABLES
    prevDone,   \* cached resolutions: "ok", or "empty" after a failure
    prevInfl,   \* links with a fetch in flight
    prevWait,   \* hosts to render again when a link resolves
    fetch,      \* each fetch goroutine: its link and where it is
    waiters,    \* hosts a finished fetch has still to render again
    render,     \* what each goroutine is rendering: a set of at most one
    renders,    \* renderings begun by callers
    view,       \* previews in the last broadcast of each host
    offered     \* previews that were in some broadcast of it

table == <<prevDone, prevInfl, prevWait>>
ui == <<view, offered>>
vars == <<table, fetch, waiters, render, renders, ui>>

Building == {f \in Fetchers : fetch[f].at = "building"}
Spare == {f \in Fetchers : fetch[f].at = "unborn"}
\* The fetch goroutines that hold link k in flight.
Holders(k) == {f \in Fetchers : fetch[f].at \in {"queued", "building"}
                                /\ k \in fetch[f].for}

Begin(h) == {[host |-> h, left |-> Links[h], block |-> {}, miss |-> {}]}

\* --- defective variants, for mutation runs ---
\* deleting the entry without recreating it for the next waiter
TakeWaiters_NoEntry(k) == prevWait' = [j \in DOMAIN prevWait \ {k} |-> prevWait[j]]
\* prevInfl is not cleared
ClearInflight_Kept(k) == prevInfl' = prevInfl
\* prevDone is checked instead of prevInfl
NeedsFetch_NotDone(k) == prevDone[k] = "none"

Register(k, h) == prevWait' = [prevWait EXCEPT ![k] = @ \cup {h}]
TakeWaiters(k) == prevWait' = [prevWait EXCEPT ![k] = {}]
ClearInflight(k) == prevInfl' = prevInfl \ {k}
NeedsFetch(k) == k \notin prevInfl

-----------------------------------------------------------------------------
(* Rendering a host: permalinkPreviews, then the broadcast of the message  *)

StartRender(r, h) ==
    /\ r \in Callers /\ render[r] = {} /\ renders < MaxRenders
    /\ render' = [render EXCEPT ![r] = Begin(h)]
    /\ renders' = renders + 1
    /\ UNCHANGED <<table, fetch, waiters, ui>>

\* previewLookup of the next link: a hit, a failure cached as an empty entry,
\* or a miss.
Lookup(r) ==
    \E cur \in render[r] :
        /\ cur.miss = {}
        /\ \E k \in cur.left :
            render' = [render EXCEPT ![r] =
                {[cur EXCEPT !.left = @ \ {k},
                             !.block = IF prevDone[k] = "ok" THEN @ \cup {k} ELSE @,
                             !.miss = IF prevDone[k] = "none" THEN {k} ELSE {}]}]
        /\ UNCHANGED <<table, fetch, waiters, renders, ui>>

\* previewFetchAsync of a link that missed: register the host, start a fetch
\* unless one is in flight.
FetchAsync(r) ==
    \E cur \in render[r] : \E k \in cur.miss :
        /\ Register(k, cur.host)
        /\ IF NeedsFetch(k)
           THEN \E f \in Spare :
                  /\ prevInfl' = prevInfl \cup {k}
                  /\ fetch' = [fetch EXCEPT ![f] = [at |-> "queued", for |-> {k}]]
           ELSE UNCHANGED <<prevInfl, fetch>>
        /\ render' = [render EXCEPT ![r] = {[cur EXCEPT !.miss = {}]}]
        /\ UNCHANGED <<prevDone, waiters, renders, ui>>

\* All links visited: the message goes out with what was collected.
Broadcast(r) ==
    \E cur \in render[r] :
        /\ cur.left = {} /\ cur.miss = {}
        /\ view' = [view EXCEPT ![cur.host] = cur.block]
        /\ offered' = [offered EXCEPT ![cur.host] = @ \cup cur.block]
        /\ render' = [render EXCEPT ![r] = {}]
        /\ UNCHANGED <<table, fetch, waiters, renders>>

-----------------------------------------------------------------------------
(* The fetch goroutine                                                     *)

AcquireSem(f) ==
    /\ fetch[f].at = "queued"
    /\ Cardinality(Building) < Concurrency
    /\ fetch' = [fetch EXCEPT ![f].at = "building"]
    /\ UNCHANGED <<table, waiters, render, renders, ui>>

\* buildPreview returns (an empty entry on failure), the semaphore is released
\* and the entry published: done, not in flight, waiters taken, in one lock.
Publish(f) ==
    /\ fetch[f].at = "building"
    /\ \E k \in fetch[f].for, res \in {"ok", "empty"} :
        /\ prevDone' = [prevDone EXCEPT ![k] = res]
        /\ ClearInflight(k)
        /\ waiters' = [waiters EXCEPT ![f] = prevWait[k]]
        /\ TakeWaiters(k)
    /\ fetch' = [fetch EXCEPT ![f].at = "waking"]
    /\ UNCHANGED <<render, renders, ui>>

\* rebroadcastHost of the next waiter: nothing for a host without a cache row,
\* else it is rendered afresh.
Rebroadcast(f) ==
    /\ fetch[f].at = "waking" /\ render[f] = {}
    /\ \E h \in waiters[f] :
        /\ waiters' = [waiters EXCEPT ![f] = @ \ {h}]
        /\ render' = IF h \in Cached THEN [render EXCEPT ![f] = Begin(h)] ELSE render
    /\ UNCHANGED <<table, fetch, renders, ui>>

Init ==
    /\ prevDone = [k \in Targets |-> "none"]
    /\ prevInfl = {}
    /\ prevWait = [k \in Targets |-> {}]
    /\ fetch = [f \in Fetchers |-> [at |-> "unborn", for |-> {}]]
    /\ waiters = [f \in Fetchers |-> {}]
    /\ render = [r \in Renderers |-> {}]
    /\ renders = 0
    /\ view = [h \in Hosts |-> {}]
    /\ offered = [h \in Hosts |-> {}]

Render(r) == Lookup(r) \/ FetchAsync(r) \/ Broadcast(r)
Fetch(f) == AcquireSem(f) \/ Publish(f) \/ Rebroadcast(f)

Next ==
    \/ \E r \in Callers, h \in Hosts : StartRender(r, h)
    \/ \E r \in Renderers : Render(r)
    \/ \E f \in Fetchers : Fetch(f)

Spec == Init /\ [][Next]_vars

\* A goroutine that can run runs; buildPreview has an 8s deadline.  A queued
\* fetch gets the semaphore although others compete for it (a Go channel
\* queues its senders), hence strong fairness.
Fairness ==
    /\ \A r \in Renderers : WF_vars(Render(r))
    /\ \A f \in Fetchers :
        /\ SF_vars(AcquireSem(f))
        /\ WF_vars(Publish(f))
        /\ WF_vars(Rebroadcast(f))
FairSpec == Spec /\ Fairness

-----------------------------------------------------------------------------
(* Properties                                                              *)

TypeOK ==
    /\ prevDone \in [Targets -> {"none", "ok", "empty"}]
    /\ prevInfl \in SUBSET Targets
    /\ prevWait \in [Targets -> SUBSET Hosts]
    /\ fetch \in [Fetchers -> [at : {"unborn", "queued", "building", "waking"},
                               for : SUBSET Targets]]
    /\ waiters \in [Fetchers -> SUBSET Hosts]
    /\ render \in [Renderers -> SUBSET Rendering]
    /\ renders \in 0 .. MaxRenders
    /\ view \in [Hosts -> SUBSET Targets]
    /\ offered \in [Hosts -> SUBSET Targets]

\* Nobody waits for a fetch that is not running: a registered host is always
\* behind a fetch that will take it (permalink.go:136-162).
WaitersHaveFetch == \A k \in Targets : prevWait[k] # {} => Holders(k) # {}

\* Any number of hosts and renderings share one fetch per link.
SingleFlight == \A k \in Targets : \A f, g \in Holders(k) : f = g

\* Together: whoever waits for a link is behind the one fetch under way for it,
\* however lookups, registrations and publications of fetches interleave.
OneFetchServesAll == WaitersHaveFetch /\ SingleFlight

\* A cached host that waits for a link is broadcast with its preview, if the
\* link resolves (permalink.go:76-80).
WaiterIsServed ==
    \A h \in Cached, k \in Targets :
        h \in prevWait[k] ~> (k \in offered[h] \/ prevDone[k] = "empty")
=============================================================================
