-------------------------------- MODULE Clients --------------------------------
(***************************************************************************)
(* The daemon's clients: the accept loop, readConn's end, broadcast and    *)
(* writeConn, sendChannels and the debounced refreshChannels, the update   *)
(* check and the notification clicks (main.go, cache_render.go).           *)
(*                                                                         *)
(* A connection is registered, told what the daemon knows and then sent    *)
(* the channel list by a goroutine of its own; refreshes send the list to  *)
(* everybody from other goroutines.  A click opens its target in a         *)
(* connected client, or leaves it for the next list that is sent.  Every   *)
(* write is made under the daemon's mutex, one line at a time, and clients *)
(* are taken to read what they are sent.                                   *)
(***************************************************************************)
EXTENDS Naturals, Sequences, FiniteSets

CONSTANTS
    Conns,        \* connections, each made once
    Clicks,       \* clicks on notifications, each for a target of its own
    Checks,       \* update checks
    NoClient,
    MaxChanges,   \* bound: changes of what the list shows
    MaxRefreshes, \* bound: refreshes
    MaxRev        \* bound: revisions pushed; 0 is the one that runs

ASSUME ClientsAssumption ==
    /\ IsFiniteSet(Conns) /\ NoClient \notin Clicks \cup Conns
    /\ Conns \cap (1 .. MaxRefreshes) = {}
    /\ {MaxChanges, MaxRefreshes, MaxRev} \subseteq Nat

VARIABLES
    clientLink,         \* each connection: none, open, left (its client is gone), closed
    conns,        \* daemon.conns
    told,         \* what each connection was told: lists by version, opens, the update
    version,      \* what a list would show now
    timer,        \* threadsDirtyTimer is armed
    job,          \* goroutines in sendChannels: a connection's own, and refreshes
    pendingOpen,
    click,        \* where each click's goroutine is
    updEtag, updateEvent, check, head

clientListVars == <<version, timer, job>>
updateVars == <<updEtag, updateEvent, check, head>>
clientVars == <<clientLink, conns, told, clientListVars, pendingOpen, click, updateVars>>

Refreshes == 1 .. MaxRefreshes
Jobs == Conns \cup Refreshes
NoJob == [at |-> "none"]
Quiet == [lists |-> {}, opens |-> <<>>, update |-> FALSE]

\* --- defective variants, for mutation runs ---
\* a client is told of an update it connected too early for, or too late
Replay_Late(c) == FALSE
\* while a refresh is at work another one seems unnecessary
Armed_UnlessRefreshing == timer \/ \A r \in Refreshes : job[r] = NoJob
\* the target stays for the connection after this one
TakeOpen_Kept == pendingOpen

-----------------------------------------------------------------------------
(* Writing                                                                 *)

Heard(c) == clientLink[c] = "open"

\* A write to a connection whose client left fails: the line is lost.
Tell(c, field, value) ==
    told' = IF Heard(c) THEN [told EXCEPT ![c][field] = value] ELSE told

\* broadcast: heard[c] is what c has been told once it hears the line.  The
\* connections that cannot be written to are dropped.
Broadcast(heard) ==
    /\ told' = [c \in Conns |-> IF c \in conns /\ Heard(c) THEN heard[c] ELSE told[c]]
    /\ conns' = {c \in conns : Heard(c)}
    /\ clientLink' = [c \in Conns |-> IF c \in conns /\ ~Heard(c) THEN "closed" ELSE clientLink[c]]

-----------------------------------------------------------------------------
(* Connections                                                             *)

\* The update a new connection is told of is read together with its registration.
Replay(c) == updateEvent # 0

Accept(c) ==
    /\ clientLink[c] = "none"
    /\ clientLink' = [clientLink EXCEPT ![c] = "open"]
    /\ conns' = conns \cup {c}
    /\ told' = [told EXCEPT ![c].update = Replay(c)]
    /\ job' = [job EXCEPT ![c] = [at |-> "build", to |-> c, rest |-> {}]]
    /\ UNCHANGED <<version, timer, pendingOpen, click, updateVars>>

Leave(c) ==
    /\ clientLink[c] = "open" /\ clientLink' = [clientLink EXCEPT ![c] = "left"]
    /\ UNCHANGED <<conns, told, clientListVars, pendingOpen, click, updateVars>>

\* readConn comes to the end of its input.
ReadEnds(c) ==
    /\ clientLink[c] = "left" /\ clientLink' = [clientLink EXCEPT ![c] = "closed"]
    /\ conns' = conns \ {c}
    /\ UNCHANGED <<told, clientListVars, pendingOpen, click, updateVars>>

-----------------------------------------------------------------------------
(* The channel list                                                        *)

\* The timer starts again, armed or not.
Armed == TRUE

\* A thread event is written to the cache, then markThreadsDirty is called.
MarkThreadsDirty ==
    /\ version < MaxChanges /\ version' = version + 1
    /\ timer' = Armed
    /\ UNCHANGED <<clientLink, conns, told, job, pendingOpen, click, updateVars>>

\* refreshChannels: the connections are copied, then served one after the other.
NextOf(rest) ==
    IF rest = {} THEN {NoJob}
    ELSE {[at |-> "build", to |-> c, rest |-> rest \ {c}] : c \in rest}

RefreshChannels(r) ==
    /\ timer /\ job[r] = NoJob
    /\ timer' = FALSE
    /\ \E j \in NextOf(conns) : job' = [job EXCEPT ![r] = j]
    /\ UNCHANGED <<clientLink, conns, told, version, pendingOpen, click, updateVars>>

\* sendChannels reads the cache, and writes what it read later.
Build(j) ==
    /\ job[j].at = "build"
    /\ job' = [job EXCEPT ![j] = [at |-> "write", to |-> @.to, rest |-> @.rest,
                                  list |-> version]]
    /\ UNCHANGED <<clientLink, conns, told, version, timer, pendingOpen, click, updateVars>>

Write(j) ==
    /\ job[j].at = "write"
    /\ Tell(job[j].to, "lists", told[job[j].to].lists \cup {job[j].list})
    /\ job' = [job EXCEPT ![j] = [at |-> "open", to |-> @.to, rest |-> @.rest]]
    /\ UNCHANGED <<clientLink, conns, version, timer, pendingOpen, click, updateVars>>

\* A target left by a click is taken after the list, and by one list only.
TakeOpen == NoClient

OpenPending(j) ==
    /\ job[j].at = "open"
    /\ pendingOpen' = TakeOpen
    /\ IF pendingOpen = NoClient THEN UNCHANGED told
       ELSE Tell(job[j].to, "opens", Append(told[job[j].to].opens, pendingOpen))
    /\ \E next \in NextOf(job[j].rest) : job' = [job EXCEPT ![j] = next]
    /\ UNCHANGED <<clientLink, conns, version, timer, click, updateVars>>

-----------------------------------------------------------------------------
(* Clicks on notifications                                                 *)

\* onNotifActivate: is anybody connected?
OnNotifActivate(k) ==
    /\ click[k] = "none"
    /\ click' = [click EXCEPT ![k] = IF conns # {} THEN "broadcast" ELSE "stash"]
    /\ UNCHANGED <<clientLink, conns, told, clientListVars, pendingOpen, updateVars>>

BroadcastOpen(k) ==
    /\ click[k] = "broadcast" /\ click' = [click EXCEPT ![k] = "done"]
    /\ Broadcast([c \in Conns |-> [told[c] EXCEPT !.opens = Append(@, k)]])
    /\ UNCHANGED <<clientListVars, pendingOpen, updateVars>>

\* The last target left wins, and a client is launched.
Stash(k) ==
    /\ click[k] = "stash" /\ click' = [click EXCEPT ![k] = "done"]
    /\ pendingOpen' = k
    /\ UNCHANGED <<clientLink, conns, told, clientListVars, updateVars>>

-----------------------------------------------------------------------------
(* Updates                                                                 *)

Push ==
    /\ head < MaxRev /\ head' = head + 1
    /\ UNCHANGED <<clientLink, conns, told, clientListVars, pendingOpen, click, updEtag, updateEvent, check>>

\* The answer is 304 when the tag is that of the head.  Otherwise the tag is kept
\* before the revision is read, which may fail.
CheckUpdate(u) ==
    /\ check[u] = [at |-> "idle", rev |-> 0] /\ head # updEtag
    /\ \/ /\ updEtag' = head
          /\ \E rev \in {0, head} :
               check' = [check EXCEPT ![u] = [at |-> IF rev = 0 THEN "done" ELSE "changelog",
                                              rev |-> rev]]
       \/ check' = [check EXCEPT ![u].at = "done"] /\ UNCHANGED updEtag
    /\ UNCHANGED <<clientLink, conns, told, clientListVars, pendingOpen, click, updateEvent, head>>

\* fetchChangelog takes as long as it takes; it has no say in the rest.
SetUpdateEvent(u) ==
    /\ check[u].at = "changelog" /\ check' = [check EXCEPT ![u].at = "tell"]
    /\ updateEvent' = check[u].rev
    /\ UNCHANGED <<clientLink, conns, told, clientListVars, pendingOpen, click, updEtag, head>>

BroadcastUpdate(u) ==
    /\ check[u].at = "tell" /\ check' = [check EXCEPT ![u].at = "done"]
    /\ Broadcast([c \in Conns |-> [told[c] EXCEPT !.update = TRUE]])
    /\ UNCHANGED <<clientListVars, pendingOpen, click, updEtag, updateEvent, head>>

-----------------------------------------------------------------------------
ClientsInit ==
    /\ clientLink = [c \in Conns |-> "none"] /\ conns = {}
    /\ told = [c \in Conns |-> Quiet]
    /\ version = 0 /\ timer = FALSE /\ job = [j \in Jobs |-> NoJob]
    /\ pendingOpen = NoClient /\ click = [k \in Clicks |-> "none"]
    /\ updEtag = 0 /\ updateEvent = 0 /\ head = 0
    /\ check = [u \in Checks |-> [at |-> "idle", rev |-> 0]]

ClientsNext ==
    \/ \E c \in Conns : Accept(c) \/ Leave(c) \/ ReadEnds(c)
    \/ MarkThreadsDirty
    \/ \E r \in Refreshes : RefreshChannels(r)
    \/ \E j \in Jobs : Build(j) \/ Write(j) \/ OpenPending(j)
    \/ \E k \in Clicks : OnNotifActivate(k) \/ BroadcastOpen(k) \/ Stash(k)
    \/ Push
    \/ \E u \in Checks : CheckUpdate(u) \/ SetUpdateEvent(u) \/ BroadcastUpdate(u)

ClientsSpec == ClientsInit /\ [][ClientsNext]_clientVars

-----------------------------------------------------------------------------
(* Properties                                                              *)

ClientsTypeOK ==
    /\ clientLink \in [Conns -> {"none", "open", "left", "closed"}] /\ conns \subseteq Conns
    /\ told \in [Conns -> [lists : SUBSET Nat, opens : Seq(Clicks), update : BOOLEAN]]
    /\ version \in 0 .. MaxChanges /\ timer \in BOOLEAN
    /\ \A j \in Jobs : job[j] = NoJob \/ (job[j].to \in Conns /\ job[j].rest \subseteq Conns)
    /\ pendingOpen \in Clicks \cup {NoClient}
    /\ click \in [Clicks -> {"none", "broadcast", "stash", "done"}]
    /\ updEtag \in 0 .. MaxRev /\ updateEvent \in 0 .. MaxRev /\ head \in 0 .. MaxRev
    /\ check \in [Checks -> [at : {"idle", "changelog", "tell", "done"}, rev : 0 .. MaxRev]]

\* Once an update has been announced every client knows of it, whenever it
\* connected (main.go:2692-2702, 1118-1122).
EveryoneKnows ==
    (updateEvent # 0 /\ \A u \in Checks : check[u].at # "tell") =>
        \A c \in conns : Heard(c) => told[c].update

\* When the timer is off and no list is under way, every client has been sent one
\* that shows the last change, however the changes fell on the timer, on other
\* refreshes and on new connections (main.go:2517-2543).
ListsCatchUp ==
    (~timer /\ \A j \in Jobs : job[j] = NoJob) =>
        \A c \in conns : Heard(c) => version \in told[c].lists

\* A target is opened once by a client, and a target left for the next client at
\* most once by all of them (cache_render.go:943-951).
OpensOnce ==
    \A k \in Clicks :
        LET times(c) == Cardinality({i \in DOMAIN told[c].opens : told[c].opens[i] = k})
        IN /\ \A c \in Conns : times(c) <= 1
           /\ pendingOpen = k => \A c \in Conns : times(c) = 0

\* Clients are told: of an announced update whenever they connect (main.go:2692-2702),
\* of the last change of the channels (main.go:2517-2543), and of a target to open
\* once (cache_render.go:943-951).
ClientsAreTold == EveryoneKnows /\ ListsCatchUp /\ OpensOnce
=============================================================================
