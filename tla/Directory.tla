------------------------------- MODULE Directory -------------------------------
(***************************************************************************)
(* Channels and the people in them: which channels the daemon knows        *)
(* (w.chans, d.idIndex), how one joins them while it runs (joinChannel,    *)
(* registerChannel, openDM), the names of people who are not in the        *)
(* directory (resolveUnknownUsers), and the list the client is sent        *)
(* (sendChannels).                                                         *)
(*                                                                         *)
(* The maps are copied, extended and assigned by several goroutines with   *)
(* no lock; names are merged under one.  A list is read and then written.  *)
(***************************************************************************)
EXTENDS Naturals, FiniteSets

CONSTANTS
    DirChannels, DirDms,     \* channels, and those that are direct messages
    Known,             \* in the listing at startup
    Active,            \* those with messages or a read mark
    Counterpart,              \* [Dms -> users]: the counterpart
    Tasks,             \* goroutines: [kind : join/event/dm, channel : Channels]
    Resolvers,         \* goroutines that look names up
    MaxTasks,          \* bound: channels joined, opened or announced
    MaxLookups         \* bound: lookups of names

ASSUME DirectoryAssumption ==
    /\ DirDms \cup Known \cup Active \subseteq DirChannels
    /\ Tasks \subseteq [kind : {"join", "event", "dm"}, channel : DirChannels]
    /\ \A t \in Tasks : t.kind = "join" => t.channel \notin DirDms
    /\ {MaxTasks, MaxLookups} \subseteq Nat

VARIABLES
    chans, channelIndex,  \* the maps
    force,         \* forceDM
    names, miss,   \* users with a name; userMiss
    unlisted,      \* history: names learned for a message's author since a list was read
    task,          \* what a task is at, and what it has copied or read
    lookup,        \* what a resolver is at
    listed,        \* the client's list: channels with "name" or "raw" as title
    lists,         \* lists read so far; the one the client has
    crossed,       \* history: two tasks copied the maps at once, or lists crossed
    unfound,       \* history: a channel the client was told to open and did not know
    begun, looked

mapVars == <<chans, channelIndex>>
nameVars == <<names, miss, unlisted>>
dirListVars == <<listed, lists, crossed, unfound>>
directoryVars == <<mapVars, force, nameVars, task, lookup, dirListVars, begun, looked>>

Idle == [at |-> "idle"]
DirUsers == {Counterpart[c] : c \in DirDms}
Runners == Tasks \cup Resolvers

\* --- defective variants, for mutation runs ---
\* openDM relies on registerChannel to send the list
Pushes_UnlessKnown(t) == t.channel \notin chans
\* names are merged with the directory as it was when the lookup began
Merged_Stale(l) == lookup[l].names \cup lookup[l].got

-----------------------------------------------------------------------------
(* sendChannels                                                            *)

\* A direct message nobody has opened is left out.
Visible(c) == c \in DirDms => c \in Active \cup force
Title(c, known) == IF c \in DirDms /\ Counterpart[c] \notin known THEN "raw" ELSE "name"
ListWith(known) ==
    {[channel |-> c, title |-> Title(c, known)] : c \in {d \in chans : Visible(d)}}
List == ListWith(names)
NeedResolve == {Counterpart[c] : c \in {d \in chans \cap DirDms : Visible(d)}} \ (names \cup miss)

ReadList == [at |-> "list", list |-> List, nth |-> lists.read + 1]
CountList == lists' = [lists EXCEPT !.read = @ + 1] /\ unlisted' = {}

\* A list of someone without a name starts a lookup that sends the list again.
LookUp(users, pushes) ==
    [at |-> "lookup", todo |-> users, names |-> names, pushes |-> pushes]
StartResolve ==
    IF NeedResolve = {} \/ looked = MaxLookups \/ {r \in Resolvers : lookup[r] = Idle} = {}
    THEN UNCHANGED <<lookup, looked>>
    ELSE /\ looked' = looked + 1
         /\ \E r \in Resolvers :
              /\ lookup[r] = Idle
              /\ lookup' = [lookup EXCEPT ![r] = LookUp(NeedResolve, TRUE)]

Shown(l) ==
    /\ listed' = l.list
    /\ lists' = [lists EXCEPT !.shown = l.nth]
    /\ crossed' = (crossed \/ l.nth < lists.shown)

-----------------------------------------------------------------------------
(* joinChannel, registerChannel, openDM                                    *)

Registers(t) == IF t.kind = "join" THEN TRUE ELSE t.channel \notin chans
Pushes(t) == TRUE

\* The call to Slack has been made; a DM is forced into the list.  A channel that is
\* known is not registered again.
BeginLookup(t) ==
    /\ task[t] = Idle /\ begun < MaxTasks /\ begun' = begun + 1
    /\ force' = IF t.kind = "dm" THEN force \cup {t.channel} ELSE force
    /\ \/ /\ Registers(t) /\ task' = [task EXCEPT ![t] = [at |-> "copy", chans |-> chans]]
       \/ /\ ~Registers(t) /\ t.kind = "dm" /\ Pushes(t)
          /\ task' = [task EXCEPT ![t] = [at |-> "push"]]
       \/ /\ ~Registers(t) /\ t.kind = "dm" /\ ~Pushes(t)
          /\ task' = [task EXCEPT ![t] = [at |-> "open"]]
    /\ UNCHANGED <<mapVars, nameVars, lookup, dirListVars, looked>>

CopyIndex(t) ==
    /\ task[t].at = "copy"
    /\ task' = [task EXCEPT ![t] = [at |-> "assign", chans |-> @.chans, index |-> channelIndex]]
    /\ UNCHANGED <<mapVars, force, nameVars, lookup, dirListVars, begun, looked>>

\* The second assignment loses what the first has added.
Assign(t) ==
    /\ task[t].at = "assign"
    /\ chans' = task[t].chans \cup {t.channel} /\ channelIndex' = task[t].index \cup {t.channel}
    /\ crossed' = (crossed \/ task[t].chans # chans \/ task[t].index # channelIndex)
    /\ task' = [task EXCEPT ![t] = [at |-> "push"]]
    /\ UNCHANGED <<force, nameVars, lookup, listed, lists, unfound, begun, looked>>

PushList(t) ==
    /\ task[t].at = "push" /\ task' = [task EXCEPT ![t] = ReadList]
    /\ CountList /\ StartResolve
    /\ UNCHANGED <<mapVars, force, names, miss, listed, crossed, unfound, begun>>

WriteList(t) ==
    /\ task[t].at = "list" /\ Shown(task[t])
    /\ task' = [task EXCEPT ![t] = IF t.kind = "event" THEN Idle ELSE [at |-> "open"]]
    /\ UNCHANGED <<mapVars, force, nameVars, lookup, unfound, begun, looked>>

\* join and openDM: the client selects the channel, if its list has it.
Open(t) ==
    /\ task[t].at = "open" /\ task' = [task EXCEPT ![t] = Idle]
    /\ unfound' = IF \E e \in listed : e.channel = t.channel THEN unfound
                  ELSE unfound \cup {t.channel}
    /\ UNCHANGED <<mapVars, force, nameVars, lookup, listed, lists, crossed, begun, looked>>

-----------------------------------------------------------------------------
(* resolveUnknownUsers                                                     *)

\* The lookups that were answered in 5s: a name, or none.  The rest is asked again by
\* the next list.
Answer(r) ==
    /\ lookup[r].at = "lookup"
    /\ \E got \in SUBSET lookup[r].todo : \E none \in SUBSET (lookup[r].todo \ got) :
         lookup' = [lookup EXCEPT ![r] =
            [at |-> "merge", got |-> got, none |-> none, names |-> @.names, pushes |-> @.pushes]]
    /\ UNCHANGED <<mapVars, force, nameVars, task, dirListVars, begun, looked>>

Merged(r) == names \cup lookup[r].got

Merge(r) ==
    /\ lookup[r].at = "merge"
    /\ names' = Merged(r) /\ miss' = miss \cup lookup[r].none
    /\ \/ /\ lookup[r].pushes /\ lookup' = [lookup EXCEPT ![r] = [at |-> "push"]]
          /\ UNCHANGED unlisted
       \/ /\ ~lookup[r].pushes /\ lookup' = [lookup EXCEPT ![r] = Idle]
          /\ unlisted' = unlisted \cup (lookup[r].got \ names)
    /\ UNCHANGED <<mapVars, force, task, dirListVars, begun, looked>>

\* refreshChannels: the list once more, which may ask again for those left.
RefreshRead(r) ==
    /\ lookup[r].at = "push" /\ CountList
    /\ lookup' = [lookup EXCEPT ![r] = ReadList]
    /\ UNCHANGED <<mapVars, force, names, miss, task, listed, crossed, unfound, begun, looked>>

RefreshWrite(r) ==
    /\ lookup[r].at = "list" /\ Shown(lookup[r])
    /\ IF NeedResolve = {} \/ looked = MaxLookups
       THEN lookup' = [lookup EXCEPT ![r] = Idle] /\ UNCHANGED looked
       ELSE /\ lookup' = [lookup EXCEPT ![r] = LookUp(NeedResolve, TRUE)]
            /\ looked' = looked + 1
    /\ UNCHANGED <<mapVars, force, nameVars, task, unfound, begun>>

\* An author of a message is looked up before it is rendered: by a page
\* (resolveMsgAuthors), the poll loop, a live edit or a permalink's preview.  No list is
\* sent for it.
ResolveAuthors(r, u) ==
    /\ lookup[r] = Idle /\ u \notin names \cup miss
    /\ looked < MaxLookups /\ looked' = looked + 1
    /\ lookup' = [lookup EXCEPT ![r] = LookUp({u}, FALSE)]
    /\ UNCHANGED <<mapVars, force, nameVars, task, dirListVars, begun>>

-----------------------------------------------------------------------------
\* addWorkspace: the listing; the client has been sent it.
DirectoryInit ==
    /\ chans = Known /\ channelIndex = Known /\ force = {}
    /\ names = {} /\ miss = {} /\ unlisted = {}
    /\ task = [t \in Tasks |-> Idle] /\ lookup = [r \in Resolvers |-> Idle]
    /\ listed = List /\ lists = [read |-> 0, shown |-> 0]
    /\ crossed = FALSE /\ unfound = {} /\ begun = 0 /\ looked = 0

DirectoryNext ==
    \/ \E t \in Tasks : BeginLookup(t) \/ CopyIndex(t) \/ Assign(t) \/ PushList(t)
                        \/ WriteList(t) \/ Open(t)
    \/ \E r \in Resolvers :
         \/ Answer(r) \/ Merge(r) \/ RefreshRead(r) \/ RefreshWrite(r)
         \/ \E u \in DirUsers : ResolveAuthors(r, u)

DirectorySpec == DirectoryInit /\ [][DirectoryNext]_directoryVars

-----------------------------------------------------------------------------
(* Properties                                                              *)

DirectoryTypeOK ==
    /\ chans \cup channelIndex \cup force \cup unfound \subseteq DirChannels
    /\ names \cup miss \cup unlisted \subseteq DirUsers /\ crossed \in BOOLEAN
    /\ \A e \in listed : e.channel \in DirChannels /\ e.title \in {"raw", "name"}

\* When nothing is under way the client's list is the daemon's, names included, and
\* every channel it was told to open was in it (cache_render.go:905-913,
\* main.go:1397-1418).  Two cases are left out.  A name learned for a message's author
\* after the last list was read keeps its raw title, as that lookup sends no list
\* (main.go:1254, wshandler.go:64, cache_render.go:172-180).  Nothing is said once two
\* registrations copied the maps at a time or an older list was written last: then a
\* channel may be lost and the list be stale.
ListIsCurrent ==
    /\ ~crossed => unfound = {}
    /\ ((\A t \in Tasks : task[t] = Idle) /\ (\A r \in Resolvers : lookup[r] = Idle)
        /\ ~crossed) => listed = ListWith(names \ unlisted)

\* A name once learned is not lost to a lookup that began before
\* (cache_render.go:152-166).
NamesStay == [][names \subseteq names']_directoryVars
=============================================================================
