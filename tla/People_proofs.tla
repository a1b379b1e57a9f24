---------------------------- MODULE People_proofs -----------------------------
(***************************************************************************)
(* Proofs about People (its two components, and both together) and         *)
(* Session.                                                                *)
(***************************************************************************)
EXTENDS People, Session, EventRuns, SequenceTheorems, TLAPS

-----------------------------------------------------------------------------
(* Membership                                                              *)

MemberMove == [user : Members, joins : BOOLEAN]
MemberSets == SUBSET Members
Busy(f) == fetcher[f].at \in {"fetch", "replaced"}

MembershipTyped ==
    /\ inside \in MemberSets /\ table \in MemberSets
    /\ memory = NotLoaded \/ memory \in MemberSets
    /\ memberMoves \in Seq(MemberMove)
    /\ applying \in Seq(MemberMove)
    /\ meta \in BOOLEAN /\ fetching \in BOOLEAN /\ recent \in BOOLEAN /\ passed \in BOOLEAN
    /\ fetcher \in [Fetchers -> [at : {"rest", "stale"}]
                                \cup [at : {"fetch", "replaced"}, got : MemberSets]]

\* The sentinel is there while a goroutine fetches, and then one does; a fetch that ended
\* well keeps the next from starting.
OneFetches ==
    /\ \A f, g \in Fetchers : Busy(f) /\ Busy(g) => f = g
    /\ fetching <=> \E f \in Fetchers : Busy(f)
    /\ fetching => ~ recent
    /\ since \in {0, 1} /\ (since = 1 => fetching \/ recent)

\* What an event does to a member set.
MemberSteps ==
    {step \in MemberSets \X MemberMove \X MemberSets : step[3] = WithMember(step[1], step[2])}

\* Unless a fetch and an event passed each other, what is being fetched is Slack's set, no
\* event is on its way meanwhile, and a table that was fetched is behind Slack by those
\* that are.
TableBehind ==
    ~ passed =>
        /\ \A f \in Fetchers :
              Busy(f) => fetcher[f].got = inside /\ memberMoves = <<>> /\ applying = <<>>
        /\ meta => Leads(memberMoves, MemberSteps, MemberSets, table, inside)

MembershipInv == MembershipTyped /\ OneFetches /\ TableBehind

LEMMA MoveKeeps ==
    ASSUME MembershipInv, NEW u \in Members, Move(u)
    PROVE  MembershipInv'
<1> DEFINE e == [user |-> u, joins |-> u \notin inside]
<1>1. e \in MemberMove /\ memberMoves' = Append(memberMoves, e)
    BY DEF MemberMove, Move
<1>2. inside' \in MemberSets /\ inside' = WithMember(inside, e) /\ inside \in MemberSets
    BY DEF Move, MembershipInv, MembershipTyped, MemberSets, WithMember
<1> HIDE DEF e
<1>3. UNCHANGED <<table, meta, memory, applying, fetching, recent, fetcher, since>>
    BY DEF Move, diskState, managerState
<1>4. passed' = (passed \/ \E f \in Fetchers : Busy(f))
    BY DEF Move, Busy
<1>5. MembershipTyped' /\ OneFetches'
    BY <1>1, <1>2, <1>3, <1>4 DEF MembershipInv, MembershipTyped, OneFetches, Busy
<1>6. ASSUME ~ passed', meta
      PROVE  Leads(memberMoves, MemberSteps, MemberSets, table, inside)'
  <2>1. Leads(memberMoves, MemberSteps, MemberSets, table, inside)
      BY <1>4, <1>6 DEF MembershipInv, TableBehind
  <2>2. <<inside, e, inside'>> \in MemberSteps
      BY <1>1, <1>2 DEF MemberSteps
  <2>3. Leads(Append(memberMoves, e), MemberSteps, MemberSets, table, inside')
      BY <1>1, <1>2, <2>1, <2>2, LeadsFurther DEF MembershipInv, MembershipTyped
  <2> QED
      BY <1>1, <1>3, <2>3
<1>7. TableBehind'
    BY <1>3, <1>4, <1>6 DEF TableBehind, Busy
<1> QED
    BY <1>5, <1>7 DEF MembershipInv

LEMMA StaleKeeps ==
    ASSUME MembershipInv, ForceStale
    PROVE  MembershipInv'
<1>1. MembershipTyped'
    BY DEF ForceStale, MembershipInv, MembershipTyped
<1>2. OneFetches'
    BY DEF ForceStale, MembershipInv, OneFetches, Busy
<1>3. TableBehind'
    BY DEF ForceStale, MembershipInv, TableBehind, Busy
<1> QED
    BY <1>1, <1>2, <1>3 DEF MembershipInv

LEMMA StartMembersKeeps ==
    ASSUME MembershipInv, StartMembers
    PROVE  MembershipInv'
<1>1. \A f \in Fetchers : fetcher'[f] = MembershipRests
    BY DEF StartMembers
<1>2. \A f \in Fetchers : ~ Busy(f)'
    BY <1>1 DEF Busy, MembershipRests
<1>3. MembershipTyped'
  <2>1. <<>> \in Seq(MemberMove)
      OBVIOUS
  <2> QED
      BY <2>1 DEF StartMembers, MembershipInv, MembershipTyped, MembershipRests, diskState
<1>4. OneFetches'
    BY <1>2 DEF StartMembers, OneFetches
<1>5. ASSUME ~ passed', meta'
      PROVE  Leads(memberMoves, MemberSteps, MemberSets, table, inside)'
  <2>1. memberMoves = <<>> /\ memberMoves' = <<>> /\ UNCHANGED <<inside, table>>
      BY <1>5 DEF StartMembers, diskState
  <2>2. Leads(memberMoves, MemberSteps, MemberSets, table, inside)
      BY <1>5 DEF StartMembers, diskState, MembershipInv, TableBehind
  <2> QED
      BY <2>1, <2>2
<1>6. TableBehind'
    BY <1>2, <1>5 DEF TableBehind
<1> QED
    BY <1>3, <1>4, <1>6 DEF MembershipInv

LEMMA EnsureFreshKeeps ==
    ASSUME MembershipInv, NEW f \in Fetchers, EnsureFresh(f)
    PROVE  MembershipInv'
<1>1. \A g \in Fetchers : Busy(g)' <=> Busy(g)
    BY DEF EnsureFresh, MembershipInv, MembershipTyped, MembershipRests, Busy
<1>2. \A g \in Fetchers : Busy(g) => fetcher'[g] = fetcher[g]
    BY DEF EnsureFresh, MembershipInv, MembershipTyped, MembershipRests, Busy
<1>3. MembershipTyped'
    BY DEF EnsureFresh, MembershipInv, MembershipTyped, diskState
<1>4. OneFetches'
    BY <1>1 DEF EnsureFresh, MembershipInv, OneFetches
<1>5. TableBehind'
    BY <1>1, <1>2 DEF EnsureFresh, MembershipInv, TableBehind, diskState
<1> QED
    BY <1>3, <1>4, <1>5 DEF MembershipInv

LEMMA BackgroundFetchKeeps ==
    ASSUME MembershipInv, NEW f \in Fetchers, BackgroundFetch(f)
    PROVE  MembershipInv'
<1>1. UNCHANGED <<inside, memberMoves, table, meta, memory, applying, recent>>
    BY DEF BackgroundFetch, diskState
<1>2. CASE MayFetch
  <2>1. /\ fetching' = TRUE /\ since' = since + 1
        /\ passed' = (passed \/ memberMoves # <<>> \/ applying # <<>>)
        /\ fetcher' = [fetcher EXCEPT ![f] = [at |-> "fetch", got |-> inside]]
      BY <1>2 DEF BackgroundFetch
  <2>2. /\ fetcher'[f].at = "fetch" /\ fetcher'[f].got = inside
        /\ \A g \in Fetchers \ {f} : fetcher'[g] = fetcher[g]
      BY <2>1 DEF MembershipInv, MembershipTyped
  <2>3. \A g \in Fetchers : Busy(g)' <=> g = f
      BY <1>2, <2>2 DEF MayFetch, MembershipInv, OneFetches, Busy
  <2>4. MembershipTyped'
      BY <1>1, <2>1 DEF MembershipInv, MembershipTyped
  <2>5. OneFetches'
      BY <1>1, <1>2, <2>1, <2>3 DEF MayFetch, MembershipInv, OneFetches
  <2>6. TableBehind'
      BY <1>1, <2>1, <2>2, <2>3 DEF MembershipInv, TableBehind
  <2> QED
      BY <2>4, <2>5, <2>6 DEF MembershipInv
<1>3. CASE ~ MayFetch
  <2>1. fetcher' = [fetcher EXCEPT ![f] = MembershipRests] /\ UNCHANGED <<fetching, since, passed>>
      BY <1>3 DEF BackgroundFetch
  <2>2. \A g \in Fetchers : (Busy(g)' <=> Busy(g)) /\ (Busy(g) => fetcher'[g] = fetcher[g])
      BY <2>1 DEF BackgroundFetch, MembershipInv, MembershipTyped, Busy, MembershipRests
  <2>3. MembershipTyped'
      BY <1>1, <2>1 DEF MembershipInv, MembershipTyped, MembershipRests
  <2>4. OneFetches'
      BY <1>1, <2>1, <2>2 DEF MembershipInv, OneFetches
  <2>5. TableBehind'
      BY <1>1, <2>1, <2>2 DEF MembershipInv, TableBehind
  <2> QED
      BY <2>3, <2>4, <2>5 DEF MembershipInv
<1> QED
    BY <1>2, <1>3

\* A fetch that ends, in one way or the other, was the one there is.
LEMMA FetchEnds ==
    ASSUME MembershipInv, NEW f \in Fetchers, Busy(f),
           fetcher' = [fetcher EXCEPT ![f] = MembershipRests]
    PROVE  /\ \A g \in Fetchers : ~ Busy(g)'
           /\ fetcher' \in [Fetchers -> [at : {"rest", "stale"}]
                                \cup [at : {"fetch", "replaced"}, got : MemberSets]]
<1>1. \A g \in Fetchers : fetcher'[g] = IF g = f THEN MembershipRests ELSE fetcher[g]
    BY DEF MembershipInv, MembershipTyped
<1> QED
    BY <1>1 DEF MembershipInv, MembershipTyped, OneFetches, Busy, MembershipRests

LEMMA FetchFailsKeeps ==
    ASSUME MembershipInv, NEW f \in Fetchers, FetchFails(f)
    PROVE  MembershipInv'
<1>1. /\ UNCHANGED <<inside, memberMoves, table, meta, memory, applying, recent, passed>>
      /\ Busy(f) /\ fetching' = FALSE
      /\ fetcher' = [fetcher EXCEPT ![f] = MembershipRests]
    BY DEF FetchFails, Busy, diskState
<1>2. fetching /\ ~ recent
    BY <1>1 DEF MembershipInv, OneFetches
<1>3. since' = 0
    BY DEF FetchFails, MembershipInv, OneFetches
<1>4. MembershipTyped'
    BY <1>1, FetchEnds DEF MembershipInv, MembershipTyped
<1>5. (\A g \in Fetchers : ~ Busy(g)') /\ recent' = FALSE
    BY <1>1, <1>2, FetchEnds DEF MembershipInv, MembershipTyped
<1>6. OneFetches'
    BY <1>1, <1>3, <1>5 DEF OneFetches
<1>7. TableBehind'
    BY <1>1, <1>5 DEF MembershipInv, TableBehind
<1> QED
    BY <1>4, <1>6, <1>7 DEF MembershipInv

LEMMA ReplaceKeeps ==
    ASSUME MembershipInv, NEW f \in Fetchers, ReplaceChannelMembers(f)
    PROVE  MembershipInv'
<1>1. /\ UNCHANGED <<inside, memberMoves, memory, applying, fetching, recent, since, passed>>
      /\ Busy(f) /\ table' = fetcher[f].got /\ meta' = TRUE
    BY DEF ReplaceChannelMembers, Busy, managerState
<1>2. fetcher[f].got \in MemberSets /\ fetcher[f] \in [at : {"fetch", "replaced"}, got : MemberSets]
    BY <1>1 DEF MembershipInv, MembershipTyped, Busy
<1>3. \A g \in Fetchers : fetcher'[g] = IF g = f THEN [at |-> "replaced", got |-> fetcher[f].got]
                                        ELSE fetcher[g]
    BY <1>2 DEF ReplaceChannelMembers, MembershipInv, MembershipTyped
<1>4. fetcher' \in [Fetchers -> [at : {"rest", "stale"}]
                                \cup [at : {"fetch", "replaced"}, got : MemberSets]]
  <2>1. fetcher' = [g \in Fetchers |-> fetcher'[g]]
      BY DEF ReplaceChannelMembers, MembershipInv, MembershipTyped
  <2>2. \A g \in Fetchers : fetcher'[g] \in [at : {"rest", "stale"}]
                                \cup [at : {"fetch", "replaced"}, got : MemberSets]
      BY <1>2, <1>3 DEF MembershipInv, MembershipTyped
  <2> QED
      BY <2>1, <2>2
<1>5. \A g \in Fetchers : (Busy(g)' <=> Busy(g)) /\ fetcher'[g].got = fetcher[g].got
    BY <1>1, <1>3 DEF Busy
<1>6. MembershipTyped' /\ OneFetches'
    BY <1>1, <1>2, <1>4, <1>5 DEF MembershipInv, MembershipTyped, OneFetches
<1>7. ASSUME ~ passed
      PROVE  Leads(memberMoves, MemberSteps, MemberSets, table, inside)'
  <2>1. memberMoves' = <<>> /\ table' = inside'
      BY <1>1, <1>7 DEF MembershipInv, TableBehind
  <2>2. Leads(<<>>, MemberSteps, MemberSets, inside', inside')
      BY <1>1, NothingLeads DEF MembershipInv, MembershipTyped
  <2> QED
      BY <2>1, <2>2
<1>8. TableBehind'
    BY <1>1, <1>5, <1>7 DEF MembershipInv, TableBehind
<1> QED
    BY <1>6, <1>8 DEF MembershipInv

LEMMA SetMembersKeeps ==
    ASSUME MembershipInv, NEW f \in Fetchers, SetMembers(f)
    PROVE  MembershipInv'
<1>1. /\ UNCHANGED <<inside, memberMoves, table, meta, applying, passed>>
      /\ Busy(f) /\ fetching' = FALSE /\ recent' = TRUE /\ memory' = fetcher[f].got
      /\ fetcher' = [fetcher EXCEPT ![f] = MembershipRests]
    BY DEF SetMembers, Busy, diskState
<1>2. since' = 1
    BY DEF SetMembers, MembershipInv, OneFetches
<1>3. memory' \in MemberSets
    BY <1>1 DEF MembershipInv, MembershipTyped, Busy
<1>4. MembershipTyped'
    BY <1>1, <1>3, FetchEnds DEF MembershipInv, MembershipTyped
<1>5. OneFetches' /\ TableBehind'
    BY <1>1, <1>2, FetchEnds DEF MembershipInv, OneFetches, TableBehind
<1> QED
    BY <1>4, <1>5 DEF MembershipInv

LEMMA ApplyKeeps ==
    ASSUME MembershipInv, ApplyToTable \/ ApplyToMemory
    PROVE  MembershipInv'
<1>1. CASE ApplyToTable
  <2> DEFINE e == Head(memberMoves)
  <2>1. /\ e \in MemberMove /\ memberMoves # <<>> /\ memberMoves' = Tail(memberMoves)
        /\ applying' = <<e>> /\ table' = WithMember(table, e)
        /\ UNCHANGED <<inside, meta, memory, fetching, recent, fetcher, since, passed>>
      BY <1>1 DEF ApplyToTable, MembershipInv, MembershipTyped
  <2> HIDE DEF e
  <2>2. applying' \in Seq(MemberMove) /\ memberMoves' \in Seq(MemberMove)
      BY <2>1 DEF MembershipInv, MembershipTyped
  <2>3. table' \in MemberSets
      BY <2>1 DEF MembershipInv, MembershipTyped, WithMember, MemberMove, MemberSets
  <2>4. MembershipTyped' /\ OneFetches'
      BY <2>1, <2>2, <2>3 DEF MembershipInv, MembershipTyped, OneFetches, Busy
  <2>5. ASSUME ~ passed
        PROVE  (\A f \in Fetchers : ~ Busy(f))
               /\ (meta => Leads(memberMoves, MemberSteps, MemberSets, table, inside)')
    <3>1. \A f \in Fetchers : ~ Busy(f)
        BY <2>1, <2>5 DEF MembershipInv, TableBehind
    <3>2. ASSUME meta
          PROVE  Leads(memberMoves, MemberSteps, MemberSets, table, inside)'
      <4>1. PICK next \in MemberSets :
                /\ <<table, e, next>> \in MemberSteps
                /\ Leads(Tail(memberMoves), MemberSteps, MemberSets, next, inside)
          BY <2>1, <2>5, <3>2, LeadsOn DEF e, MembershipInv, MembershipTyped, TableBehind
      <4>2. next = table'
          BY <2>1, <4>1 DEF MemberSteps
      <4> QED
          BY <2>1, <4>1, <4>2
    <3> QED
        BY <3>1, <3>2
  <2>6. TableBehind'
      BY <2>1, <2>5 DEF TableBehind, Busy
  <2> QED
      BY <2>4, <2>6 DEF MembershipInv
<1>2. CASE ApplyToMemory
  <2>1. UNCHANGED <<inside, memberMoves, table, meta, fetching, recent, fetcher, since, passed>>
        /\ applying # <<>> /\ applying' = <<>>
      BY <1>2 DEF ApplyToMemory, diskState
  <2>2. applying[1] \in MemberMove
      BY <2>1 DEF MembershipInv, MembershipTyped
  <2>3. memory' = NotLoaded \/ memory' \in MemberSets
      BY <1>2, <2>2 DEF ApplyToMemory, MembershipInv, MembershipTyped, Loaded, WithMember,
         MemberMove, MemberSets
  <2>4. MembershipTyped' /\ OneFetches'
      BY <2>1, <2>3 DEF MembershipInv, MembershipTyped, OneFetches, Busy
  <2>5. TableBehind'
      BY <2>1 DEF MembershipInv, TableBehind, Busy
  <2> QED
      BY <2>4, <2>5 DEF MembershipInv
<1> QED
    BY <1>1, <1>2

\* One goroutine fetches while the sentinel is there, and a table that was fetched is
\* Slack's set but for the events on their way (manager.go:152-190).
THEOREM MembershipInvHolds == MembershipSpec => []MembershipInv
<1>1. MembershipInit => MembershipInv
  <2> SUFFICES ASSUME MembershipInit PROVE MembershipInv
      OBVIOUS
  <2>1. \A f \in Fetchers : fetcher[f] = MembershipRests /\ ~ Busy(f)
      BY DEF MembershipInit, MembershipRests, Busy
  <2>2. MembershipTyped
    <3>1. <<>> \in Seq(MemberMove) /\ {} \in MemberSets
        BY DEF MemberSets
    <3> QED
        BY <3>1 DEF MembershipInit, MembershipTyped, MembershipRests
  <2>3. OneFetches /\ TableBehind
      BY <2>1 DEF MembershipInit, OneFetches, TableBehind
  <2> QED
      BY <2>2, <2>3 DEF MembershipInv
<1>2. MembershipInv /\ [MembershipNext]_membershipVars => MembershipInv'
  <2> SUFFICES ASSUME MembershipInv, [MembershipNext]_membershipVars
               PROVE  MembershipInv'
      OBVIOUS
  <2>1. CASE UNCHANGED membershipVars
      BY <2>1 DEF membershipVars, diskState, managerState, MembershipInv, MembershipTyped,
         OneFetches, TableBehind, Busy
  <2> QED
      BY <2>1, MoveKeeps, StaleKeeps, StartMembersKeeps, EnsureFreshKeeps, BackgroundFetchKeeps,
         FetchFailsKeeps, ReplaceKeeps, SetMembersKeeps, ApplyKeeps DEF MembershipNext
<1> QED
    BY <1>1, <1>2, PTL DEF MembershipSpec

LEMMA MembershipFromInv ==
    ASSUME MembershipInv
    PROVE  MembershipTypeOK /\ FetchedOnce /\ MembersAgree
<1>1. MembershipTypeOK
    BY DEF MembershipInv, MembershipTyped, OneFetches, MembershipTypeOK, MemberSets, Loaded
<1>2. FetchedOnce
    BY DEF MembershipInv, OneFetches, FetchedOnce
<1>3. ASSUME meta, memberMoves = <<>>, ~ passed
      PROVE  table = inside
  <2>1. Leads(<<>>, MemberSteps, MemberSets, table, inside) /\ table \in MemberSets
      BY <1>3 DEF MembershipInv, TableBehind, MembershipTyped
  <2> QED
      BY <2>1, NothingLeads
<1> QED
    BY <1>1, <1>2, <1>3 DEF MembersAgree

-----------------------------------------------------------------------------
(* Directory                                                               *)

Entry == [channel : DirChannels, title : {"raw", "name"}]
HeldList == [at : {"list"}, list : SUBSET Entry, nth : Nat]
TaskState ==
    [at : {"idle", "push", "open"}] \cup HeldList
        \cup [at : {"copy"}, chans : SUBSET DirChannels]
        \cup [at : {"assign"}, chans : SUBSET DirChannels, index : SUBSET DirChannels]
LookupState ==
    [at : {"idle", "push"}] \cup HeldList
        \cup [at : {"lookup"}, todo : SUBSET DirUsers, names : SUBSET DirUsers, pushes : BOOLEAN]
        \cup [at : {"merge"}, got : SUBSET DirUsers, none : SUBSET DirUsers,
              names : SUBSET DirUsers, pushes : BOOLEAN]

DirTyped ==
    /\ chans \subseteq DirChannels /\ channelIndex \subseteq DirChannels
    /\ force \subseteq DirChannels /\ unfound \subseteq DirChannels
    /\ names \subseteq DirUsers /\ miss \subseteq DirUsers /\ unlisted \subseteq DirUsers
    /\ task \in [Tasks -> TaskState] /\ lookup \in [Resolvers -> LookupState]
    /\ \A t \in Tasks : t.kind = "event" => task[t].at # "open"
    /\ listed \subseteq Entry /\ lists \in [read : Nat, shown : Nat]
    /\ crossed \in BOOLEAN

\* The lists that were read and not yet written.
Held == {x \in {task[t] : t \in Tasks} \cup {lookup[r] : r \in Resolvers} : x.at = "list"}

HeldInOrder == lists.shown <= lists.read /\ \A x \in Held : x.nth <= lists.read

\* The list the client should have: names learned for an author since the last list was
\* read are not in it.
Due == ListWith(names \ unlisted)

\* A change of the maps or of the names that no list has yet: somebody is on the way to
\* read one.
Owed ==
    \/ \E t \in Tasks : task[t].at \in {"copy", "assign", "push"}
    \/ \E r \in Resolvers : lookup[r].at = "push"

\* Else the last list read is right, and shown or about to be.
LastIsRight ==
    ~ crossed /\ ~ Owed =>
        /\ \A x \in Held : x.nth = lists.read => x.list = Due
        /\ (lists.shown = lists.read /\ listed = Due) \/ \E x \in Held : x.nth = lists.read

Has(list, c) == \E e \in list : e.channel = c

\* The channel of a task that opens it is on its way into every list that can still be
\* shown before it is opened.
Reaches(t) ==
    /\ Visible(t.channel)
    /\ task[t].at \in {"push", "list", "open"} => t.channel \in chans
    /\ task[t].at = "list" =>
           \A x \in Held : x.nth >= task[t].nth => Has(x.list, t.channel)
    /\ task[t].at = "open" =>
           /\ Has(listed, t.channel)
           /\ \A x \in Held : x.nth >= lists.shown => Has(x.list, t.channel)

AllFound ==
    ~ crossed =>
        /\ unfound = {}
        /\ \A t \in Tasks : t.kind # "event" /\ task[t].at # "idle" => Reaches(t)

DirectoryInv == DirTyped /\ HeldInOrder /\ LastIsRight /\ AllFound

\* Lists are of the channels there are, with those one sees.
LEMMA ListTyped ==
    ASSUME DirTyped
    PROVE  /\ List \subseteq Entry
           /\ \A c \in chans : Visible(c) => Has(List, c)
<1>1. \A c \in DirChannels : Title(c, names) \in {"raw", "name"}
    BY DEF Title
<1>2. ASSUME NEW c \in chans, Visible(c)
      PROVE  Has(List, c)
  <2> DEFINE entry == [channel |-> c, title |-> Title(c, names)]
  <2>1. entry \in List /\ entry.channel = c
      BY <1>2 DEF List, ListWith
  <2> QED
      BY <2>1 DEF Has
<1> QED
    BY <1>1, <1>2 DEF DirTyped, List, ListWith, Entry

LEMMA ReadListTyped ==
    ASSUME DirectoryInv
    PROVE  /\ ReadList \in HeldList /\ ReadList.at = "list"
           /\ ReadList.list = List /\ ReadList.nth = lists.read + 1
BY ListTyped DEF DirectoryInv, DirTyped, ReadList, HeldList

LEMMA HeldTyped ==
    ASSUME DirTyped, NEW x \in Held
    PROVE  x \in HeldList
BY DEF DirTyped, Held, TaskState, LookupState, HeldList

\* A runner moves, and neither had a list nor has one after.
LEMMA HeldSame ==
    ASSUME DirTyped,
           \/ \E t \in Tasks : \E to \in TaskState :
                 /\ task[t].at # "list" /\ to.at # "list"
                 /\ task' = [task EXCEPT ![t] = to] /\ UNCHANGED lookup
           \/ \E r \in Resolvers : \E to \in LookupState :
                 /\ lookup[r].at # "list" /\ to.at # "list"
                 /\ lookup' = [lookup EXCEPT ![r] = to] /\ UNCHANGED task
    PROVE  Held' = Held
<1>1. ASSUME NEW t \in Tasks, NEW to \in TaskState,
             task[t].at # "list", to.at # "list", task' = [task EXCEPT ![t] = to], UNCHANGED lookup
      PROVE  Held' = Held
  <2>1. \A s \in Tasks : task'[s] = IF s = t THEN to ELSE task[s]
      BY <1>1 DEF DirTyped
  <2> QED
      BY <1>1, <2>1 DEF Held
<1>2. ASSUME NEW r \in Resolvers, NEW to \in LookupState,
             lookup[r].at # "list", to.at # "list", lookup' = [lookup EXCEPT ![r] = to],
             UNCHANGED task
      PROVE  Held' = Held
  <2>1. \A s \in Resolvers : lookup'[s] = IF s = r THEN to ELSE lookup[s]
      BY <1>2 DEF DirTyped
  <2> QED
      BY <1>2, <2>1 DEF Held
<1> QED
    BY <1>1, <1>2

-----------------------------------------------------------------------------
(* What a step does to the lists                                           *)

ListSame == UNCHANGED <<chans, force, names \ unlisted>>

LEMMA ListStays ==
    ASSUME ListSame
    PROVE  Due' = Due /\ \A c : Visible(c)' = Visible(c)
<1> DEFINE known == names \ unlisted
<1>1. known' = known /\ UNCHANGED <<chans, force>>
    BY DEF ListSame
<1> HIDE DEF known
<1>2. Due = ListWith(known)
    BY DEF Due, known
<1>3. Due' = ListWith(known)'
    BY DEF Due, known
<1>4. \A c : Visible(c)' = Visible(c)
    BY <1>1 DEF Visible
<1>5. ListWith(known)' = ListWith(known)
    BY <1>1 DEF ListWith, Visible, Title
<1> QED
    BY <1>2, <1>3, <1>4, <1>5

\* A list that has just been read is the one due.
LEMMA ReadIsDue ==
    ASSUME UNCHANGED <<chans, force, names>>, unlisted' = {}
    PROVE  Due' = List
<1>1. (names \ unlisted)' = names
    BY SMT
<1> QED
    BY <1>1 DEF Due, List, ListWith, Visible, Title

\* A list is read: it is the last one, and right.
LEMMA ListIsRead ==
    ASSUME DirectoryInv, UNCHANGED <<chans, force, names, listed>>, CountList,
           Held' = Held \cup {ReadList}
    PROVE  HeldInOrder' /\ LastIsRight' /\ lists' \in [read : Nat, shown : Nat]
<1>1. /\ lists.read \in Nat /\ lists.shown \in Nat
      /\ lists' \in [read : Nat, shown : Nat]
      /\ lists'.read = lists.read + 1 /\ lists'.shown = lists.shown
    BY DEF DirectoryInv, DirTyped, CountList
<1>2. \A x \in Held : x.nth \in Nat /\ x.nth <= lists.read
    BY HeldTyped DEF DirectoryInv, HeldInOrder, HeldList
<1>3. ReadList.list = List /\ ReadList.nth = lists.read + 1
    BY ReadListTyped
<1>4. HeldInOrder'
    BY <1>1, <1>2, <1>3 DEF DirectoryInv, HeldInOrder
<1>5. LastIsRight'
  <2>1. \A x \in Held' : x.nth = lists'.read => x = ReadList
      BY <1>1, <1>2
  <2> QED
      BY <1>1, <1>3, <2>1, ReadIsDue DEF LastIsRight, CountList
<1> QED
    BY <1>1, <1>4, <1>5

\* A list is shown: in the order of reading, or lists have crossed.
LEMMA ListIsShown ==
    ASSUME DirectoryInv, ListSame, NEW x \in Held, Shown(x),
           Held' \subseteq Held, Held \ {x} \subseteq Held', Owed' <=> Owed
    PROVE  /\ HeldInOrder' /\ LastIsRight'
           /\ listed' \subseteq Entry /\ lists' \in [read : Nat, shown : Nat]
           /\ lists'.shown = x.nth /\ (~ crossed' => x.nth >= lists.shown)
<1>1. x.nth \in Nat /\ x.nth <= lists.read /\ x.list \subseteq Entry
    BY HeldTyped DEF DirectoryInv, HeldInOrder, HeldList
<1>2. /\ lists.read \in Nat /\ lists.shown \in Nat /\ lists.shown <= lists.read
      /\ lists' \in [read : Nat, shown : Nat]
      /\ lists'.read = lists.read /\ lists'.shown = x.nth /\ listed' = x.list
    BY <1>1 DEF DirectoryInv, DirTyped, HeldInOrder, Shown
<1>5. ~ crossed' => ~ crossed /\ ~ (x.nth < lists.shown)
    BY Zenon DEF Shown
<1>6. ~ crossed' => x.nth >= lists.shown
    BY <1>1, <1>2, <1>5
<1>3. HeldInOrder'
    BY <1>1, <1>2 DEF DirectoryInv, HeldInOrder
<1>4. ASSUME ~ crossed', ~ Owed'
      PROVE  /\ \A y \in Held' : y.nth = lists'.read => y.list = Due'
             /\ (lists'.shown = lists'.read /\ listed' = Due')
                    \/ \E y \in Held' : y.nth = lists'.read
  <2>1. /\ \A y \in Held : y.nth = lists.read => y.list = Due
        /\ (lists.shown = lists.read /\ listed = Due) \/ \E y \in Held : y.nth = lists.read
      BY <1>4, <1>5, Zenon DEF DirectoryInv, LastIsRight
  <2>2. Due' = Due
      BY ListStays
  <2>3. CASE x.nth = lists.read
      BY <1>2, <2>1, <2>2, <2>3
  <2>4. CASE x.nth # lists.read
    <3>1. lists.shown # lists.read
        BY <1>1, <1>2, <1>4, <1>6, <2>4
    <3>2. PICK y \in Held : y.nth = lists.read
        BY <2>1, <3>1
    <3>3. y \in Held'
        BY <2>4, <3>2
    <3> QED
        BY <1>2, <2>1, <2>2, <3>2, <3>3
  <2> QED
      BY <2>3, <2>4
<1>7. LastIsRight'
    BY <1>4, Zenon DEF LastIsRight
<1> QED
    BY <1>1, <1>2, <1>3, <1>6, <1>7

\* No list is read or shown, and what changes is owed.
LEMMA ListsAlone ==
    ASSUME DirectoryInv, UNCHANGED <<listed, lists>>, Held' = Held,
           crossed => crossed', Owed' \/ (ListSame /\ ~ Owed)
    PROVE  HeldInOrder' /\ LastIsRight'
<1>1. HeldInOrder'
    BY DEF DirectoryInv, HeldInOrder
<1>2. CASE Owed'
    BY <1>1, <1>2, Zenon DEF LastIsRight
<1>3. CASE ListSame /\ ~ Owed
  <2>1. Due' = Due
      BY <1>3, ListStays
  <2> QED
      BY <1>1, <1>3, <2>1, Zenon DEF DirectoryInv, LastIsRight
<1> QED
    BY <1>1, <1>2, <1>3

\* A task that stays where it is still reaches its channel while maps grow and no list
\* is read or shown.
LEMMA ReachStays ==
    ASSUME NEW t \in Tasks, Reaches(t), task'[t] = task[t],
           chans \subseteq chans', force \subseteq force',
           UNCHANGED <<listed, lists>>, Held' \subseteq Held
    PROVE  Reaches(t)'
BY DEF Reaches, Visible

-----------------------------------------------------------------------------
(* The tasks                                                               *)

LEMMA BeginLookupKeeps ==
    ASSUME DirectoryInv, NEW t \in Tasks, BeginLookup(t)
    PROVE  DirectoryInv'
<1> DEFINE to == IF Registers(t) THEN [at |-> "copy", chans |-> chans] ELSE [at |-> "push"]
<1>1. /\ UNCHANGED <<chans, channelIndex, names, miss, unlisted, lookup, listed, lists, crossed, unfound>>
      /\ task' = [task EXCEPT ![t] = to] /\ task[t] = Idle
      /\ force' = IF t.kind = "dm" THEN force \cup {t.channel} ELSE force
      /\ Registers(t) \/ t.kind = "dm"
    BY DEF BeginLookup, Pushes, mapVars, nameVars, dirListVars
<1>2. to \in TaskState /\ to.at \in {"copy", "push"} /\ (to.at = "push" <=> ~ Registers(t))
    BY DEF TaskState, DirectoryInv, DirTyped
<1> HIDE DEF to
<1>3. task[t].at = "idle" /\ task'[t] = to /\ \A s \in Tasks \ {t} : task'[s] = task[s]
    BY <1>1 DEF Idle, DirectoryInv, DirTyped
<1>4. t.channel \in DirChannels /\ (t.kind = "join" => t.channel \notin DirDms)
      /\ t.kind \in {"join", "event", "dm"}
    BY DirectoryAssumption
<1>5. DirTyped'
  <2>1. force' \subseteq DirChannels
      BY <1>1, <1>4 DEF DirectoryInv, DirTyped
  <2>2. task' \in [Tasks -> TaskState]
      BY <1>1, <1>2 DEF DirectoryInv, DirTyped
  <2>3. \A s \in Tasks : s.kind = "event" => task'[s].at # "open"
      BY <1>2, <1>3 DEF DirectoryInv, DirTyped
  <2> QED
      BY <1>1, <2>1, <2>2, <2>3 DEF DirectoryInv, DirTyped
<1>6. Held' = Held
    BY <1>1, <1>2, <1>3, HeldSame DEF DirectoryInv
<1>7. Owed'
    BY <1>2, <1>3 DEF Owed
<1>8. HeldInOrder' /\ LastIsRight'
    BY <1>1, <1>6, <1>7, ListsAlone
<1>9. AllFound'
  <2> SUFFICES ASSUME ~ crossed, NEW s \in Tasks, s.kind # "event", task'[s].at # "idle"
               PROVE  Reaches(s)'
      BY <1>1 DEF AllFound, DirectoryInv
  <2>1. CASE s = t
    <3>1. Visible(t.channel)'
        BY <1>1, <1>4, <2>1 DEF Visible
    <3>2. task'[t].at = "push" => t.channel \in chans'
        BY <1>1, <1>2, <1>3 DEF Registers
    <3> QED
        BY <1>2, <1>3, <2>1, <3>1, <3>2 DEF Reaches
  <2>2. CASE s # t
    <3>1. task'[s] = task[s] /\ Reaches(s)
        BY <1>3, <2>2 DEF DirectoryInv, AllFound
    <3> QED
        BY <1>1, <1>6, <3>1, ReachStays
  <2> QED
      BY <2>1, <2>2
<1> QED
    BY <1>5, <1>8, <1>9 DEF DirectoryInv

LEMMA CopyIndexKeeps ==
    ASSUME DirectoryInv, NEW t \in Tasks, CopyIndex(t)
    PROVE  DirectoryInv'
<1> DEFINE to == [at |-> "assign", chans |-> task[t].chans, index |-> channelIndex]
<1>1. /\ UNCHANGED <<chans, channelIndex, force, names, miss, unlisted, lookup, listed, lists, crossed, unfound>>
      /\ task' = [task EXCEPT ![t] = to] /\ task[t].at = "copy"
    BY DEF CopyIndex, mapVars, nameVars, dirListVars, DirectoryInv, DirTyped
<1>2. task[t] \in [at : {"copy"}, chans : SUBSET DirChannels]
    BY <1>1 DEF DirectoryInv, DirTyped, TaskState, HeldList
<1>3. to \in TaskState /\ to.at = "assign"
    BY <1>2 DEF TaskState, DirectoryInv, DirTyped
<1> HIDE DEF to
<1>4. task'[t] = to /\ \A s \in Tasks \ {t} : task'[s] = task[s]
    BY <1>1 DEF DirectoryInv, DirTyped
<1>5. DirTyped'
    BY <1>1, <1>3, <1>4 DEF DirectoryInv, DirTyped
<1>6. Held' = Held
    BY <1>1, <1>3, HeldSame DEF DirectoryInv
<1>7. Owed'
    BY <1>3, <1>4 DEF Owed
<1>8. HeldInOrder' /\ LastIsRight'
    BY <1>1, <1>6, <1>7, ListsAlone
<1>9. AllFound'
  <2> SUFFICES ASSUME ~ crossed, NEW s \in Tasks, s.kind # "event", task'[s].at # "idle"
               PROVE  Reaches(s)'
      BY <1>1 DEF AllFound, DirectoryInv
  <2>1. Reaches(s)
      BY <1>1, <1>4 DEF DirectoryInv, AllFound
  <2>2. CASE s = t
      BY <1>1, <1>3, <1>4, <2>1, <2>2 DEF Reaches, Visible
  <2>3. CASE s # t
      BY <1>1, <1>4, <1>6, <2>1, <2>3, ReachStays
  <2> QED
      BY <2>2, <2>3
<1> QED
    BY <1>5, <1>8, <1>9 DEF DirectoryInv

LEMMA AssignKeeps ==
    ASSUME DirectoryInv, NEW t \in Tasks, Assign(t)
    PROVE  DirectoryInv'
<1> DEFINE to == [at |-> "push"]
<1>1. /\ UNCHANGED <<force, names, miss, unlisted, lookup, listed, lists, unfound>>
      /\ task' = [task EXCEPT ![t] = to] /\ task[t].at = "assign"
      /\ chans' = task[t].chans \cup {t.channel} /\ channelIndex' = task[t].index \cup {t.channel}
      /\ crossed' = (crossed \/ task[t].chans # chans \/ task[t].index # channelIndex)
    BY DEF Assign, nameVars
<1>2. task[t].chans \subseteq DirChannels /\ task[t].index \subseteq DirChannels
      /\ t.channel \in DirChannels
    BY <1>1, DirectoryAssumption DEF DirectoryInv, DirTyped, TaskState, HeldList
<1>3. to \in TaskState /\ to.at = "push"
    BY DEF TaskState
<1> HIDE DEF to
<1>4. task'[t] = to /\ \A s \in Tasks \ {t} : task'[s] = task[s]
    BY <1>1 DEF DirectoryInv, DirTyped
<1>5. DirTyped'
    BY <1>1, <1>2, <1>3, <1>4 DEF DirectoryInv, DirTyped
<1>6. Held' = Held
    BY <1>1, <1>3, HeldSame DEF DirectoryInv
<1>7. Owed'
    BY <1>3, <1>4 DEF Owed
<1>8. HeldInOrder' /\ LastIsRight'
    BY <1>1, <1>6, <1>7, ListsAlone
<1>9. AllFound'
  <2> SUFFICES ASSUME ~ crossed', NEW s \in Tasks, s.kind # "event", task'[s].at # "idle"
               PROVE  Reaches(s)'
      BY <1>1 DEF AllFound, DirectoryInv
  <2>1. Reaches(s) /\ chans' = chans \cup {t.channel}
      BY <1>1, <1>4 DEF DirectoryInv, AllFound
  <2>2. CASE s = t
      BY <1>1, <1>3, <1>4, <2>1, <2>2 DEF Reaches, Visible
  <2>3. CASE s # t
      BY <1>1, <1>4, <1>6, <2>1, <2>3, ReachStays
  <2> QED
      BY <2>2, <2>3
<1> QED
    BY <1>5, <1>8, <1>9 DEF DirectoryInv

\* What a list that starts a lookup, or none, does to the resolvers.
LEMMA ResolveStarts ==
    ASSUME DirTyped, StartResolve
    PROVE  /\ lookup' \in [Resolvers -> LookupState]
           /\ \A r \in Resolvers :
                 lookup'[r] = lookup[r] \/ (lookup[r].at = "idle" /\ lookup'[r].at = "lookup")
<1> DEFINE to == LookUp(NeedResolve, TRUE)
<1>1. to \in LookupState /\ to.at = "lookup"
    BY DEF DirTyped, NeedResolve, DirUsers, LookupState, LookUp
<1>2. CASE UNCHANGED lookup
    BY <1>2 DEF DirTyped
<1>3. CASE \E r \in Resolvers : lookup[r] = Idle /\ lookup' = [lookup EXCEPT ![r] = to]
  <2>1. PICK r \in Resolvers : lookup[r] = Idle /\ lookup' = [lookup EXCEPT ![r] = to]
      BY <1>3
  <2> HIDE DEF to
  <2>2. lookup[r].at = "idle" /\ \A q \in Resolvers : lookup'[q] = IF q = r THEN to ELSE lookup[q]
      BY <2>1 DEF DirTyped, Idle
  <2> QED
      BY <1>1, <2>1, <2>2 DEF DirTyped
<1> QED
    BY <1>2, <1>3 DEF StartResolve

LEMMA PushListKeeps ==
    ASSUME DirectoryInv, NEW t \in Tasks, PushList(t)
    PROVE  DirectoryInv'
<1>1. /\ UNCHANGED <<chans, channelIndex, force, names, miss, listed, crossed, unfound>>
      /\ task[t].at = "push" /\ task' = [task EXCEPT ![t] = ReadList]
      /\ CountList /\ StartResolve /\ unlisted' = {}
    BY DEF PushList, mapVars, CountList
<1>2. ReadList \in TaskState /\ ReadList \in HeldList /\ ReadList.at = "list"
      /\ ReadList.list = List /\ ReadList.nth = lists.read + 1
    BY ReadListTyped DEF TaskState
<1>3. task'[t] = ReadList /\ \A s \in Tasks \ {t} : task'[s] = task[s]
    BY <1>1 DEF DirectoryInv, DirTyped
<1>4. /\ lookup' \in [Resolvers -> LookupState]
      /\ \A r \in Resolvers :
            lookup'[r] = lookup[r] \/ (lookup[r].at = "idle" /\ lookup'[r].at = "lookup")
    BY <1>1, ResolveStarts DEF DirectoryInv
<1>5. Held' = Held \cup {ReadList}
    BY <1>1, <1>2, <1>3, <1>4 DEF Held
<1>6. HeldInOrder' /\ LastIsRight' /\ lists' \in [read : Nat, shown : Nat]
    BY <1>1, <1>5, ListIsRead
<1>7. DirTyped'
    BY <1>1, <1>2, <1>3, <1>4, <1>6 DEF DirectoryInv, DirTyped
<1>8. AllFound'
  <2> SUFFICES ASSUME ~ crossed, NEW s \in Tasks, s.kind # "event", task'[s].at # "idle"
               PROVE  Reaches(s)'
      BY <1>1 DEF AllFound, DirectoryInv
  <2>1. Reaches(s)
      BY <1>1, <1>3 DEF DirectoryInv, AllFound
  <2>2. Visible(s.channel) /\ Visible(s.channel)'
      BY <1>1, <2>1 DEF Reaches, Visible
  <2>3. lists'.shown = lists.shown
      BY <1>1 DEF CountList, DirectoryInv, DirTyped
  <2>4. CASE s = t
    <3>1. s.channel \in chans /\ Has(List, s.channel)
        BY <1>1, <2>1, <2>2, <2>4, ListTyped DEF Reaches, DirectoryInv
    <3>2. \A x \in Held : ~ (x.nth >= lists.read + 1)
        BY HeldTyped DEF DirectoryInv, DirTyped, HeldInOrder, HeldList
    <3> QED
        BY <1>1, <1>2, <1>3, <1>5, <2>2, <2>4, <3>1, <3>2 DEF Reaches
  <2>5. CASE s # t
    <3>1. task'[s] = task[s]
        BY <1>3, <2>5
    <3>2. s.channel \in chans => Has(List, s.channel)
        BY <2>2, ListTyped DEF DirectoryInv
    <3> QED
        BY <1>1, <1>2, <1>5, <2>1, <2>2, <2>3, <3>1, <3>2 DEF Reaches
  <2> QED
      BY <2>4, <2>5
<1> QED
    BY <1>6, <1>7, <1>8 DEF DirectoryInv

LEMMA WriteListKeeps ==
    ASSUME DirectoryInv, NEW t \in Tasks, WriteList(t)
    PROVE  DirectoryInv'
<1> DEFINE x == task[t]
           to == IF t.kind = "event" THEN Idle ELSE [at |-> "open"]
<1>1. /\ UNCHANGED <<chans, channelIndex, force, names, miss, unlisted, lookup, unfound>>
      /\ x.at = "list" /\ Shown(x) /\ task' = [task EXCEPT ![t] = to]
    BY DEF WriteList, mapVars, nameVars
<1>2. to \in TaskState /\ to.at \in {"idle", "open"} /\ (to.at = "open" <=> t.kind # "event")
    BY DEF TaskState, Idle
<1>3. x \in Held /\ x = task[t]
    BY <1>1 DEF Held
<1> HIDE DEF to, x
<1>4. task'[t] = to /\ \A s \in Tasks \ {t} : task'[s] = task[s]
    BY <1>1 DEF DirectoryInv, DirTyped
<1>5. Held' \subseteq Held /\ Held \ {x} \subseteq Held'
    BY <1>1, <1>2, <1>3, <1>4 DEF Held
<1>6. Owed' <=> Owed
    BY <1>1, <1>2, <1>3, <1>4 DEF Owed
<1>7. /\ HeldInOrder' /\ LastIsRight'
      /\ listed' \subseteq Entry /\ lists' \in [read : Nat, shown : Nat]
      /\ lists'.shown = x.nth /\ (~ crossed' => x.nth >= lists.shown)
    BY <1>1, <1>3, <1>5, <1>6, ListIsShown DEF ListSame
<1>8. crossed' \in BOOLEAN /\ (~ crossed' => ~ crossed) /\ listed' = x.list
    BY <1>1 DEF Shown, DirectoryInv, DirTyped
<1>9. DirTyped'
    BY <1>1, <1>2, <1>4, <1>7, <1>8 DEF DirectoryInv, DirTyped
<1>10. AllFound'
  <2> SUFFICES ASSUME ~ crossed', NEW s \in Tasks, s.kind # "event", task'[s].at # "idle"
               PROVE  Reaches(s)'
      BY <1>1, <1>8 DEF AllFound, DirectoryInv
  <2>1. Reaches(s) /\ x.nth >= lists.shown /\ lists'.shown = x.nth
      BY <1>1, <1>3, <1>4, <1>7, <1>8 DEF DirectoryInv, AllFound
  <2>2. CASE s = t
    <3>1. \A y \in Held : y.nth >= x.nth => Has(y.list, s.channel)
        BY <1>1, <1>3, <2>1, <2>2 DEF Reaches
    <3>2. x.nth >= x.nth
        BY <1>3, HeldTyped DEF DirectoryInv, HeldList
    <3>3. Has(listed', s.channel)
        BY <1>3, <1>8, <3>1, <3>2
    <3> QED
        BY <1>1, <1>2, <1>3, <1>4, <1>5, <2>1, <2>2, <3>1, <3>3 DEF Reaches, Visible
  <2>3. CASE s # t
    <3>1. task'[s] = task[s]
        BY <1>4, <2>3
    <3>2. lists.shown \in Nat /\ x.nth \in Nat /\ \A y \in Held : y.nth \in Nat
        BY <1>3, HeldTyped DEF DirectoryInv, DirTyped, HeldList
    <3>3. \A y \in Held : y.nth >= x.nth => y.nth >= lists.shown
        BY <2>1, <3>2
    <3>4. task[s].at = "open" => Has(x.list, s.channel)
        BY <1>3, <2>1 DEF Reaches
    <3> QED
        BY <1>1, <1>5, <1>8, <2>1, <3>1, <3>3, <3>4 DEF Reaches, Visible
  <2> QED
      BY <2>2, <2>3
<1> QED
    BY <1>7, <1>9, <1>10 DEF DirectoryInv

LEMMA OpenKeepsPeople ==
    ASSUME DirectoryInv, NEW t \in Tasks, Open(t)
    PROVE  DirectoryInv'
<1>1. /\ UNCHANGED <<chans, channelIndex, force, names, miss, unlisted, lookup, listed, lists, crossed>>
      /\ task[t].at = "open" /\ task' = [task EXCEPT ![t] = Idle]
      /\ unfound' = IF Has(listed, t.channel) THEN unfound ELSE unfound \cup {t.channel}
    BY DEF Open, mapVars, nameVars, Has
<1>2. Idle \in TaskState /\ Idle.at = "idle"
    BY DEF TaskState, Idle
<1>3. task'[t] = Idle /\ \A s \in Tasks \ {t} : task'[s] = task[s]
    BY <1>1 DEF DirectoryInv, DirTyped
<1>4. DirTyped'
    BY <1>1, <1>2, <1>3, DirectoryAssumption DEF DirectoryInv, DirTyped
<1>5. Held' = Held
    BY <1>1, <1>2, HeldSame DEF DirectoryInv
<1>6. Owed' <=> Owed
    BY <1>1, <1>2, <1>3 DEF Owed
<1>7. HeldInOrder' /\ LastIsRight'
    BY <1>1, <1>5, <1>6, ListsAlone DEF ListSame
<1>8. AllFound'
  <2>1. ASSUME ~ crossed
        PROVE  unfound' = {}
    <3>1. t.kind # "event"
        BY <1>1 DEF DirectoryInv, DirTyped
    <3> QED
        BY <1>1, <2>1, <3>1 DEF DirectoryInv, AllFound, Reaches
  <2>2. ASSUME ~ crossed, NEW s \in Tasks, s.kind # "event", task'[s].at # "idle"
        PROVE  Reaches(s)'
    <3>1. task'[s] = task[s] /\ Reaches(s)
        BY <1>2, <1>3, <2>2 DEF DirectoryInv, AllFound
    <3> QED
        BY <1>1, <1>5, <3>1, ReachStays
  <2> QED
      BY <1>1, <2>1, <2>2 DEF AllFound
<1> QED
    BY <1>4, <1>7, <1>8 DEF DirectoryInv

-----------------------------------------------------------------------------
(* The resolvers                                                           *)

LEMMA LookupKeeps ==
    ASSUME DirectoryInv, NEW r \in Resolvers,
           Answer(r) \/ Merge(r) \/ \E u \in DirUsers : ResolveAuthors(r, u)
    PROVE  DirectoryInv'
<1>1. UNCHANGED <<chans, channelIndex, force, task, listed, lists, crossed, unfound>>
    BY DEF Answer, Merge, ResolveAuthors, mapVars, nameVars, dirListVars
<1>2. /\ names' \subseteq DirUsers /\ miss' \subseteq DirUsers /\ unlisted' \subseteq DirUsers
      /\ \E to \in LookupState : /\ lookup[r].at \notin {"list", "push"}
                                 /\ to.at \in {"idle", "lookup", "merge", "push"}
                                 /\ lookup' = [lookup EXCEPT ![r] = to]
                                 /\ to.at = "push" \/ UNCHANGED (names \ unlisted)
  <2>1. CASE Answer(r)
    <3>1. lookup[r] \in [at : {"lookup"}, todo : SUBSET DirUsers, names : SUBSET DirUsers,
                         pushes : BOOLEAN]
        BY <2>1 DEF Answer, DirectoryInv, DirTyped, LookupState, HeldList
    <3>2. PICK got \in SUBSET lookup[r].todo : \E none \in SUBSET (lookup[r].todo \ got) :
            lookup' = [lookup EXCEPT ![r] =
                [at |-> "merge", got |-> got, none |-> none, names |-> lookup[r].names,
                 pushes |-> lookup[r].pushes]]
        BY <2>1 DEF Answer, DirectoryInv, DirTyped
    <3>3. PICK none \in SUBSET (lookup[r].todo \ got) :
            lookup' = [lookup EXCEPT ![r] =
                [at |-> "merge", got |-> got, none |-> none, names |-> lookup[r].names,
                 pushes |-> lookup[r].pushes]]
        BY <3>2
    <3> DEFINE to == [at |-> "merge", got |-> got, none |-> none, names |-> lookup[r].names,
                      pushes |-> lookup[r].pushes]
    <3>4. to \in LookupState /\ to.at = "merge"
        BY <3>1 DEF LookupState
    <3> HIDE DEF to
    <3> QED
        BY <2>1, <3>1, <3>3, <3>4 DEF to, Answer, nameVars, DirectoryInv, DirTyped
  <2>2. CASE Merge(r)
    <3>1. lookup[r].got \subseteq DirUsers /\ lookup[r].none \subseteq DirUsers
        BY <2>2 DEF Merge, DirectoryInv, DirTyped, LookupState, HeldList
    <3>2. lookup[r].at = "merge"
        BY <2>2 DEF Merge
    <3>3. /\ names' \subseteq DirUsers /\ miss' \subseteq DirUsers
          /\ unlisted' \subseteq DirUsers
        BY <2>2, <3>1 DEF Merge, Merged, DirectoryInv, DirTyped
    <3>4. CASE /\ lookup' = [lookup EXCEPT ![r] = [at |-> "push"]]
               /\ UNCHANGED unlisted
      <4> DEFINE to == [at |-> "push"]
      <4>1. to \in LookupState /\ to.at = "push"
          BY DEF LookupState
      <4> HIDE DEF to
      <4> QED
          BY <3>2, <3>3, <3>4, <4>1 DEF to
    <3>5. CASE /\ lookup' = [lookup EXCEPT ![r] = Idle]
               /\ unlisted' = unlisted \cup (lookup[r].got \ names)
      <4>1. Idle \in LookupState /\ Idle.at = "idle"
          BY DEF LookupState, Idle
      <4>2. names' = names \cup lookup[r].got
          BY <2>2 DEF Merge, Merged
      <4>3. (names \ unlisted)' = names \ unlisted
          BY <3>5, <4>2
      <4> QED
          BY <3>2, <3>3, <3>5, <4>1, <4>3
    <3> QED
        BY <2>2, <3>4, <3>5, Zenon DEF Merge
  <2>3. CASE \E u \in DirUsers : ResolveAuthors(r, u)
    <3>1. PICK u \in DirUsers : ResolveAuthors(r, u)
        BY <2>3
    <3> DEFINE to == LookUp({u}, FALSE)
    <3>2. to \in LookupState /\ to.at = "lookup" /\ lookup[r].at = "idle"
        BY <3>1 DEF LookupState, LookUp, ResolveAuthors, Idle, DirectoryInv, DirTyped
    <3> HIDE DEF to
    <3> QED
        BY <3>1, <3>2 DEF to, ResolveAuthors, nameVars, DirectoryInv, DirTyped
  <2> QED
      BY <2>1, <2>2, <2>3
<1>3. PICK to \in LookupState : /\ lookup[r].at \notin {"list", "push"}
                                /\ to.at \in {"idle", "lookup", "merge", "push"}
                                /\ lookup' = [lookup EXCEPT ![r] = to]
                                /\ to.at = "push" \/ UNCHANGED (names \ unlisted)
    BY <1>2
<1>4. lookup'[r] = to /\ \A q \in Resolvers \ {r} : lookup'[q] = lookup[q]
    BY <1>3 DEF DirectoryInv, DirTyped
<1>5. DirTyped'
    BY <1>1, <1>2, <1>3 DEF DirectoryInv, DirTyped
<1>6. Held' = Held
    BY <1>1, <1>3, HeldSame DEF DirectoryInv
<1>7. Owed' \/ (ListSame /\ ~ Owed)
    BY <1>1, <1>3, <1>4 DEF Owed, ListSame
<1>8. HeldInOrder' /\ LastIsRight'
    BY <1>1, <1>6, <1>7, ListsAlone
<1>9. AllFound'
  <2> SUFFICES ASSUME ~ crossed, NEW s \in Tasks, s.kind # "event", task'[s].at # "idle"
               PROVE  Reaches(s)'
      BY <1>1 DEF AllFound, DirectoryInv
  <2> QED
      BY <1>1, <1>6, ReachStays DEF DirectoryInv, AllFound
<1> QED
    BY <1>5, <1>8, <1>9 DEF DirectoryInv

LEMMA RefreshReadKeeps ==
    ASSUME DirectoryInv, NEW r \in Resolvers, RefreshRead(r)
    PROVE  DirectoryInv'
<1>1. /\ UNCHANGED <<chans, channelIndex, force, names, miss, task, listed, crossed, unfound>>
      /\ lookup[r].at = "push" /\ lookup' = [lookup EXCEPT ![r] = ReadList] /\ CountList
      /\ unlisted' = {}
    BY DEF RefreshRead, mapVars, CountList
<1>2. ReadList \in LookupState /\ ReadList.at = "list" /\ ReadList.list = List
    BY ReadListTyped DEF LookupState
<1>3. lookup'[r] = ReadList /\ \A q \in Resolvers \ {r} : lookup'[q] = lookup[q]
    BY <1>1 DEF DirectoryInv, DirTyped
<1>4. Held' = Held \cup {ReadList}
    BY <1>1, <1>2, <1>3 DEF Held
<1>5. HeldInOrder' /\ LastIsRight' /\ lists' \in [read : Nat, shown : Nat]
    BY <1>1, <1>4, ListIsRead
<1>6. DirTyped'
    BY <1>1, <1>2, <1>5 DEF DirectoryInv, DirTyped
<1>7. AllFound'
  <2> SUFFICES ASSUME ~ crossed, NEW s \in Tasks, s.kind # "event", task[s].at # "idle"
               PROVE  Reaches(s)'
      BY <1>1 DEF AllFound, DirectoryInv
  <2>1. Reaches(s) /\ lists'.shown = lists.shown
      BY <1>1 DEF DirectoryInv, AllFound, CountList, DirTyped
  <2>2. s.channel \in chans => Has(List, s.channel)
      BY <2>1, ListTyped DEF Reaches, DirectoryInv
  <2> QED
      BY <1>1, <1>2, <1>4, <2>1, <2>2 DEF Reaches, Visible
<1> QED
    BY <1>5, <1>6, <1>7 DEF DirectoryInv

LEMMA RefreshWriteKeeps ==
    ASSUME DirectoryInv, NEW r \in Resolvers, RefreshWrite(r)
    PROVE  DirectoryInv'
<1> DEFINE x == lookup[r]
<1>1. /\ UNCHANGED <<chans, channelIndex, force, names, miss, unlisted, task, unfound>>
      /\ x.at = "list" /\ Shown(x)
    BY DEF RefreshWrite, mapVars, nameVars
<1>2. PICK to \in LookupState : to.at \in {"idle", "lookup"} /\ lookup' = [lookup EXCEPT ![r] = to]
  <2>1. /\ Idle \in LookupState /\ Idle.at = "idle"
        /\ LookUp(NeedResolve, TRUE) \in LookupState /\ LookUp(NeedResolve, TRUE).at = "lookup"
      BY DEF Idle, LookupState, NeedResolve, DirUsers, DirectoryInv, DirTyped, LookUp
  <2> QED
      BY <2>1 DEF RefreshWrite
<1>3. x \in Held /\ x = lookup[r]
    BY <1>1 DEF Held
<1> HIDE DEF x
<1>4. lookup'[r] = to /\ \A q \in Resolvers \ {r} : lookup'[q] = lookup[q]
    BY <1>2 DEF DirectoryInv, DirTyped
<1>5. Held' \subseteq Held /\ Held \ {x} \subseteq Held'
    BY <1>1, <1>2, <1>3, <1>4 DEF Held
<1>6. Owed' <=> Owed
    BY <1>1, <1>2, <1>3, <1>4 DEF Owed
<1>7. /\ HeldInOrder' /\ LastIsRight'
      /\ listed' \subseteq Entry /\ lists' \in [read : Nat, shown : Nat]
      /\ lists'.shown = x.nth /\ (~ crossed' => x.nth >= lists.shown)
    BY <1>1, <1>3, <1>5, <1>6, ListIsShown DEF ListSame
<1>8. crossed' \in BOOLEAN /\ (~ crossed' => ~ crossed) /\ listed' = x.list
    BY <1>1 DEF Shown, DirectoryInv, DirTyped
<1>9. DirTyped'
    BY <1>1, <1>2, <1>7, <1>8 DEF DirectoryInv, DirTyped
<1>10. AllFound'
  <2> SUFFICES ASSUME ~ crossed', NEW s \in Tasks, s.kind # "event", task[s].at # "idle"
               PROVE  Reaches(s)'
      BY <1>1, <1>8 DEF AllFound, DirectoryInv
  <2>1. Reaches(s) /\ x.nth >= lists.shown /\ lists'.shown = x.nth
      BY <1>7, <1>8 DEF DirectoryInv, AllFound
  <2>2. lists.shown \in Nat /\ x.nth \in Nat /\ \A y \in Held : y.nth \in Nat
      BY <1>3, HeldTyped DEF DirectoryInv, DirTyped, HeldList
  <2>3. \A y \in Held : y.nth >= x.nth => y.nth >= lists.shown
      BY <2>1, <2>2
  <2>4. task[s].at = "open" => Has(x.list, s.channel)
      BY <1>3, <2>1 DEF Reaches
  <2> QED
      BY <1>1, <1>5, <1>8, <2>1, <2>3, <2>4 DEF Reaches, Visible
<1> QED
    BY <1>7, <1>9, <1>10 DEF DirectoryInv

-----------------------------------------------------------------------------
\* Unless two registrations or two lists crossed, whatever the newest list does not have is
\* on its way into one, and a channel is in every list that can be shown before it is
\* opened (cache_render.go:905-1030, main.go:1397-1418).
THEOREM DirectoryInvHolds == DirectorySpec => []DirectoryInv
<1>1. DirectoryInit => DirectoryInv
  <2> SUFFICES ASSUME DirectoryInit PROVE DirectoryInv
      OBVIOUS
  <2>1. Idle \in TaskState /\ Idle \in LookupState /\ Idle.at = "idle"
      BY DEF Idle, TaskState, LookupState
  <2>2. chans \subseteq DirChannels /\ chans = Known
      BY DirectoryAssumption DEF DirectoryInit
  <2>3. List \subseteq Entry
    <3>1. \A c \in DirChannels : Title(c, names) \in {"raw", "name"}
        BY DEF Title
    <3> QED
        BY <2>2, <3>1 DEF List, ListWith, Entry
  <2>4. DirTyped
      BY <2>1, <2>2, <2>3 DEF DirectoryInit, DirTyped
  <2>5. Held = {}
      BY <2>1 DEF DirectoryInit, Held
  <2>6. HeldInOrder /\ LastIsRight
    <3>1. names \ unlisted = names
        BY DEF DirectoryInit
    <3>2. Due = List
        BY <3>1 DEF Due, List
    <3> QED
        BY <2>5, <3>2 DEF DirectoryInit, HeldInOrder, LastIsRight
  <2>7. AllFound
      BY <2>1 DEF DirectoryInit, AllFound
  <2> QED
      BY <2>4, <2>6, <2>7 DEF DirectoryInv
<1>2. DirectoryInv /\ [DirectoryNext]_directoryVars => DirectoryInv'
  <2> SUFFICES ASSUME DirectoryInv, [DirectoryNext]_directoryVars
               PROVE  DirectoryInv'
      OBVIOUS
  <2>1. CASE UNCHANGED directoryVars
    <3>1. UNCHANGED <<chans, channelIndex, force, names, miss, unlisted, task, lookup, listed, lists,
                      crossed, unfound>>
        BY <2>1 DEF directoryVars, mapVars, nameVars, dirListVars
    <3>2. DirTyped' /\ Held' = Held /\ (Owed' <=> Owed)
        BY <3>1 DEF DirectoryInv, DirTyped, Held, Owed
    <3>3. HeldInOrder' /\ LastIsRight'
        BY <3>1, <3>2, ListsAlone DEF ListSame
    <3>4. AllFound'
        BY <3>1, <3>2, ReachStays DEF DirectoryInv, AllFound
    <3> QED
        BY <3>2, <3>3, <3>4 DEF DirectoryInv
  <2>2. CASE \E t \in Tasks : BeginLookup(t) \/ CopyIndex(t) \/ Assign(t) \/ PushList(t)
                              \/ WriteList(t) \/ Open(t)
      BY <2>2, BeginLookupKeeps, CopyIndexKeeps, AssignKeeps, PushListKeeps, WriteListKeeps,
         OpenKeepsPeople
  <2>3. CASE \E r \in Resolvers :
               \/ Answer(r) \/ Merge(r) \/ RefreshRead(r) \/ RefreshWrite(r)
               \/ \E u \in DirUsers : ResolveAuthors(r, u)
    <3>1. PICK r \in Resolvers :
               \/ Answer(r) \/ Merge(r) \/ RefreshRead(r) \/ RefreshWrite(r)
               \/ \E u \in DirUsers : ResolveAuthors(r, u)
        BY <2>3
    <3> QED
        BY <3>1, LookupKeeps, RefreshReadKeeps, RefreshWriteKeeps
  <2> QED
      BY <2>1, <2>2, <2>3 DEF DirectoryNext
<1> QED
    BY <1>1, <1>2, PTL DEF DirectorySpec

LEMMA DirectoryFromInv ==
    ASSUME DirectoryInv
    PROVE  ListIsCurrent
<1>1. ~ crossed => unfound = {}
    BY DEF DirectoryInv, AllFound
<1>2. ASSUME \A t \in Tasks : task[t] = Idle, \A r \in Resolvers : lookup[r] = Idle, ~ crossed
      PROVE  listed = Due
  <2>1. Held = {} /\ ~ Owed
      BY <1>2 DEF Held, Owed, Idle
  <2> QED
      BY <1>2, <2>1 DEF DirectoryInv, LastIsRight
<1> QED
    BY <1>1, <1>2 DEF ListIsCurrent, Due

\* The names of people only grow: a merge adds to the directory as it is, not to the one
\* its lookup began with (cache_render.go:152-166).
THEOREM NamesStayHolds == DirectorySpec => NamesStay
<1>1. DirectoryNext => names \subseteq names'
    BY DEF DirectoryNext, BeginLookup, CopyIndex, Assign, PushList, WriteList, Open, Answer, Merge,
       Merged, RefreshRead, RefreshWrite, ResolveAuthors, nameVars
<1> QED
    BY <1>1, PTL DEF DirectorySpec, NamesStay

\* The channels and the people a workspace knows, and the members of a channel, are
\* Slack's (cache_render.go:905-1030, manager.go:60-190).
THEOREM PeopleTypeCorrect ==
    DirectorySpec /\ MembershipSpec => [](DirectoryTypeOK /\ MembershipTypeOK)
<1>1. DirectoryInv => DirectoryTypeOK
    BY DEF DirectoryInv, DirTyped, DirectoryTypeOK, Entry
<1>2. MembershipInv => MembershipTypeOK
    BY MembershipFromInv
<1> QED
    BY <1>1, <1>2, DirectoryInvHolds, MembershipInvHolds, PTL

\* Both components keep what PeopleAgree says of them: the client's list of channels, the
\* one fetch of a channel's members, and the members' table
\* (cache_render.go:905-913, main.go:1397-1418, manager.go:152-190).
THEOREM PeopleAgreeHolds == DirectorySpec /\ MembershipSpec => []PeopleAgree
<1>1. DirectoryInv /\ MembershipInv => PeopleAgree
    BY DirectoryFromInv, MembershipFromInv DEF PeopleAgree
<1> QED
    BY <1>1, DirectoryInvHolds, MembershipInvHolds, PTL

-----------------------------------------------------------------------------
(* Session                                                                 *)

Event == [users : SUBSET SessionUsers, state : States]
SenderState ==
    {SessionRests, [at |-> "backfill"]} \cup
    [at : {"subscribe", "query"}, list : SUBSET SessionUsers, ask : SUBSET SessionUsers]

\* A list on its way names only recorded users, and is asked about only those it names.
ListsRecorded ==
    \A s \in Senders : sender[s].at \in {"subscribe", "query"} =>
        sender[s].list \subseteq presSubs /\ sender[s].ask \subseteq sender[s].list

LinkTyped ==
    /\ mgr \in {"dial", "hung", "up", "pause"} /\ backoff \in 1 .. MaxBackoff
    /\ url \in GatewayUrls \cup {NoUrl} /\ gone \subseteq GatewayUrls
    /\ link \in {"none", "open", "silent", "ended"} /\ greeted \in BOOLEAN /\ gate \in BOOLEAN
SendersTyped ==
    /\ presSubs \subseteq SessionUsers /\ subs \subseteq presSubs /\ asked \subseteq subs
    /\ sender \in [Senders -> SenderState] /\ ListsRecorded
SeenTyped ==
    /\ wire \in Seq(Event)
    /\ truth \in [SessionUsers -> States] /\ presence \in [SessionUsers -> States]
LineTyped == LinkTyped /\ SendersTyped /\ SeenTyped

-----------------------------------------------------------------------------
(* What a row of events leaves a user at                                   *)

Silent(w, u) == \A j \in DOMAIN w : u \notin w[j].users
Says(w, u, x) ==
    \E i \in DOMAIN w : /\ u \in w[i].users /\ w[i].state = x
                        /\ \A j \in DOMAIN w : j > i => u \notin w[j].users

\* Who is at p when the events of w are handled is at x after them.
EndsAs(w, u, p, x) == Says(w, u, x) \/ (p = x /\ Silent(w, u))

LEMMA AppendEnds ==
    ASSUME NEW w \in Seq(Event), NEW e \in Event, NEW u, NEW p, NEW x,
           \/ u \in e.users /\ e.state = x
           \/ u \notin e.users /\ EndsAs(w, u, p, x)
    PROVE  EndsAs(Append(w, e), u, p, x)
<1> DEFINE v == Append(w, e)
<1>1. /\ Len(v) = Len(w) + 1 /\ v[Len(w) + 1] = e /\ v \in Seq(Event)
      /\ \A i \in 1 .. Len(w) : v[i] = w[i]
    OBVIOUS
<1>2. Len(w) \in Nat /\ DOMAIN w = 1 .. Len(w) /\ DOMAIN v = 1 .. (Len(w) + 1)
    BY <1>1
<1> HIDE DEF v
<1>3. CASE u \in e.users /\ e.state = x
  <2>1. Len(w) + 1 \in DOMAIN v /\ \A j \in DOMAIN v : ~ (j > Len(w) + 1)
      BY <1>2
  <2> QED
      BY <1>1, <1>3, <2>1 DEF EndsAs, Says, v
<1>4. CASE u \notin e.users /\ Says(w, u, x)
  <2>1. PICK i \in DOMAIN w : /\ u \in w[i].users /\ w[i].state = x
                              /\ \A j \in DOMAIN w : j > i => u \notin w[j].users
      BY <1>4 DEF Says
  <2>2. i \in DOMAIN v /\ v[i] = w[i]
      BY <1>1, <1>2
  <2>3. \A j \in DOMAIN v : j > i => u \notin v[j].users
      BY <1>1, <1>2, <1>4, <2>1
  <2> QED
      BY <2>1, <2>2, <2>3 DEF EndsAs, Says, v
<1>5. CASE u \notin e.users /\ p = x /\ Silent(w, u)
    BY <1>1, <1>2, <1>5 DEF EndsAs, Silent, v
<1> QED
    BY <1>3, <1>4, <1>5 DEF EndsAs

LEMMA TailEnds ==
    ASSUME NEW w \in Seq(Event), w # <<>>, NEW u, NEW p, NEW x, EndsAs(w, u, p, x)
    PROVE  EndsAs(Tail(w), u, IF u \in Head(w).users THEN Head(w).state ELSE p, x)
<1> DEFINE v == Tail(w)
<1>1. /\ v \in Seq(Event) /\ Len(v) = Len(w) - 1 /\ Head(w) = w[1]
      /\ \A i \in 1 .. Len(v) : v[i] = w[i + 1]
    OBVIOUS
<1>2. Len(w) \in Nat \ {0} /\ DOMAIN w = 1 .. Len(w) /\ DOMAIN v = 1 .. (Len(w) - 1)
    BY <1>1
<1> HIDE DEF v
<1>3. CASE Silent(w, u)
  <2>1. Silent(v, u) /\ u \notin Head(w).users
      BY <1>1, <1>2, <1>3 DEF Silent
  <2> QED
      BY <1>3, <2>1 DEF EndsAs, Says, Silent, v
<1>4. CASE Says(w, u, x)
  <2>1. PICK i \in DOMAIN w : /\ u \in w[i].users /\ w[i].state = x
                              /\ \A j \in DOMAIN w : j > i => u \notin w[j].users
      BY <1>4 DEF Says
  <2>2. CASE i = 1
    <3>1. Silent(v, u)
        BY <1>1, <1>2, <2>1, <2>2 DEF Silent
    <3> QED
        BY <1>1, <2>1, <2>2, <3>1 DEF EndsAs, v
  <2>3. CASE i # 1
    <3>1. i - 1 \in DOMAIN v /\ v[i - 1] = w[i]
        BY <1>1, <1>2, <2>3
    <3>2. ASSUME NEW j \in DOMAIN v, j > i - 1 PROVE u \notin v[j].users
      <4>1. j + 1 \in DOMAIN w /\ j + 1 > i /\ v[j] = w[j + 1]
          BY <1>1, <1>2, <3>2
      <4> QED
          BY <2>1, <4>1
    <3> QED
        BY <2>1, <3>1, <3>2 DEF EndsAs, Says, v
  <2> QED
      BY <2>2, <2>3
<1> QED
    BY <1>3, <1>4 DEF EndsAs

LEMMA JoinThree ==
    ASSUME NEW a \in Seq(Event), NEW b \in Seq(Event), NEW c \in Seq(Event)
    PROVE  (a \o b) \o c = a \o (b \o c)
BY ConcatAssociative

\* Slack's answer to a query leaves everybody asked about at their state, and the
\* others where they were.
LEMMA AnswersEnd ==
    ASSUME NEW w \in Seq(Event), NEW users \in SUBSET SessionUsers,
           truth \in [SessionUsers -> States]
    PROVE  /\ w \o Answers(users) \in Seq(Event)
           /\ \A u \in SessionUsers, p \in States :
                 u \in users \/ EndsAs(w, u, p, truth[u]) =>
                    EndsAs(w \o Answers(users), u, p, truth[u])
<1> DEFINE of(x) == {u \in users : truth[u] = x}
           e(x) == [users |-> of(x), state |-> x]
           part(x) == IF of(x) = {} THEN <<>> ELSE <<e(x)>>
           w1 == w \o part("active")
<1>1. \A x \in States : e(x) \in Event /\ e(x).users = of(x) /\ e(x).state = x
    BY DEF Event, States
<1>2. w \o Answers(users) = w1 \o part("away")
  <2>1. part("active") \in Seq(Event) /\ part("away") \in Seq(Event)
      BY <1>1 DEF States
  <2>2. Answers(users) = part("active") \o part("away")
      BY DEF Answers
  <2> HIDE DEF part
  <2>3. (w \o part("active")) \o part("away") = w \o (part("active") \o part("away"))
      BY <2>1, JoinThree
  <2> QED
      BY <2>2, <2>3
<1>3. ASSUME NEW v \in Seq(Event), NEW x \in States
      PROVE  v \o part(x) = IF of(x) = {} THEN v ELSE Append(v, e(x))
  <2>1. e(x) \in Event
      BY <1>1
  <2> HIDE DEF e, of
  <2> QED
      BY <2>1
<1>4. \A u \in users : truth[u] \in States /\ (\A x \in States : u \in of(x) <=> x = truth[u])
    OBVIOUS
<1>5. \A u : u \notin users => \A x \in States : u \notin of(x)
    OBVIOUS
<1> HIDE DEF of, e
<1>6. ASSUME NEW v \in Seq(Event), NEW x \in States
      PROVE  /\ v \o part(x) \in Seq(Event)
             /\ \A u \in SessionUsers, p \in States :
                  u \in of(x) \/ (EndsAs(v, u, p, truth[u]) /\ u \notin of(x)) =>
                      EndsAs(v \o part(x), u, p, truth[u])
  <2>1. CASE of(x) = {}
    <3>1. v \o part(x) = v
        BY <1>3, <2>1
    <3>2. ASSUME NEW u \in SessionUsers, NEW p \in States,
                 u \in of(x) \/ (EndsAs(v, u, p, truth[u]) /\ u \notin of(x))
          PROVE  EndsAs(v, u, p, truth[u])
        BY <2>1, <3>2
    <3> HIDE DEF part
    <3>3. v \o part(x) \in Seq(Event)
        BY <3>1
    <3> QED
        BY <3>1, <3>2, <3>3, Zenon
  <2>2. CASE of(x) # {}
    <3>1. v \o part(x) = Append(v, e(x)) /\ e(x) \in Event
        BY <1>1, <1>3, <2>2
    <3>2. ASSUME NEW u \in SessionUsers, NEW p \in States,
                 u \in of(x) \/ (EndsAs(v, u, p, truth[u]) /\ u \notin of(x))
          PROVE  EndsAs(Append(v, e(x)), u, p, truth[u])
      <4>1. \/ u \in e(x).users /\ e(x).state = truth[u]
            \/ u \notin e(x).users /\ EndsAs(v, u, p, truth[u])
          BY <1>1, <3>2 DEF of
      <4> QED
          BY <3>1, <4>1, AppendEnds
    <3> HIDE DEF part
    <3>3. v \o part(x) \in Seq(Event)
        BY <3>1
    <3> QED
        BY <3>1, <3>2, <3>3, Zenon
  <2> QED
      BY <2>1, <2>2
<1> HIDE DEF part, w1
<1>7. w1 \in Seq(Event) /\ w1 \o part("away") \in Seq(Event)
    BY <1>6 DEF w1, States
<1>8. ASSUME NEW u \in SessionUsers, NEW p \in States,
             u \in users \/ EndsAs(w, u, p, truth[u])
      PROVE  EndsAs(w1 \o part("away"), u, p, truth[u])
  <2>1. CASE u \in users /\ truth[u] = "away"
      BY <1>4, <1>6, <1>7, <2>1 DEF States
  <2>2. CASE u \in users /\ truth[u] = "active"
    <3>1. u \in of("active") /\ u \notin of("away")
        BY <1>4, <2>2 DEF States
    <3>2. EndsAs(w1, u, p, truth[u])
        BY <1>6, <3>1 DEF w1, States
    <3> QED
        BY <1>6, <1>7, <3>1, <3>2 DEF States
  <2>3. CASE u \notin users
    <3>1. u \notin of("active") /\ u \notin of("away")
        BY <1>5, <2>3 DEF States
    <3>2. EndsAs(w1, u, p, truth[u])
        BY <1>6, <1>8, <2>3, <3>1 DEF w1, States
    <3> QED
        BY <1>6, <1>7, <3>1, <3>2 DEF States
  <2> QED
      BY <1>4, <2>1, <2>2, <2>3 DEF States
<1> QED
    BY <1>2, <1>7, <1>8


-----------------------------------------------------------------------------
(* Types                                                                   *)

\* Steps of the loop, the socket and the gate.
LEMMA LinkSteps ==
    ASSUME LineTyped,
           \/ Manager \/ DialFails \/ DialHangs \/ PeerEnds \/ Drop \/ ReadDeadline \/ StopWebSocket \/ GateExpires
           \/ \E u \in GatewayUrls : OnReconnectURL(u) \/ GatewayLeaves(u)
    PROVE  LineTyped'
<1> USE SessionAssumption DEF LineTyped, LinkTyped, SendersTyped, SeenTyped
<1>1. CASE StartWebSocket
  <2>1. greeted' \in BOOLEAN
      BY <1>1, Zenon DEF StartWebSocket
  <2>2. /\ mgr' = "up" /\ backoff' = 1 /\ link' = "open"
        /\ subs' = {} /\ asked' = {} /\ wire' = <<>>
        /\ UNCHANGED <<url, gone, gate, presSubs, sender, truth, presence>>
      BY <1>1 DEF StartWebSocket, presenceListVars
  <2> QED
      BY <2>1, <2>2 DEF ListsRecorded
<1>2. CASE DialFails
    BY <1>2 DEF DialFails, FailedUrl, presenceListVars, seenVars, ListsRecorded
<1>11. CASE DialHangs
    BY <1>11 DEF DialHangs, presenceListVars, seenVars, ListsRecorded
<1>12. CASE PeerEnds
    BY <1>12 DEF PeerEnds, FailedUrl, presenceListVars, seenVars, sessionBounds, ListsRecorded
<1>3. CASE Redial
  <2>1. backoff' \in 1 .. MaxBackoff
      BY <1>3 DEF Redial
  <2> QED
      BY <1>3, <2>1 DEF Redial, presenceListVars, seenVars, sessionBounds, ListsRecorded
<1>4. CASE WsDone
    BY <1>4 DEF WsDone, presenceListVars, seenVars, sessionBounds, ListsRecorded
<1>5. CASE Drop
    BY <1>5 DEF Drop, presenceListVars, ListsRecorded
<1>6. CASE ReadDeadline
    BY <1>6 DEF ReadDeadline, presenceListVars, seenVars, sessionBounds, ListsRecorded
<1>7. CASE StopWebSocket
    BY <1>7 DEF StopWebSocket, presenceListVars, ListsRecorded
<1>8. CASE GateExpires
    BY <1>8 DEF GateExpires, netVars, presenceListVars, seenVars, sessionBounds, ListsRecorded
<1>9. CASE \E u \in GatewayUrls : OnReconnectURL(u)
    BY <1>9 DEF OnReconnectURL, presenceListVars, seenVars, sessionBounds, ListsRecorded
<1>10. CASE \E u \in GatewayUrls : GatewayLeaves(u)
    BY <1>10 DEF GatewayLeaves, presenceListVars, seenVars, sessionBounds, ListsRecorded
<1> QED
    BY <1>1, <1>2, <1>3, <1>4, <1>5, <1>6, <1>7, <1>8, <1>9, <1>10, <1>11, <1>12 DEF Manager

\* A list is made of what was and what comes to be recorded.
LEMMA RecordKeeps ==
    ASSUME SendersTyped, NEW s \in Senders, NEW ids \in SUBSET SessionUsers,
           NEW ask \in SUBSET (presSubs \cup ids), Record(s, ids, ask), UNCHANGED <<subs, asked>>
    PROVE  SendersTyped'
<1> DEFINE new == IF ask = {} THEN SessionRests
                  ELSE [at |-> "subscribe", list |-> presSubs \cup ids, ask |-> ask]
<1>1. presSubs' = presSubs \cup ids /\ sender' = [sender EXCEPT ![s] = new]
    BY DEF Record
<1>2. /\ new \in SenderState
      /\ new.at \in {"subscribe", "query"} =>
            new.list \subseteq presSubs' /\ new.ask \subseteq new.list
    BY <1>1 DEF SendersTyped, SenderState, SessionRests
<1> HIDE DEF new
<1> QED
    BY <1>1, <1>2 DEF SendersTyped, ListsRecorded

LEMMA ListSteps ==
    ASSUME LineTyped, NEW s \in Senders,
           \/ OnConnect(s) \/ ResubPresence(s)
           \/ (\E ids \in SUBSET SessionUsers : WatchPresence(s, ids))
           \/ SubscribePresence(s) \/ QueryPresence(s)
    PROVE  LineTyped'
<1>1. CASE OnConnect(s)
  <2>1. sender' = sender \/ sender' = [sender EXCEPT ![s] = [at |-> "backfill"]]
      BY <1>1 DEF OnConnect
  <2>2. SendersTyped'
      BY <1>1, <2>1 DEF OnConnect, LineTyped, SendersTyped, ListsRecorded, SenderState
  <2> QED
      BY <1>1, <2>2 DEF OnConnect, LineTyped, LinkTyped, SeenTyped, seenVars
<1>2. CASE ResubPresence(s)
  <2>1. SendersTyped'
      BY <1>2, RecordKeeps, SessionAssumption DEF ResubPresence, LineTyped, SendersTyped
  <2> QED
      BY <1>2, <2>1 DEF ResubPresence, LineTyped, LinkTyped, SeenTyped, netVars, seenVars
<1>3. CASE \E ids \in SUBSET SessionUsers : WatchPresence(s, ids)
  <2>1. PICK ids \in SUBSET SessionUsers : WatchPresence(s, ids)
      BY <1>3
  <2>2. SendersTyped'
      BY <2>1, RecordKeeps DEF WatchPresence, LineTyped
  <2> QED
      BY <2>1, <2>2 DEF WatchPresence, LineTyped, LinkTyped, SeenTyped, netVars, seenVars
<1>4. CASE SubscribePresence(s)
  <2>1. /\ sender[s] \in [at : {"subscribe", "query"}, list : SUBSET SessionUsers,
                           ask : SUBSET SessionUsers]
        /\ sender[s].at = "subscribe"
      BY <1>4 DEF SubscribePresence, LineTyped, SendersTyped, SenderState, SessionRests
  <2>2. sender[s].list \subseteq presSubs /\ sender[s].ask \subseteq sender[s].list
      BY <2>1 DEF LineTyped, SendersTyped, ListsRecorded
  <2>3. SendersTyped'
      BY <1>4, <2>1, <2>2 DEF SubscribePresence, LineTyped, SendersTyped, ListsRecorded, SenderState,
         SessionRests
  <2> QED
      BY <1>4, <2>3 DEF SubscribePresence, LineTyped, LinkTyped, SeenTyped, netVars, seenVars
<1>5. CASE QueryPresence(s)
  <2>1. /\ sender[s] \in [at : {"subscribe", "query"}, list : SUBSET SessionUsers,
                           ask : SUBSET SessionUsers]
      BY <1>5 DEF QueryPresence, LineTyped, SendersTyped, SenderState, SessionRests
  <2>2. SendersTyped'
      BY <1>5, <2>1 DEF QueryPresence, LineTyped, SendersTyped, ListsRecorded, SenderState,
         SessionRests
  <2>3. wire' \in Seq(Event)
      BY <1>5, <2>1, AnswersEnd DEF QueryPresence, LineTyped, SeenTyped
  <2> QED
      BY <1>5, <2>2, <2>3 DEF QueryPresence, LineTyped, LinkTyped, SeenTyped, netVars
<1> QED
    BY <1>1, <1>2, <1>3, <1>4, <1>5

LEMMA PresenceSteps ==
    ASSUME LineTyped, (\E u \in SessionUsers : Moves(u)) \/ OnPresenceChange
    PROVE  LineTyped'
<1>1. ASSUME NEW u \in SessionUsers, Moves(u) PROVE LineTyped'
  <2> DEFINE x == CHOOSE y \in States : y # truth[u]
             e == [users |-> {u}, state |-> x]
  <2>1. /\ truth' = [truth EXCEPT ![u] = x]
        /\ wire' = wire \/ wire' = Append(wire, e)
      BY <1>1 DEF Moves
  <2>2. x \in States /\ e \in Event
      BY DEF States, Event
  <2> HIDE DEF x, e
  <2>3. truth' \in [SessionUsers -> States] /\ wire' \in Seq(Event)
      BY <2>1, <2>2 DEF LineTyped, SeenTyped
  <2> QED
      BY <1>1, <2>3 DEF Moves, LineTyped, LinkTyped, SendersTyped, SeenTyped, ListsRecorded, netVars,
         presenceListVars
<1>2. CASE OnPresenceChange
  <2>1. wire \in Seq(Event) /\ wire # <<>> /\ wire' = Tail(wire) /\ Head(wire) \in Event
      BY <1>2 DEF OnPresenceChange, LineTyped, SeenTyped
  <2>2. Head(wire).state \in States /\ wire' \in Seq(Event)
      BY <2>1 DEF Event
  <2>3. presence' \in [SessionUsers -> States]
      BY <1>2, <2>2 DEF OnPresenceChange, LineTyped, SeenTyped
  <2> QED
      BY <1>2, <2>2, <2>3 DEF OnPresenceChange, LineTyped, LinkTyped, SendersTyped, SeenTyped,
         ListsRecorded, netVars, presenceListVars
<1> QED
    BY <1>1, <1>2

LEMMA TypedStep == LineTyped /\ [SessionNext]_sessionVars => LineTyped'
<1>1. CASE UNCHANGED sessionVars
    BY <1>1 DEF sessionVars, netVars, presenceListVars, seenVars, LineTyped, LinkTyped, SendersTyped,
       SeenTyped, ListsRecorded
<1> QED
    BY <1>1, LinkSteps, ListSteps, PresenceSteps DEF SessionNext

LEMMA TypedBegin == SessionInit => LineTyped
<1> SUFFICES ASSUME SessionInit PROVE LineTyped
    OBVIOUS
<1>1. LinkTyped
  <2>1. greeted \in BOOLEAN /\ gate \in BOOLEAN
      BY Zenon DEF SessionInit
  <2>2. mgr = "dial" /\ backoff = 1 /\ url = NoUrl /\ gone = {} /\ link = "none"
      BY DEF SessionInit
  <2> QED
      BY <2>1, <2>2, SessionAssumption DEF LinkTyped
<1>2. sender \in [Senders -> SenderState] /\ \A s \in Senders : sender[s].at = "rest"
    BY DEF SessionInit, SenderState, SessionRests
<1>3. SendersTyped
    BY <1>2 DEF SessionInit, SendersTyped, ListsRecorded
<1>4. SeenTyped
    BY DEF SessionInit, SeenTyped, States
<1> QED
    BY <1>1, <1>3, <1>4 DEF LineTyped

\* Types, and which lists hold whom: nobody is asked about who is not on the list
\* Slack was sent, and no list holds anybody who is not recorded.
THEOREM SessionTypeCorrect == SessionSpec => []SessionTypeOK
<1>1. LineTyped => SessionTypeOK
  <2> SUFFICES ASSUME LineTyped PROVE SessionTypeOK
      OBVIOUS
  <2>1. \A s \in Senders :
          \/ sender[s].at \in {"rest", "backfill"}
          \/ sender[s].list \subseteq presSubs /\ sender[s].ask \subseteq sender[s].list
      BY DEF LineTyped, SendersTyped, ListsRecorded, SenderState, SessionRests
  <2> QED
      BY <2>1 DEF LineTyped, LinkTyped, SendersTyped, SeenTyped, Event, SessionTypeOK
<1> QED
    BY <1>1, TypedBegin, TypedStep, PTL DEF SessionSpec


-----------------------------------------------------------------------------
(* What is shown of whom the daemon asked about                            *)

\* The events on their way leave everybody asked about at Slack's state.
Answered ==
    link = "open" => \A u \in asked : EndsAs(wire, u, presence[u], truth[u])

LEMMA ConnectionAnswers ==
    ASSUME LineTyped, Answered,
           \/ Manager \/ DialFails \/ DialHangs \/ PeerEnds \/ Drop \/ ReadDeadline \/ StopWebSocket \/ GateExpires
           \/ \E u \in GatewayUrls : OnReconnectURL(u) \/ GatewayLeaves(u)
    PROVE  Answered'
<1>1. \/ asked' = {}
      \/ link' \in {"ended", "silent"}
      \/ UNCHANGED <<link, asked, wire, presence, truth>>
    BY DEF Manager, StartWebSocket, DialFails, DialHangs, PeerEnds, Redial, WsDone, Drop, ReadDeadline, StopWebSocket,
       OnReconnectURL, GatewayLeaves, GateExpires, netVars, seenVars
<1> QED
    BY <1>1 DEF Answered

\* A new list takes users off; a query is answered after what is on its way.
LEMMA ListsAnswer ==
    ASSUME LineTyped, Answered, NEW s \in Senders,
           \/ OnConnect(s) \/ ResubPresence(s)
           \/ (\E ids \in SUBSET SessionUsers : WatchPresence(s, ids))
           \/ SubscribePresence(s) \/ QueryPresence(s)
    PROVE  Answered'
<1>1. CASE \/ OnConnect(s) \/ ResubPresence(s) \/ SubscribePresence(s)
           \/ \E ids \in SUBSET SessionUsers : WatchPresence(s, ids)
  <2>1. asked' \subseteq asked /\ UNCHANGED <<link, wire, presence, truth>>
      BY <1>1 DEF OnConnect, ResubPresence, SubscribePresence, WatchPresence, netVars, seenVars
  <2> QED
      BY <2>1 DEF Answered
<1>2. CASE QueryPresence(s) /\ link # "open"
    BY <1>2 DEF QueryPresence, netVars, Answered
<1>3. CASE QueryPresence(s) /\ link = "open"
  <2> DEFINE ask == sender[s].ask
  <2>1. sender[s] \in [at : {"subscribe", "query"}, list : SUBSET SessionUsers,
                      ask : SUBSET SessionUsers]
      BY <1>3 DEF QueryPresence, LineTyped, SendersTyped, SenderState, SessionRests
  <2>2. ask \in SUBSET SessionUsers
      BY <2>1
  <2>3. /\ asked' = asked \cup (ask \cap subs) /\ wire' = wire \o Answers(ask)
        /\ UNCHANGED <<link, truth, presence>>
      BY <1>3 DEF QueryPresence, netVars
  <2> HIDE DEF ask
  <2>4. ASSUME NEW u \in asked' PROVE EndsAs(wire', u, presence'[u], truth'[u])
    <3>1. u \in SessionUsers /\ presence[u] \in States
        BY <2>2, <2>3 DEF LineTyped, SendersTyped, SeenTyped
    <3>2. u \in ask \/ EndsAs(wire, u, presence[u], truth[u])
        BY <1>3, <2>3 DEF Answered
    <3>3. EndsAs(wire \o Answers(ask), u, presence[u], truth[u])
        BY <2>2, <3>1, <3>2, AnswersEnd DEF LineTyped, SeenTyped
    <3> QED
        BY <2>3, <3>3
  <2> QED
      BY <2>4 DEF Answered
<1> QED
    BY <1>1, <1>2, <1>3

\* Who is on the list is told of; an event leaves its users where it says.
LEMMA PresenceAnswers ==
    ASSUME LineTyped, Answered, (\E u \in SessionUsers : Moves(u)) \/ OnPresenceChange
    PROVE  Answered'
<1>1. ASSUME NEW u \in SessionUsers, Moves(u), link = "open" PROVE Answered'
  <2> DEFINE x == CHOOSE y \in States : y # truth[u]
             e == [users |-> {u}, state |-> x]
  <2>1. /\ truth' = [truth EXCEPT ![u] = x] /\ UNCHANGED <<link, asked, presence>>
        /\ wire' = IF u \in subs THEN Append(wire, e) ELSE wire
      BY <1>1 DEF Moves, netVars
  <2>2. e \in Event /\ e.users = {u} /\ e.state = x
      BY DEF States, Event
  <2> HIDE DEF x, e
  <2>3. ASSUME NEW n \in asked PROVE EndsAs(wire', n, presence[n], truth'[n])
    <3>1. n \in SessionUsers /\ n \in subs /\ EndsAs(wire, n, presence[n], truth[n])
        BY <1>1 DEF Answered, LineTyped, SendersTyped
    <3>2. CASE u \in subs
      <4>1. \/ n \in e.users /\ e.state = truth'[n]
            \/ n \notin e.users /\ EndsAs(wire, n, presence[n], truth'[n])
        <5>1. CASE n = u
            BY <2>1, <2>2, <5>1 DEF LineTyped, SeenTyped
        <5>2. CASE n # u
          <6>1. truth'[n] = truth[n] /\ n \notin e.users
              BY <2>1, <2>2, <3>1, <5>2 DEF LineTyped, SeenTyped
          <6> QED
              BY <3>1, <6>1
        <5> QED
            BY <5>1, <5>2
      <4>2. wire \in Seq(Event)
          BY DEF LineTyped, SeenTyped
      <4>3. EndsAs(Append(wire, e), n, presence[n], truth'[n])
          BY <2>2, <4>1, <4>2, AppendEnds
      <4> QED
          BY <2>1, <3>2, <4>3
    <3>3. CASE u \notin subs
      <4>1. n # u /\ truth'[n] = truth[n] /\ wire' = wire
          BY <2>1, <3>1, <3>3 DEF LineTyped, SeenTyped
      <4> QED
          BY <3>1, <4>1
    <3> QED
        BY <3>2, <3>3
  <2> QED
      BY <2>1, <2>3 DEF Answered
<1>2. ASSUME NEW u \in SessionUsers, Moves(u), link # "open" PROVE Answered'
    BY <1>2 DEF Moves, netVars, Answered
<1>3. CASE OnPresenceChange
  <2>1. /\ wire \in Seq(Event) /\ wire # <<>> /\ link = "open"
        /\ wire' = Tail(wire) /\ UNCHANGED <<link, asked, truth>>
        /\ presence' = [u \in SessionUsers |-> IF u \in Head(wire).users
                                              THEN Head(wire).state ELSE presence[u]]
      BY <1>3 DEF OnPresenceChange, Batch, netVars, LineTyped, SeenTyped
  <2>2. ASSUME NEW u \in asked PROVE EndsAs(Tail(wire), u, presence'[u], truth[u])
    <3>1. EndsAs(wire, u, presence[u], truth[u]) /\ u \in SessionUsers
        BY <2>1 DEF Answered, LineTyped, SendersTyped
    <3>2. presence'[u] = IF u \in Head(wire).users THEN Head(wire).state ELSE presence[u]
        BY <2>1, <3>1
    <3> QED
        BY <2>1, <3>1, <3>2, TailEnds
  <2> QED
      BY <2>1, <2>2 DEF Answered
<1> QED
    BY <1>1, <1>2, <1>3

LEMMA AnsweredStep == LineTyped /\ Answered /\ [SessionNext]_sessionVars => Answered'
<1>1. CASE UNCHANGED sessionVars
    BY <1>1 DEF sessionVars, netVars, seenVars, Answered
<1> QED
    BY <1>1, ConnectionAnswers, ListsAnswer, PresenceAnswers DEF SessionNext

\* When nothing is on its way, a user the daemon asked about, and who has been on the
\* list Slack holds ever since, is shown as Slack has them: for any users, senders,
\* connections and changes (backfill.go:47-100, events.go:344-356).
THEOREM AskedIsShown == SessionSpec => []AskedIsCurrent
<1>1. SessionInit => Answered
    BY DEF SessionInit, Answered
<1>2. Answered => AskedIsCurrent
  <2> SUFFICES ASSUME Answered, link = "open", wire = <<>>, NEW u \in asked
               PROVE  presence[u] = truth[u]
      BY DEF AskedIsCurrent
  <2>1. EndsAs(wire, u, presence[u], truth[u]) /\ DOMAIN wire = {}
      BY DEF Answered
  <2> QED
      BY <2>1 DEF EndsAs, Says
<1> QED
    BY <1>1, <1>2, AnsweredStep, TypedBegin, TypedStep, PTL DEF SessionSpec
=============================================================================
