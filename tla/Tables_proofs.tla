---------------------------- MODULE Tables_proofs -----------------------------
(***************************************************************************)
(* Proofs about Tables: its three components, and all together; and about  *)
(* Listings, the pages that fill them.                                     *)
(***************************************************************************)
EXTENDS Workspace, Desktop_proofs, People_proofs, WellFoundedInduction, FiniteSetTheorems, TLAPS

-----------------------------------------------------------------------------
(* Reactions                                                               *)

ReactionEvent == [user : Reactors, added : BOOLEAN]
ReactionRow == [users : SUBSET Reactors, count : Int]

ReactionsTyped ==
    /\ slack \subseteq Reactors /\ row \in ReactionRow /\ mixed \in BOOLEAN
    /\ reactionEvents \in Seq(ReactionEvent)
    /\ reading = Nothing \/ reading \in [at : {"row"}, event : ReactionEvent, row : ReactionRow]
    /\ page = Nothing \/ page \in [at : {"page"}, slack : SUBSET Reactors]

\* What an event does to the users who react: it adds one who did not, or takes off one
\* who did.
ReactionSteps ==
    {step \in (SUBSET Reactors) \X ReactionEvent \X (SUBSET Reactors) :
        /\ step[2].added <=> step[2].user \notin step[1]
        /\ step[3] = Toggled(step[1], step[2].user)}

\* A row that is right about the users by, of whom it lists some if there are any.
RightAbout(r, by) ==
    /\ r.count = Cardinality(by) /\ r.users \subseteq by
    /\ r.users = {} => by = {}

\* The row is right about the users of some earlier time, and the event at hand and
\* those on their way lead from them to who reacts now.
RowBehind ==
    ~ mixed =>
        \E was, next \in SUBSET Reactors :
            /\ RightAbout(row, was)
            /\ Leads(reactionEvents, ReactionSteps, SUBSET Reactors, next, slack)
            /\ reading = Nothing => next = was
            /\ reading # Nothing =>
                    reading.row = row /\ <<was, reading.event, next>> \in ReactionSteps

ReactionsInv == ReactionsTyped /\ RowBehind

-----------------------------------------------------------------------------
LEMMA SomeReact ==
    ASSUME NEW by \in SUBSET Reactors, NEW u \in Reactors
    PROVE  /\ Cardinality(by) \in Nat /\ (Cardinality(by) = 0 <=> by = {})
           /\ u \notin by => Cardinality(by \cup {u}) = Cardinality(by) + 1
           /\ u \in by => Cardinality(by \ {u}) = Cardinality(by) - 1
<1>1. IsFiniteSet(by)
    BY ReactionAssumption, FS_Subset
<1> QED
    BY <1>1, FS_CardinalityType, FS_EmptySet, FS_AddElement, FS_RemoveElement

\* The row an event makes of one that is right is right after it, unless users who are
\* not listed are left with a row that is gone.
LEMMA HandledRight ==
    ASSUME NEW r \in ReactionRow, NEW was, NEW e \in ReactionEvent, NEW next,
           RightAbout(r, was), <<was, e, next>> \in ReactionSteps
    PROVE  /\ e.added => RightAbout(RowAdded(r, e.user), next)
           /\ ~ e.added => /\ r # NoRow
                           /\ RightAbout(RowRemoved(r, e.user), next)
                                \/ (RowRemoved(r, e.user) = NoRow /\ r.count > 1)
<1> DEFINE u == e.user
<1>1. /\ was \in SUBSET Reactors /\ u \in Reactors
      /\ e.added <=> u \notin was
      /\ next = Toggled(was, u)
    BY DEF ReactionSteps, ReactionEvent
<1> HIDE DEF u
<1>2. ASSUME e.added
      PROVE  RightAbout(RowAdded(r, u), next)
    BY <1>1, <1>2, SomeReact DEF RightAbout, RowAdded, Toggled
<1>3. ASSUME ~ e.added
      PROVE  r # NoRow /\ (RightAbout(RowRemoved(r, u), next)
                            \/ (RowRemoved(r, u) = NoRow /\ r.count > 1))
  <2>1. u \in was /\ next = was \ {u} /\ Cardinality(next) = Cardinality(was) - 1
      BY <1>1, <1>3, SomeReact DEF Toggled
  <2>2. Cardinality(was) \in Nat /\ Cardinality(was) # 0 /\ r.count = Cardinality(was)
      BY <1>1, <2>1, SomeReact DEF RightAbout
  <2>3. CASE r.users \subseteq {u} /\ r.count = 1
    <3>1. next \in SUBSET Reactors /\ Cardinality(next) = 0
        BY <1>1, <2>1, <2>2, <2>3
    <3>2. next = {}
        BY <3>1, SomeReact
    <3> QED
        BY <2>1, <2>2, <2>3, <3>2 DEF RightAbout, RowRemoved, NoRow
  <2>4. CASE r.users \subseteq {u} /\ r.count # 1
      BY <2>2, <2>4 DEF RowRemoved, NoRow
  <2>5. CASE ~ (r.users \subseteq {u})
      BY <2>1, <2>2, <2>5 DEF RightAbout, RowRemoved, NoRow
  <2> QED
      BY <2>3, <2>4, <2>5
<1> QED
    BY <1>2, <1>3 DEF u

LEMMA PageRight ==
    ASSUME NEW by \in SUBSET Reactors, NEW r \in PageRows(by)
    PROVE  r \in ReactionRow /\ RightAbout(r, by)
<1>1. IsFiniteSet(by) /\ r.users \subseteq by /\ IsFiniteSet(r.users)
    BY ReactionAssumption, FS_Subset DEF PageRows
<1>2. Cardinality(by) \in Nat /\ (Cardinality(by) = 0 <=> by = {})
    BY <1>1, FS_CardinalityType, FS_EmptySet
<1>3. r.users = {} => Cardinality(r.users) = 0
    BY FS_EmptySet
<1> QED
    BY <1>1, <1>2, <1>3, ReactionAssumption DEF PageRows, ReactionRow, RightAbout

-----------------------------------------------------------------------------
LEMMA ReactKeeps ==
    ASSUME ReactionsInv, NEW u \in Reactors, React(u)
    PROVE  ReactionsInv'
<1> DEFINE e == [user |-> u, added |-> u \notin slack]
<1>1. e \in ReactionEvent /\ slack' \in SUBSET Reactors /\ reactionEvents' = Append(reactionEvents, e)
    BY DEF ReactionEvent, ReactionsInv, ReactionsTyped, React, Toggled
<1>2. <<slack, e, slack'>> \in ReactionSteps
    BY <1>1 DEF ReactionSteps, ReactionsInv, ReactionsTyped, React
<1> HIDE DEF e
<1>3. ReactionsTyped'
    BY <1>1 DEF ReactionsInv, ReactionsTyped, React
<1>4. ASSUME NEW next, Leads(reactionEvents, ReactionSteps, SUBSET Reactors, next, slack)
      PROVE  Leads(reactionEvents', ReactionSteps, SUBSET Reactors, next, slack')
    BY <1>1, <1>2, <1>4, LeadsFurther DEF ReactionsInv, ReactionsTyped
<1>5. RowBehind'
    BY <1>4 DEF ReactionsInv, RowBehind, React
<1> QED
    BY <1>3, <1>5 DEF ReactionsInv

LEMMA GetReactionsKeeps ==
    ASSUME ReactionsInv, GetReactions
    PROVE  ReactionsInv'
<1> DEFINE e == Head(reactionEvents)
<1>1. e \in ReactionEvent /\ reactionEvents' \in Seq(ReactionEvent)
    BY DEF ReactionsInv, ReactionsTyped, GetReactions
<1>2. reading = Nothing /\ reading' = [at |-> "row", event |-> e, row |-> row]
    BY DEF GetReactions
<1> HIDE DEF e
<1>3. reading'.event = e /\ reading'.row = row /\ reading' # Nothing
    BY <1>2 DEF Nothing
<1>4. ReactionsTyped'
    BY <1>1, <1>2 DEF ReactionsInv, ReactionsTyped, GetReactions
<1>5. ASSUME ~ mixed
      PROVE  RowBehind'
  <2>1. PICK was \in SUBSET Reactors :
            /\ RightAbout(row, was)
            /\ Leads(reactionEvents, ReactionSteps, SUBSET Reactors, was, slack)
      BY <1>2, <1>5 DEF ReactionsInv, RowBehind
  <2>2. PICK next \in SUBSET Reactors :
            /\ <<was, e, next>> \in ReactionSteps
            /\ Leads(Tail(reactionEvents), ReactionSteps, SUBSET Reactors, next, slack)
      BY <2>1, LeadsOn DEF e, GetReactions, ReactionsInv, ReactionsTyped
  <2> QED
      BY <1>3, <2>1, <2>2 DEF RowBehind, GetReactions
<1>6. mixed => RowBehind'
    BY DEF RowBehind, GetReactions
<1> QED
    BY <1>4, <1>5, <1>6 DEF ReactionsInv

LEMMA UpsertReactionKeeps ==
    ASSUME ReactionsInv, UpsertReaction
    PROVE  ReactionsInv'
<1> DEFINE e == reading.event
           r == reading.row
<1>1. e \in ReactionEvent /\ r \in ReactionRow /\ e.user \in Reactors /\ reading # Nothing
    BY DEF UpsertReaction, ReactionsInv, ReactionsTyped, ReactionEvent
<1>2. /\ row' = IF e.added THEN RowAdded(r, e.user)
                ELSE IF r = NoRow THEN row ELSE RowRemoved(r, e.user)
      /\ mixed' = (mixed \/ (row' = NoRow /\ r.count > 1))
      /\ reading' = Nothing /\ UNCHANGED <<slack, reactionEvents, page>>
    BY DEF UpsertReaction
<1>3. row' \in ReactionRow
  <2>1. RowAdded(r, e.user) \in ReactionRow /\ RowRemoved(r, e.user) \in ReactionRow
      BY <1>1 DEF RowAdded, RowRemoved, NoRow, ReactionRow
  <2> QED
      BY <1>2, <2>1 DEF ReactionsInv, ReactionsTyped
<1> HIDE DEF e, r
<1>4. ReactionsTyped'
    BY <1>2, <1>3 DEF ReactionsInv, ReactionsTyped
<1>5. ASSUME ~ mixed'
      PROVE  RowBehind'
  <2>1. PICK was, next \in SUBSET Reactors :
            /\ RightAbout(r, was) /\ <<was, e, next>> \in ReactionSteps
            /\ Leads(reactionEvents, ReactionSteps, SUBSET Reactors, next, slack)
      BY <1>1, <1>2, <1>5 DEF e, r, ReactionsInv, RowBehind
  <2>2. RightAbout(row', next)
      BY <1>1, <1>2, <1>5, <2>1, HandledRight
  <2> QED
      BY <1>2, <2>1, <2>2 DEF RowBehind
<1> QED
    BY <1>4, <1>5 DEF ReactionsInv, RowBehind

LEMMA PagesKeep ==
    ASSUME ReactionsInv, FetchPage \/ PersistReactions
    PROVE  ReactionsInv'
<1>1. CASE FetchPage
  <2>1. ReactionsTyped'
      BY <1>1 DEF FetchPage, ReactionsInv, ReactionsTyped
  <2> QED
      BY <1>1, <2>1 DEF FetchPage, ReactionsInv, RowBehind
<1>2. CASE PersistReactions
  <2>1. page.slack \in SUBSET Reactors
      BY <1>2 DEF PersistReactions, ReactionsInv, ReactionsTyped
  <2>2. row' \in ReactionRow /\ RightAbout(row', page.slack)
      BY <1>2, <2>1, PageRight DEF PersistReactions
  <2>3. ReactionsTyped'
      BY <1>2, <2>2 DEF PersistReactions, ReactionsInv, ReactionsTyped
  <2>4. ~ mixed' => reactionEvents' = <<>> /\ reading' = Nothing /\ slack' = page.slack
      BY <1>2 DEF PersistReactions
  <2>5. Leads(<<>>, ReactionSteps, SUBSET Reactors, page.slack, page.slack)
      BY <2>1, NothingLeads
  <2> QED
      BY <2>1, <2>2, <2>3, <2>4, <2>5 DEF ReactionsInv, RowBehind
<1> QED
    BY <1>1, <1>2

\* A cached row is always a right one that is behind by the events on their way, unless
\* one of the two ways to lose track has happened (wshandler.go:84-121).
THEOREM ReactionsInvHolds == ReactionsSpec => []ReactionsInv
<1>1. ReactionsInit => ReactionsInv
  <2> SUFFICES ASSUME ReactionsInit PROVE ReactionsInv
      OBVIOUS
  <2>1. ReactionsTyped
    <3>1. NoRow \in ReactionRow /\ <<>> \in Seq(ReactionEvent)
        BY DEF ReactionRow, NoRow
    <3> QED
        BY <3>1 DEF ReactionsInit, ReactionsTyped
  <2>2. RightAbout(row, {})
      BY FS_EmptySet DEF ReactionsInit, RightAbout, NoRow
  <2>3. Leads(<<>>, ReactionSteps, SUBSET Reactors, {}, {})
      BY NothingLeads
  <2> QED
      BY <2>1, <2>2, <2>3 DEF ReactionsInit, ReactionsInv, RowBehind
<1>2. ReactionsInv /\ [ReactionsNext]_reactionVars => ReactionsInv'
  <2> SUFFICES ASSUME ReactionsInv, [ReactionsNext]_reactionVars
               PROVE  ReactionsInv'
      OBVIOUS
  <2>1. CASE UNCHANGED reactionVars
      BY <2>1 DEF reactionVars, ReactionsInv, ReactionsTyped, RowBehind
  <2> QED
      BY <2>1, ReactKeeps, GetReactionsKeeps, UpsertReactionKeeps, PagesKeep DEF ReactionsNext
<1> QED
    BY <1>1, <1>2, PTL DEF ReactionsSpec

LEMMA ReactionsFromInv ==
    ASSUME ReactionsInv
    PROVE  ReactionsAgree /\ ReactionsTypeOK
<1>1. ReactionsTypeOK
    BY DEF ReactionsInv, ReactionsTyped, ReactionRow, ReactionsTypeOK
<1>2. ASSUME reactionEvents = <<>>, reading = Nothing, ~ mixed
      PROVE  RightAbout(row, slack)
  <2>1. PICK was \in SUBSET Reactors :
            /\ RightAbout(row, was)
            /\ Leads(reactionEvents, ReactionSteps, SUBSET Reactors, was, slack)
      BY <1>2 DEF ReactionsInv, RowBehind
  <2>2. was = slack
      BY <1>2, <2>1, NothingLeads
  <2> QED
      BY <2>1, <2>2
<1> QED
    BY <1>1, <1>2 DEF ReactionsAgree, RightAbout

\* Once every event is handled, a row counts as many as react on Slack and lists only
\* who do, unless a page and an event passed each other or the row went while users it
\* does not list react (wshandler.go:84-121, cache_render.go:35-47).
THEOREM ReactionsAgreeHolds == ReactionsSpec => []ReactionsAgree
BY ReactionsInvHolds, ReactionsFromInv, PTL

-----------------------------------------------------------------------------
(* SearchStore                                                             *)

StoredRow == [text : Texts, deleted : BOOLEAN]

StoreTyped ==
    /\ DOMAIN storedTexts \subseteq Stamps
    /\ storedTexts \in [DOMAIN storedTexts -> StoredRow]
    /\ added \subseteq Columns
    /\ {hasIndex, driver, ftsDisabled} \subseteq BOOLEAN

\* The index, once there is one, holds each row's text and nothing else.
IndexInStep ==
    /\ hasIndex => searchIndex = {<<ts, storedTexts[ts].text>> : ts \in DOMAIN storedTexts}
    /\ ~ hasIndex => searchIndex = {}

\* Opening gets to a step when the ones before it are through.
OpenedInOrder ==
    /\ open \in {"closed", "columns", "search", "open"}
    /\ open \in {"search", "open"} => added = Columns
    /\ open = "open" => ftsDisabled = ~ hasIndex

StoreInv == StoreTyped /\ IndexInStep /\ OpenedInOrder

-----------------------------------------------------------------------------
LEMMA StoreOpening ==
    ASSUME StoreInv, OpenStore \/ AddColumn \/ MigrateSearch \/ Stop
    PROVE  StoreInv'
<1>1. CASE OpenStore
    BY <1>1 DEF StoreInv, StoreTyped, IndexInStep, OpenedInOrder, OpenStore
<1>2. CASE AddColumn
    BY <1>2 DEF StoreInv, StoreTyped, IndexInStep, OpenedInOrder, AddColumn, Missing
<1>3. CASE MigrateSearch
    BY <1>3 DEF StoreInv, StoreTyped, IndexInStep, OpenedInOrder, MigrateSearch
<1>4. CASE Stop
    BY <1>4 DEF StoreInv, StoreTyped, IndexInStep, OpenedInOrder, Stop
<1> QED
    BY <1>1, <1>2, <1>3, <1>4

LEMMA StoreUpserts ==
    ASSUME StoreInv, NEW ts \in Stamps, NEW text \in Texts, UpsertMessage(ts, text)
    PROVE  StoreInv'
<1>1. StoreTyped' /\ OpenedInOrder'
    BY DEF StoreInv, StoreTyped, OpenedInOrder, UpsertMessage, StoredRow
<1>2. /\ DOMAIN storedTexts' = DOMAIN storedTexts \cup {ts}
      /\ storedTexts'[ts].text = text
      /\ \A t \in DOMAIN storedTexts : t # ts => storedTexts'[t] = storedTexts[t]
    BY DEF UpsertMessage
<1>3. hasIndex' = hasIndex
      /\ searchIndex' = IF hasIndex THEN Trigger(ts, text) ELSE searchIndex
    BY DEF UpsertMessage
<1>4. IndexInStep'
  <2>1. CASE ~ hasIndex
      BY <1>3, <2>1 DEF StoreInv, IndexInStep
  <2>2. CASE hasIndex
    <3>1. \A e : e \in searchIndex <=> \E t \in DOMAIN storedTexts : e = <<t, storedTexts[t].text>>
        BY <2>2 DEF StoreInv, IndexInStep
    <3>2. \A e : e \in searchIndex'
                    <=> \E t \in DOMAIN storedTexts' : e = <<t, storedTexts'[t].text>>
        BY <1>2, <1>3, <2>2, <3>1 DEF Trigger
    <3> QED
        BY <1>3, <2>2, <3>2 DEF IndexInStep
  <2> QED
      BY <2>1, <2>2
<1> QED
    BY <1>1, <1>4 DEF StoreInv

LEMMA StoreDeletes ==
    ASSUME StoreInv, NEW ts \in Stamps, DeleteMessage(ts)
    PROVE  StoreInv'
<1>1. /\ DOMAIN storedTexts' = DOMAIN storedTexts
      /\ storedTexts' \in [DOMAIN storedTexts -> StoredRow]
      /\ \A t \in DOMAIN storedTexts : storedTexts'[t].text = storedTexts[t].text
    BY DEF StoreInv, StoreTyped, StoredRow, DeleteMessage
<1> QED
    BY <1>1 DEF StoreInv, StoreTyped, IndexInStep, OpenedInOrder, DeleteMessage

\* The index of an open database is that of its rows at every step (db.go:77-271).
THEOREM StoreInvHolds == StoreSpec => []StoreInv
<1>1. StoreInit => StoreInv
    BY DEF StoreInit, StoreInv, StoreTyped, IndexInStep, OpenedInOrder
<1>2. StoreInv /\ [StoreNext]_storeVars => StoreInv'
  <2> SUFFICES ASSUME StoreInv, [StoreNext]_storeVars
               PROVE  StoreInv'
      OBVIOUS
  <2>1. CASE UNCHANGED storeVars
      BY <2>1 DEF storeVars, StoreInv, StoreTyped, IndexInStep, OpenedInOrder
  <2> QED
      BY <2>1, StoreOpening, StoreUpserts, StoreDeletes DEF StoreNext
<1> QED
    BY <1>1, <1>2, PTL DEF StoreSpec

LEMMA SearchFromInv ==
    ASSUME StoreInv
    PROVE  SearchFinds /\ StoreTypeOK
<1>1. StoreTypeOK
    BY DEF StoreTypeOK, StoreInv, StoreTyped, StoredRow, IndexInStep
<1>2. ASSUME open = "open", NEW query \in SUBSET Terms
      PROVE  SearchChannelMessages(query) =
                {ts \in Stamps : InFeed(ts) /\
                    Matches(storedTexts[ts].text, query, IF ftsDisabled THEN Within ELSE Starts)}
  <2>1. CASE ftsDisabled
      BY <2>1 DEF SearchChannelMessages, StoreInv, StoreTyped, InFeed
  <2>2. CASE ~ ftsDisabled
    <3>1. \A e : e \in searchIndex <=> \E t \in DOMAIN storedTexts : e = <<t, storedTexts[t].text>>
        BY <1>2, <2>2 DEF StoreInv, IndexInStep, OpenedInOrder, StoreTyped
    <3>2. ASSUME NEW ts \in Stamps, InFeed(ts)
          PROVE  (\E e \in searchIndex : e[1] = ts /\ Matches(e[2], query, Starts))
                    <=> Matches(storedTexts[ts].text, query, Starts)
      <4>1. ts \in DOMAIN storedTexts
          BY <3>2 DEF InFeed
      <4>2. ASSUME NEW e \in searchIndex, e[1] = ts, Matches(e[2], query, Starts)
            PROVE  Matches(storedTexts[ts].text, query, Starts)
        <5>1. e[2] = storedTexts[ts].text
            BY <3>1, <4>2
        <5> QED
            BY <4>2, <5>1
      <4>3. ASSUME Matches(storedTexts[ts].text, query, Starts)
            PROVE  \E e \in searchIndex : e[1] = ts /\ Matches(e[2], query, Starts)
        <5> DEFINE entry == <<ts, storedTexts[ts].text>>
        <5>1. entry \in searchIndex /\ entry[1] = ts /\ entry[2] = storedTexts[ts].text
            BY <3>1, <4>1
        <5> HIDE DEF entry
        <5> QED
            BY <4>3, <5>1
      <4> QED
          BY <4>2, <4>3
    <3> QED
        BY <2>2, <3>2 DEF SearchChannelMessages
  <2> QED
      BY <2>1, <2>2
<1>3. open = "open" => added = Columns
    BY DEF StoreInv, OpenedInOrder
<1> QED
    BY <1>1, <1>2, <1>3 DEF SearchFinds

\* A search of an open database finds the messages of the feed that hold the terms now,
\* and no other, whatever was written, edited, deleted and revived and however often
\* opening was cut short (search.go:40-118, db.go:77-271).
THEOREM SearchFindsHolds == StoreSpec => []SearchFinds
BY StoreInvHolds, SearchFromInv, PTL

-----------------------------------------------------------------------------
(* ReadState                                                               *)

ReadLine == [kind : {"message", "unread"}, n : Nat]

ReadTyped ==
    /\ written \in Nat /\ written <= MaxTS
    /\ rows \subseteq 1 .. written /\ uncached \subseteq 1 .. written
    /\ others \subseteq 1 .. written
    /\ rows \cap uncached = {} /\ rows \cap others = {} /\ uncached \cap others = {}
    /\ behind \subseteq rows
    /\ lastRead \in Nat /\ mark \in Nat /\ covered \in Nat /\ cursor \in Nat /\ known \in Nat
    /\ seen \subseteq Nat /\ snapshot \subseteq Nat /\ echoes \in Seq(Nat)
    /\ tick.at \in {"wait", "rows", "unread", "push"}
    /\ readWire \in Seq(ReadLine)
    /\ viewing \in BOOLEAN /\ badge \in Nat

\* Nobody writes a mark that Slack has not had, so none goes past the highest of them.
MarksBehind ==
    /\ covered <= written /\ mark <= covered /\ lastRead <= covered /\ known <= covered
    /\ \A ts \in snapshot : ts <= covered
    /\ \A i \in 1 .. Len(echoes) : echoes[i] <= covered

\* A tick has before it what is past the cursor, but for what was cached since it began;
\* of that, what is not behind lies past all it has.
TickInOrder ==
    /\ cursor <= written
    /\ tick.at = "rows" =>
           /\ tick = [at |-> "rows", rest |-> tick.rest] /\ tick.rest \subseteq rows \cup others
           /\ \A y \in tick.rest : y > cursor
           /\ \A x \in rows \ behind :
                 x > cursor => x \in tick.rest \/ \A y \in tick.rest : x > y
    /\ tick.at = "push" =>
           tick = [at |-> "push", unread |-> tick.unread] /\ tick.unread \subseteq rows

\* No count that comes after the line i says that nothing is unread.
NoneCleared(came, i) ==
    \A j \in 1 .. Len(came) : j > i /\ came[j].kind = "unread" => came[j].n > 0

\* A line that raises the badge for the message x.
Raises(line, x) ==
    \/ line.kind = "message" /\ line.n = x
    \/ line.kind = "unread" /\ line.n > 0

\* A message is shown by the badge, or will be: a line for it is on its way.
WillShow(came, x) ==
    \/ badge > 0 /\ NoneCleared(came, 0)
    \/ \E i \in 1 .. Len(came) : Raises(came[i], x) /\ NoneCleared(came, i)

ToldUnseen(x) == x \in rows \ (seen \cup behind) /\ x > covered /\ x <= cursor

UnseenShow == \A x \in Nat : ToldUnseen(x) => WillShow(readWire, x)

\* The count at hand has what was told.
CountAtHand == \A x \in Nat : ToldUnseen(x) /\ tick.at = "push" => x \in tick.unread

ReadInv == ReadTyped /\ MarksBehind /\ TickInOrder /\ UnseenShow /\ CountAtHand

-----------------------------------------------------------------------------
(* The newest row, the first row to tell, and the count                    *)

LEMMA LeastIs ==
    ASSUME NEW T \in SUBSET Nat, T # {}
    PROVE  Min(T) \in T /\ \A y \in T : Min(T) <= y
<1> DEFINE R == {ss \in Nat \X Nat : ss[1] < ss[2]}
<1>1. IsWellFoundedOn(R, Nat)
  <2>1. R = OpToRel(<, Nat)
      BY DEF OpToRel
  <2> QED
      BY <2>1, NatLessThanWellFounded
<1>2. PICK x \in T : \A y \in T : ~ (<<y, x>> \in R)
  <2> HIDE DEF R
  <2> QED
      BY <1>1, WFMin
<1>3. \A y \in T : x <= y
  <2>1. \A y \in T : ~ (y < x)
      BY <1>2
  <2> HIDE DEF R
  <2> QED
      BY <2>1
<1>4. \E z \in T : \A y \in T : z =< y
    BY <1>3
<1> HIDE DEF R
<1>5. Min(T) \in T /\ \A y \in T : Min(T) =< y
    BY <1>4 DEF Min
<1> QED
    BY <1>5

LEMMA GreatestIs ==
    ASSUME NEW n \in Nat, NEW T \in SUBSET (0 .. n), T # {}
    PROVE  Max(T) \in T /\ \A y \in T : y <= Max(T)
<1> DEFINE D == {n - t : t \in T}
<1>1. \A t \in T : t \in Nat /\ n - t \in Nat
    OBVIOUS
<1>2. D \in SUBSET Nat /\ D # {}
    BY <1>1
<1>3. PICK d \in D : \A e \in D : d <= e
  <2> HIDE DEF D
  <2> QED
      BY <1>2, LeastIs
<1>4. PICK t \in T : d = n - t
    OBVIOUS
<1>5. ASSUME NEW u \in T PROVE t >= u
  <2>1. d <= n - u
      BY <1>3
  <2> QED
      BY <2>1, <1>1, <1>4
<1>6. PICK m \in T : \A y \in T : m >= y
    BY <1>5
<1>7. Max(T) \in T /\ \A y \in T : Max(T) >= y
    BY <1>6 DEF Max
<1> QED
    BY <1>1, <1>7

LEMMA NewestIs ==
    ASSUME ReadTyped
    PROVE  /\ NewestRow \in Nat /\ NewestRow <= written
           /\ \A x \in rows : x <= NewestRow
<1>1. written \in Nat /\ rows \cup {0} \in SUBSET (0 .. written) /\ rows \cup {0} # {}
    BY DEF ReadTyped
<1>2. /\ Max(rows \cup {0}) \in rows \cup {0}
      /\ \A y \in rows \cup {0} : y <= Max(rows \cup {0})
    BY <1>1, GreatestIs
<1> QED
    BY <1>1, <1>2 DEF NewestRow

\* How many there are of some of the rows.
LEMMA SomeRows ==
    ASSUME ReadTyped, NEW S \in SUBSET rows
    PROVE  Cardinality(S) \in Nat /\ (S # {} => Cardinality(S) > 0)
<1>1. IsFiniteSet(S)
  <2>1. S \subseteq 1 .. written /\ 1 \in Int /\ written \in Int
      BY DEF ReadTyped
  <2> QED
      BY <2>1, FS_Interval, FS_Subset
<1> QED
    BY <1>1, FS_CardinalityType, FS_EmptySet

-----------------------------------------------------------------------------
(* What a step must do to keep the messages shown                          *)

\* The client and its line are as they were, and no message is newly told.
LEMMA ClientAlone ==
    ASSUME ReadInv, UNCHANGED <<readWire, clientState, cursor>>,
           rows \subseteq rows', covered' \in Nat, covered <= covered', behind \subseteq behind',
           \A x \in rows' \ rows : x > cursor \/ x \in behind'
    PROVE  UnseenShow'
<1>1. \A x \in Nat : ToldUnseen(x)' => ToldUnseen(x)
  <2> SUFFICES ASSUME NEW x \in Nat, ToldUnseen(x)' PROVE ToldUnseen(x)
      OBVIOUS
  <2>1. x \in rows' /\ x \notin seen /\ x \notin behind' /\ x > covered' /\ x <= cursor
      BY DEF ToldUnseen, clientState
  <2>2. cursor \in Nat /\ covered \in Nat
      BY DEF ReadInv, ReadTyped
  <2>3. x \in rows
      BY <2>1, <2>2
  <2> QED
      BY <2>1, <2>2, <2>3 DEF ToldUnseen
<1> QED
    BY <1>1 DEF UnseenShow, WillShow, NoneCleared, clientState, ReadInv

\* A mark is taken, and the table has it or not.
LEMMA MarkTaken ==
    ASSUME ReadInv, NEW ts \in Nat, ts <= written, Marked(ts),
           lastRead' = lastRead \/ lastRead' = ts,
           UNCHANGED <<rowVars, snapshot, pollVars>>
    PROVE  /\ mark' \in Nat /\ covered' \in Nat /\ covered <= covered' /\ ts <= covered'
           /\ lastRead' \in Nat /\ echoes' \in Seq(Nat)
           /\ MarksBehind' /\ TickInOrder'
<1>0. /\ mark' = ts /\ covered \in Nat /\ lastRead \in Nat /\ covered <= written /\ written \in Nat
      /\ written' = written
    BY DEF Marked, ReadInv, ReadTyped, MarksBehind, rowVars
<1>1. covered' \in Nat /\ covered' <= written /\ covered <= covered' /\ ts <= covered'
  <2>1. {covered, ts} \in SUBSET (0 .. written)
      BY <1>0
  <2>2. Max({covered, ts}) \in {covered, ts} /\ \A y \in {covered, ts} : y <= Max({covered, ts})
      BY <1>0, <2>1, GreatestIs
  <2> QED
      BY <1>0, <2>2 DEF Marked
<1>2. echoes' \in Seq(Nat) /\ \A i \in 1 .. Len(echoes') : echoes'[i] <= covered'
  <2>1. echoes \in Seq(Nat) /\ \A i \in 1 .. Len(echoes) : echoes[i] \in Nat /\ echoes[i] <= covered'
    <3>1. echoes \in Seq(Nat) /\ \A i \in 1 .. Len(echoes) : echoes[i] <= covered
        BY DEF ReadInv, ReadTyped, MarksBehind
    <3>2. \A i \in 1 .. Len(echoes) : echoes[i] \in Nat
        BY <3>1
    <3> QED
        BY <1>0, <1>1, <3>1, <3>2
  <2>2. CASE echoes' = echoes
      BY <2>1, <2>2
  <2>3. CASE echoes' = Append(echoes, ts)
      BY <1>1, <2>1, <2>3
  <2> QED
      BY <2>2, <2>3 DEF Marked
<1>3. MarksBehind'
  <2>1. \A x \in snapshot : x <= covered'
      BY <1>0, <1>1 DEF ReadInv, ReadTyped, MarksBehind
  <2>2. known <= covered' /\ lastRead <= covered'
      BY <1>0, <1>1 DEF ReadInv, ReadTyped, MarksBehind
  <2> QED
      BY <1>0, <1>1, <1>2, <2>1, <2>2 DEF MarksBehind, pollVars
<1>4. TickInOrder'
    BY DEF ReadInv, TickInOrder, pollVars, rowVars
<1> QED
    BY <1>0, <1>1, <1>2, <1>3, <1>4

-----------------------------------------------------------------------------
(* Slack and the table                                                     *)

LEMMA PostKeeps ==
    ASSUME ReadInv, PostMark
    PROVE  ReadInv'
<1>1. /\ written' = written + 1 /\ written \in Nat /\ written' <= MaxTS
      /\ UNCHANGED <<rows, behind, lastRead, markVars, snapshot, pollVars, readWire, clientState>>
      /\ \/ uncached' = uncached \cup {written'} /\ others' = others
         \/ others' = others \cup {written'} /\ uncached' = uncached
    BY ReadStateAssumption DEF PostMark, ReadInv, ReadTyped
<1>2. ReadTyped'
  <2>1. /\ rows \subseteq 1 .. written' /\ uncached' \subseteq 1 .. written'
        /\ others' \subseteq 1 .. written'
    <3>1. /\ rows \subseteq 1 .. written' /\ uncached \subseteq 1 .. written'
          /\ others \subseteq 1 .. written' /\ written' \in 1 .. written'
        BY <1>1 DEF ReadInv, ReadTyped
    <3> QED
        BY <1>1, <3>1
  <2>2. rows \cap uncached' = {} /\ rows \cap others' = {} /\ uncached' \cap others' = {}
    <3>1. written' \notin rows /\ written' \notin others /\ written' \notin uncached
        BY <1>1 DEF ReadInv, ReadTyped
    <3>2. rows \cap uncached = {} /\ rows \cap others = {} /\ uncached \cap others = {}
        BY DEF ReadInv, ReadTyped
    <3> QED
        BY <1>1, <3>1, <3>2
  <2> QED
      BY <1>1, <2>1, <2>2 DEF ReadInv, ReadTyped, pollVars, clientState, markVars
<1>3. MarksBehind'
    BY <1>1 DEF ReadInv, ReadTyped, MarksBehind, pollVars, markVars
<1>4. TickInOrder'
  <2>1. cursor <= written' /\ others \subseteq others'
      BY <1>1 DEF ReadInv, ReadTyped, TickInOrder
  <2> QED
      BY <1>1, <2>1 DEF ReadInv, TickInOrder, pollVars
<1>5. UnseenShow' /\ CountAtHand'
    BY <1>1 DEF ReadInv, UnseenShow, CountAtHand, ToldUnseen, WillShow, pollVars, clientState, markVars
<1> QED
    BY <1>2, <1>3, <1>4, <1>5 DEF ReadInv

LEMMA CachedKeeps ==
    ASSUME ReadInv, NEW x \in uncached, CacheMessage(x)
    PROVE  ReadInv'
<1>1. /\ uncached' = uncached \ {x} /\ rows' = rows \cup {x}
      /\ UNCHANGED <<others, written, lastRead, markVars, snapshot, pollVars, readWire, clientState>>
      /\ behind' = IF Passed(x) THEN behind \cup {x} ELSE behind
    BY DEF CacheMessage
<1>2. x \in Nat /\ x <= written /\ x >= 1 /\ cursor \in Nat /\ x \notin rows /\ x \notin others
    BY DEF ReadInv, ReadTyped
<1>3. ReadTyped'
    BY <1>1, <1>2 DEF ReadInv, ReadTyped, pollVars, clientState, markVars
<1>4. MarksBehind'
    BY <1>1 DEF ReadInv, MarksBehind, pollVars, markVars
<1>5. TickInOrder'
  <2>1. tick' = tick /\ cursor' = cursor /\ written' = written
      BY <1>1 DEF pollVars
  <2>2. ASSUME tick.at = "rows"
        PROVE  /\ tick = [at |-> "rows", rest |-> tick.rest] /\ tick.rest \subseteq rows' \cup others
               /\ \A y \in tick.rest : y > cursor
               /\ \A z \in rows' \ behind' :
                     z > cursor => z \in tick.rest \/ \A y \in tick.rest : z > y
    <3>1. /\ tick = [at |-> "rows", rest |-> tick.rest] /\ tick.rest \subseteq rows \cup others
          /\ \A y \in tick.rest : y > cursor
          /\ \A z \in rows \ behind :
                z > cursor => z \in tick.rest \/ \A y \in tick.rest : z > y
        BY <2>2 DEF ReadInv, TickInOrder
    <3>2. x \notin behind' => \A y \in tick.rest : x > y
      <4>1. SUFFICES ASSUME ~ Passed(x), NEW y \in tick.rest PROVE x > y
          BY <1>1
      <4>2. ~ (x < y)
          BY <2>2, <4>1 DEF Passed
      <4>3. y \in Nat /\ y # x
          BY <1>2, <3>1 DEF ReadInv, ReadTyped
      <4> QED
          BY <1>2, <4>2, <4>3
    <3> QED
        BY <1>1, <3>1, <3>2
  <2>3. tick.at = "push" =>
            tick = [at |-> "push", unread |-> tick.unread] /\ tick.unread \subseteq rows'
      BY <1>1 DEF ReadInv, TickInOrder
  <2>4. cursor <= written
      BY DEF ReadInv, TickInOrder
  <2> QED
      BY <1>1, <2>1, <2>2, <2>3, <2>4 DEF TickInOrder
<1>6. x > cursor \/ x \in behind'
    BY <1>1, <1>2 DEF Passed
<1>7. /\ rows \subseteq rows' /\ behind \subseteq behind' /\ covered' = covered /\ covered \in Nat
      /\ \A z \in rows' \ rows : z > cursor \/ z \in behind'
    BY <1>1, <1>6 DEF markVars, ReadInv, ReadTyped
<1>8. UnseenShow'
    BY <1>1, <1>7, ClientAlone DEF pollVars
<1>9. CountAtHand'
  <2>1. \A z \in Nat : ToldUnseen(z)' => ToldUnseen(z)
      BY <1>1, <1>2, <1>6, <1>7 DEF ToldUnseen, pollVars, clientState, markVars
  <2> QED
      BY <1>1, <2>1 DEF ReadInv, CountAtHand, pollVars
<1> QED
    BY <1>3, <1>4, <1>5, <1>8, <1>9 DEF ReadInv

LEMMA ElsewhereKeeps ==
    ASSUME ReadInv, NEW ts \in rows \cup uncached, ReadElsewhere(ts)
    PROVE  ReadInv'
<1>1. ts \in Nat /\ ts <= written
    BY DEF ReadInv, ReadTyped
<1>2. /\ mark' \in Nat /\ covered' \in Nat /\ covered <= covered' /\ ts <= covered'
      /\ lastRead' \in Nat /\ echoes' \in Seq(Nat) /\ MarksBehind' /\ TickInOrder'
    BY <1>1, MarkTaken DEF ReadElsewhere
<1>3. ReadTyped'
    BY <1>2 DEF ReadElsewhere, ReadInv, ReadTyped, pollVars, clientState, rowVars
<1>4. UnseenShow'
    BY <1>2, ClientAlone DEF ReadElsewhere, pollVars, rowVars
<1>5. CountAtHand'
  <2>1. \A z \in Nat : ToldUnseen(z)' => ToldUnseen(z)
      BY <1>2 DEF ReadElsewhere, ReadInv, ReadTyped, ToldUnseen, pollVars, clientState, rowVars
  <2> QED
      BY <2>1 DEF ReadElsewhere, ReadInv, CountAtHand, pollVars
<1> QED
    BY <1>2, <1>3, <1>4, <1>5 DEF ReadInv

LEMMA TableKeeps ==
    ASSUME ReadInv, OnChannelMarked \/ GetUnreadCounts \/ BatchUpdateChannelReadState
    PROVE  ReadInv'
<1>1. UNCHANGED <<rowVars, mark, covered, pollVars, readWire, clientState>>
    BY DEF OnChannelMarked, GetUnreadCounts, BatchUpdateChannelReadState, markVars
<1>2. /\ lastRead' \in Nat /\ lastRead' <= covered
      /\ snapshot' \subseteq Nat /\ \A ts \in snapshot' : ts <= covered
      /\ echoes' \in Seq(Nat) /\ \A i \in 1 .. Len(echoes') : echoes'[i] <= covered
  <2>1. /\ mark \in Nat /\ lastRead \in Nat /\ lastRead <= covered /\ mark <= covered
        /\ snapshot \subseteq Nat /\ \A ts \in snapshot : ts <= covered
        /\ echoes \in Seq(Nat) /\ \A i \in 1 .. Len(echoes) : echoes[i] <= covered
      BY DEF ReadInv, ReadTyped, MarksBehind
  <2>2. CASE OnChannelMarked
      BY <2>1, <2>2 DEF OnChannelMarked, UpdateChannelReadState
  <2>3. CASE GetUnreadCounts
      BY <2>1, <2>3 DEF GetUnreadCounts, markVars
  <2>4. CASE BatchUpdateChannelReadState
      BY <2>1, <2>4 DEF BatchUpdateChannelReadState, UpdateChannelReadState, markVars
  <2> QED
      BY <2>2, <2>3, <2>4
<1>3. ReadTyped' /\ MarksBehind' /\ TickInOrder'
    BY <1>1, <1>2 DEF ReadInv, ReadTyped, MarksBehind, TickInOrder, pollVars, clientState, rowVars
<1>4. UnseenShow' /\ CountAtHand'
    BY <1>1 DEF ReadInv, UnseenShow, CountAtHand, ToldUnseen, WillShow, pollVars, clientState, rowVars
<1> QED
    BY <1>3, <1>4 DEF ReadInv

-----------------------------------------------------------------------------
(* The poll loop                                                           *)

\* A line is added at the end.
LEMMA LineAdded ==
    ASSUME NEW came \in Seq(ReadLine), NEW line \in ReadLine, NEW x \in Nat
    PROVE  /\ Append(came, line) \in Seq(ReadLine)
           /\ WillShow(came, x) /\ (line.kind = "unread" => line.n > 0)
                => WillShow(Append(came, line), x)
           /\ Raises(line, x) => WillShow(Append(came, line), x)
<1> DEFINE longer == Append(came, line)
<1>1. /\ Len(came) \in Nat /\ Len(longer) = Len(came) + 1 /\ longer[Len(came) + 1] = line
      /\ \A i \in 1 .. Len(came) : longer[i] = came[i]
      /\ longer \in Seq(ReadLine)
    OBVIOUS
<1> HIDE DEF longer
<1>2. ASSUME NEW i \in Nat, NoneCleared(came, i), line.kind = "unread" => line.n > 0
      PROVE  NoneCleared(longer, i)
  <2> SUFFICES ASSUME NEW j \in 1 .. Len(longer), j > i, longer[j].kind = "unread"
               PROVE  longer[j].n > 0
      BY DEF NoneCleared
  <2>1. CASE j \in 1 .. Len(came)
      BY <1>1, <1>2, <2>1 DEF NoneCleared
  <2>2. CASE j = Len(came) + 1
      BY <1>1, <1>2, <2>2
  <2> QED
      BY <1>1, <2>1, <2>2
<1>3. ASSUME WillShow(came, x), line.kind = "unread" => line.n > 0
      PROVE  WillShow(longer, x)
  <2>1. CASE badge > 0 /\ NoneCleared(came, 0)
      BY <1>2, <1>3, <2>1 DEF WillShow
  <2>2. CASE \E i \in 1 .. Len(came) : Raises(came[i], x) /\ NoneCleared(came, i)
    <3>1. PICK i \in 1 .. Len(came) : Raises(came[i], x) /\ NoneCleared(came, i)
        BY <2>2
    <3>2. NoneCleared(longer, i) /\ i \in 1 .. Len(longer) /\ longer[i] = came[i]
        BY <1>1, <1>2, <1>3, <3>1
    <3> QED
        BY <3>1, <3>2 DEF WillShow
  <2> QED
      BY <1>3, <2>1, <2>2 DEF WillShow
<1>4. ASSUME Raises(line, x)
      PROVE  WillShow(longer, x)
  <2>1. NoneCleared(longer, Len(came) + 1) /\ Len(came) + 1 \in 1 .. Len(longer)
      BY <1>1 DEF NoneCleared
  <2> QED
      BY <1>1, <1>4, <2>1 DEF WillShow
<1> QED
    BY <1>1, <1>3, <1>4 DEF longer

LEMMA PollRowsKeeps ==
    ASSUME ReadInv, PollRows
    PROVE  ReadInv'
<1>1. /\ tick' = [at |-> "rows", rest |-> {x \in rows \cup others : x > cursor}]
      /\ UNCHANGED <<rowVars, lastRead, markVars, snapshot, cursor, known, readWire, clientState>>
    BY DEF PollRows
<1>2. tick'.at = "rows" /\ tick'.rest = {x \in rows \cup others : x > cursor}
    BY <1>1
<1>3. ReadTyped' /\ MarksBehind'
    BY <1>1, <1>2 DEF ReadInv, ReadTyped, MarksBehind, clientState, rowVars, markVars
<1>4. TickInOrder'
    BY <1>1, <1>2 DEF ReadInv, TickInOrder, rowVars
<1>5. UnseenShow' /\ CountAtHand'
    BY <1>1, <1>2 DEF ReadInv, UnseenShow, CountAtHand, ToldUnseen, WillShow, clientState, rowVars, markVars
<1> QED
    BY <1>3, <1>4, <1>5 DEF ReadInv

LEMMA TellRowKeeps ==
    ASSUME ReadInv, TellRow
    PROVE  ReadInv'
<1>1. UNCHANGED <<rowVars, lastRead, markVars, snapshot, known, clientState>> /\ tick.at = "rows"
    BY DEF TellRow
<1>2. /\ tick = [at |-> "rows", rest |-> tick.rest] /\ tick.rest \subseteq rows \cup others
      /\ \A y \in tick.rest : y > cursor
      /\ \A x \in rows \ behind : x > cursor => x \in tick.rest \/ \A y \in tick.rest : x > y
      /\ cursor <= written
    BY <1>1 DEF ReadInv, TickInOrder
<1>3. CASE tick.rest = {}
  <2>1. tick' = [at |-> "unread"] /\ tick'.at = "unread" /\ UNCHANGED <<cursor, readWire>>
      BY <1>3 DEF TellRow
  <2>2. ReadTyped' /\ MarksBehind' /\ TickInOrder'
      BY <1>1, <1>2, <2>1 DEF ReadInv, ReadTyped, MarksBehind, TickInOrder, clientState, rowVars,
         markVars
  <2>3. UnseenShow' /\ CountAtHand'
      BY <1>1, <2>1 DEF ReadInv, UnseenShow, CountAtHand, ToldUnseen, WillShow, clientState, rowVars,
         markVars
  <2> QED
      BY <2>2, <2>3 DEF ReadInv
<1>4. CASE tick.rest # {}
  <2> DEFINE y == Min(tick.rest)
  <2>1. /\ tick' = [at |-> "rows", rest |-> tick.rest \ {y}] /\ cursor' = y
        /\ readWire' = IF y \in others THEN readWire
                       ELSE Append(readWire, [kind |-> "message", n |-> y])
      BY <1>2, <1>4 DEF TellRow
  <2>2. y \in tick.rest /\ (\A z \in tick.rest : y <= z) /\ y \in Nat /\ y <= written
        /\ tick.rest \subseteq Nat
    <3>1. tick.rest \in SUBSET Nat /\ \A z \in tick.rest : z <= written
        BY <1>2 DEF ReadInv, ReadTyped
    <3> QED
        BY <1>4, <3>1, LeastIs
  <2> HIDE DEF y
  <2>3. tick'.at = "rows" /\ tick'.rest = tick.rest \ {y} /\ y > cursor /\ cursor \in Nat
      BY <1>2, <2>1, <2>2 DEF ReadInv, ReadTyped
  <2>4. readWire \in Seq(ReadLine) /\ readWire' \in Seq(ReadLine)
    <3>1. readWire \in Seq(ReadLine) /\ [kind |-> "message", n |-> y] \in ReadLine
        BY <2>2 DEF ReadInv, ReadTyped, ReadLine
    <3> QED
        BY <2>1, <2>2, <3>1, LineAdded
  <2>5. ReadTyped' /\ MarksBehind'
      BY <1>1, <2>1, <2>2, <2>3, <2>4 DEF ReadInv, ReadTyped, MarksBehind, clientState, rowVars,
         markVars
  <2>6. TickInOrder'
    <3>1. \A z \in tick.rest \ {y} : z > y
        BY <2>2
    <3>2. ASSUME NEW x \in rows \ behind, x > y
          PROVE  x \in tick.rest \ {y} \/ \A z \in tick.rest \ {y} : x > z
      <4>1. x \in Nat
          BY DEF ReadInv, ReadTyped
      <4>2. x > cursor /\ x # y
          BY <2>2, <2>3, <3>2, <4>1
      <4> QED
          BY <1>2, <4>2
    <3>3. UNCHANGED <<rows, behind, others, written>>
        BY <1>1 DEF rowVars
    <3> QED
        BY <1>2, <2>1, <2>2, <2>3, <3>1, <3>2, <3>3 DEF TickInOrder
  <2>7. ASSUME NEW x \in Nat, ToldUnseen(x)'
        PROVE  WillShow(readWire, x)'
    <3> DEFINE line == [kind |-> "message", n |-> y]
    <3>1. line \in ReadLine /\ line.kind = "message" /\ line.n = y
        BY <2>2 DEF ReadLine
    <3> HIDE DEF line
    <3>2. x \in rows \ (seen \cup behind) /\ x > covered /\ x <= y /\ badge' = badge
        BY <1>1, <2>1, <2>7 DEF ToldUnseen, clientState, rowVars, markVars
    <3>3. CASE x <= cursor
      <4>1. ToldUnseen(x)
          BY <3>2, <3>3 DEF ToldUnseen
      <4>2. WillShow(readWire, x)
          BY <4>1 DEF ReadInv, UnseenShow
      <4>3. CASE y \in others
          BY <2>1, <3>2, <4>2, <4>3 DEF WillShow
      <4>4. CASE y \notin others
        <5>1. WillShow(Append(readWire, line), x)
            BY <2>4, <3>1, <4>2, LineAdded
        <5> QED
            BY <2>1, <3>2, <4>4, <5>1 DEF WillShow, line
      <4> QED
          BY <4>3, <4>4
    <3>4. CASE x > cursor
      <4>1. x = y
          BY <1>2, <2>2, <3>2, <3>4
      <4>2. y \notin others
          BY <3>2, <4>1 DEF ReadInv, ReadTyped
      <4>3. WillShow(Append(readWire, line), x)
          BY <2>4, <3>1, <4>1, LineAdded DEF Raises
      <4> QED
          BY <2>1, <3>2, <4>2, <4>3 DEF WillShow, line
    <3> QED
        BY <2>3, <3>3, <3>4
  <2>8. CountAtHand'
      BY <2>3 DEF CountAtHand
  <2> QED
      BY <2>5, <2>6, <2>7, <2>8 DEF ReadInv, UnseenShow
<1> QED
    BY <1>3, <1>4

LEMMA CountKeeps ==
    ASSUME ReadInv, CountUnread
    PROVE  ReadInv'
<1>1. /\ UNCHANGED <<rowVars, lastRead, markVars, snapshot, cursor, readWire, clientState>>
      /\ known' = known \/ known' = lastRead
      /\ tick' = NoTick \/ tick' = [at |-> "push", unread |-> UnreadAfter(lastRead)]
    BY DEF CountUnread
<1>2. /\ tick'.at \in {"wait", "push"}
      /\ tick'.at = "push" => /\ tick' = [at |-> "push", unread |-> tick'.unread]
                              /\ tick'.unread = UnreadAfter(lastRead)
    BY <1>1 DEF NoTick
<1>3. ReadTyped' /\ MarksBehind'
    BY <1>1, <1>2 DEF ReadInv, ReadTyped, MarksBehind, clientState, rowVars, markVars
<1>4. TickInOrder'
  <2>1. UnreadAfter(lastRead) \subseteq rows
      BY DEF UnreadAfter
  <2> QED
      BY <1>1, <1>2, <2>1 DEF ReadInv, TickInOrder, rowVars
<1>5. UnseenShow'
    BY <1>1 DEF ReadInv, UnseenShow, ToldUnseen, WillShow, clientState, rowVars, markVars
<1>6. CountAtHand'
  <2>1. ASSUME NEW x \in Nat, ToldUnseen(x)'
        PROVE  x \in UnreadAfter(lastRead)
    <3>1. x \in rows /\ x > covered
        BY <1>1, <2>1 DEF ToldUnseen, rowVars, markVars
    <3>2. x > lastRead
        BY <3>1 DEF ReadInv, ReadTyped, MarksBehind
    <3> QED
        BY <3>1, <3>2 DEF UnreadAfter
  <2> QED
      BY <1>2, <2>1 DEF CountAtHand
<1> QED
    BY <1>3, <1>4, <1>5, <1>6 DEF ReadInv

LEMMA PushKeeps ==
    ASSUME ReadInv, PushUnread
    PROVE  ReadInv'
<1> DEFINE line == [kind |-> "unread", n |-> Cardinality(tick.unread)]
<1>1. /\ UNCHANGED <<rows, uncached, others, written, lastRead, markVars, snapshot, cursor, known,
                     clientState>>
      /\ tick' = NoTick /\ tick'.at = "wait" /\ readWire' = Append(readWire, line)
      /\ behind' = behind \ tick.unread /\ tick.at = "push"
    BY DEF PushUnread, NoTick
<1>2. Cardinality(tick.unread) \in Nat /\ (tick.unread # {} => Cardinality(tick.unread) > 0)
  <2>1. tick.unread \in SUBSET rows
      BY <1>1 DEF ReadInv, TickInOrder
  <2> QED
      BY <2>1, SomeRows DEF ReadInv
<1>3. line \in ReadLine /\ line.kind = "unread" /\ line.n = Cardinality(tick.unread)
    BY <1>2 DEF ReadLine
<1> HIDE DEF line
<1>4. readWire \in Seq(ReadLine) /\ readWire' \in Seq(ReadLine)
    BY <1>1, <1>3, LineAdded DEF ReadInv, ReadTyped
<1>5. ReadTyped' /\ MarksBehind' /\ TickInOrder' /\ CountAtHand'
    BY <1>1, <1>4 DEF ReadInv, ReadTyped, MarksBehind, TickInOrder, CountAtHand, clientState, markVars
<1>6. ASSUME NEW x \in Nat, ToldUnseen(x)'
      PROVE  WillShow(readWire, x)'
  <2>1. badge' = badge /\ x \in rows \ seen /\ x > covered /\ x <= cursor
        /\ (x \in behind => x \in tick.unread)
      BY <1>1, <1>6 DEF ToldUnseen, clientState, markVars
  <2>2. x \in tick.unread
      BY <1>1, <2>1 DEF ReadInv, CountAtHand, ToldUnseen
  <2>3. Raises(line, x)
      BY <1>2, <1>3, <2>2 DEF Raises
  <2>4. WillShow(Append(readWire, line), x)
      BY <1>3, <1>4, <2>3, LineAdded
  <2> QED
      BY <1>1, <2>1, <2>4 DEF WillShow
<1> QED
    BY <1>5, <1>6 DEF ReadInv, UnseenShow

-----------------------------------------------------------------------------
(* The client                                                              *)

\* The first line is taken, and another message is shown still if it was to be.
LEMMA LineTaken ==
    ASSUME NEW came \in Seq(ReadLine), came # <<>>, NEW x \in Nat, WillShow(came, x)
    PROVE  /\ Head(came) \in ReadLine /\ Tail(came) \in Seq(ReadLine)
           /\ \/ NoneCleared(Tail(came), 0)
                  /\ \/ badge > 0 /\ (Head(came).kind = "unread" => Head(came).n > 0)
                     \/ Raises(Head(came), x)
              \/ \E i \in 1 .. Len(Tail(came)) :
                    Raises(Tail(came)[i], x) /\ NoneCleared(Tail(came), i)
<1> DEFINE rest == Tail(came)
<1>1. /\ Len(came) \in Nat \ {0} /\ Len(rest) = Len(came) - 1 /\ Head(came) = came[1]
      /\ \A i \in 1 .. Len(rest) : rest[i] = came[i + 1]
      /\ rest \in Seq(ReadLine) /\ Head(came) \in ReadLine
    OBVIOUS
<1> HIDE DEF rest
<1>2. ASSUME NEW i \in Nat, NoneCleared(came, i + 1)
      PROVE  NoneCleared(rest, i)
  <2> SUFFICES ASSUME NEW j \in 1 .. Len(rest), j > i, rest[j].kind = "unread"
               PROVE  rest[j].n > 0
      BY DEF NoneCleared
  <2>1. rest[j] = came[j + 1] /\ j + 1 \in 1 .. Len(came) /\ j + 1 > i + 1
      BY <1>1
  <2> QED
      BY <1>2, <2>1 DEF NoneCleared
<1>3. CASE badge > 0 /\ NoneCleared(came, 0)
  <2>1. NoneCleared(came, 1) /\ (came[1].kind = "unread" => came[1].n > 0)
      BY <1>1, <1>3 DEF NoneCleared
  <2>2. NoneCleared(rest, 0)
      BY <1>2, <2>1
  <2> QED
      BY <1>1, <1>3, <2>1, <2>2 DEF rest
<1>4. CASE \E i \in 1 .. Len(came) : Raises(came[i], x) /\ NoneCleared(came, i)
  <2>1. PICK i \in 1 .. Len(came) : Raises(came[i], x) /\ NoneCleared(came, i)
      BY <1>4
  <2>2. i - 1 \in Nat /\ (i - 1) + 1 = i
      OBVIOUS
  <2>3. NoneCleared(rest, i - 1)
      BY <1>2, <2>1, <2>2
  <2>4. CASE i = 1
      BY <1>1, <2>1, <2>3, <2>4 DEF rest
  <2>5. CASE i # 1
    <3>1. i - 1 \in 1 .. Len(rest) /\ rest[i - 1] = came[i]
        BY <1>1, <2>2, <2>5
    <3> QED
        BY <1>1, <2>1, <2>3, <3>1 DEF rest
  <2> QED
      BY <2>4, <2>5
<1> QED
    BY <1>3, <1>4 DEF WillShow

LEMMA LinesKeep ==
    ASSUME ReadInv, Ingest \/ SetChannelUnread
    PROVE  ReadInv'
<1>1. /\ UNCHANGED <<rowVars, lastRead, markVars, snapshot, pollVars, viewing>>
      /\ readWire # <<>> /\ readWire' = Tail(readWire)
    BY DEF Ingest, SetChannelUnread
<1>2. Head(readWire) \in ReadLine /\ Tail(readWire) \in Seq(ReadLine) /\ badge \in Nat
    BY <1>1 DEF ReadInv, ReadTyped
<1>3. badge' \in Nat /\ seen \subseteq seen'
    BY <1>2 DEF Ingest, SetChannelUnread, Counted, ReadLine
<1>4. ASSUME NEW x \in Nat, ToldUnseen(x)'
      PROVE  WillShow(readWire, x)'
  <2>1. ToldUnseen(x) /\ x \notin seen'
      BY <1>1, <1>3, <1>4 DEF ToldUnseen, pollVars, rowVars, markVars
  <2>2. WillShow(readWire, x)
      BY <2>1 DEF ReadInv, UnseenShow
  <2>3. CASE \E i \in 1 .. Len(Tail(readWire)) :
                Raises(Tail(readWire)[i], x) /\ NoneCleared(Tail(readWire), i)
      BY <1>1, <2>3 DEF WillShow
  <2>4. CASE NoneCleared(Tail(readWire), 0)
                /\ \/ badge > 0 /\ (Head(readWire).kind = "unread" => Head(readWire).n > 0)
                   \/ Raises(Head(readWire), x)
    <3>1. badge' > 0
      <4>1. CASE Ingest
        <5>1. Head(readWire).kind = "message"
            BY <4>1 DEF Ingest
        <5>2. CASE badge > 0
            BY <1>2, <4>1, <5>2 DEF Ingest, Counted
        <5>3. CASE Raises(Head(readWire), x)
          <6>1. Head(readWire).n = x
              BY <5>1, <5>3 DEF Raises
          <6>2. badge' = Counted
              BY <2>1, <4>1, <6>1 DEF Ingest, ToldUnseen
          <6> QED
              BY <1>2, <6>2 DEF Counted
        <5> QED
            BY <2>4, <5>2, <5>3
      <4>2. CASE SetChannelUnread
          BY <2>4, <4>2 DEF SetChannelUnread, Raises
      <4> QED
          BY <4>1, <4>2
    <3> QED
        BY <1>1, <2>4, <3>1 DEF WillShow
  <2> QED
      BY <1>1, <2>2, <2>3, <2>4, LineTaken DEF ReadInv, ReadTyped
<1>5. MarksBehind' /\ TickInOrder'
    BY <1>1 DEF ReadInv, MarksBehind, TickInOrder, pollVars, rowVars, markVars
<1>6. CountAtHand'
  <2>1. \A x \in Nat : ToldUnseen(x)' => ToldUnseen(x)
      BY <1>1, <1>3 DEF ToldUnseen, pollVars, rowVars, markVars
  <2> QED
      BY <1>1, <2>1 DEF ReadInv, CountAtHand, pollVars
<1>7. seen' \subseteq Nat
    BY <1>2 DEF Ingest, SetChannelUnread, ReadInv, ReadTyped, ReadLine
<1>8. ReadTyped'
    BY <1>1, <1>2, <1>3, <1>7 DEF ReadInv, ReadTyped, pollVars, rowVars, markVars
<1> QED
    BY <1>4, <1>5, <1>6, <1>8 DEF ReadInv, UnseenShow

LEMMA OpeningKeeps ==
    ASSUME ReadInv, SelectChannel \/ MarkRead \/ LeaveChannel
    PROVE  ReadInv'
<1>1. CASE LeaveChannel
  <2>1. ReadTyped' /\ MarksBehind' /\ TickInOrder'
      BY <1>1 DEF LeaveChannel, ReadInv, ReadTyped, MarksBehind, TickInOrder, pollVars, rowVars,
         markVars
  <2>2. UnseenShow' /\ CountAtHand'
      BY <1>1 DEF LeaveChannel, ReadInv, UnseenShow, CountAtHand, ToldUnseen, WillShow, pollVars, rowVars,
         markVars
  <2> QED
      BY <2>1, <2>2 DEF ReadInv
<1>2. CASE SelectChannel \/ MarkRead
  <2>1. /\ UNCHANGED <<rowVars, snapshot, pollVars, readWire>> /\ badge' = 0
        /\ viewing' \in BOOLEAN /\ seen' \subseteq Nat
    <3>1. rows \subseteq Nat /\ seen \subseteq Nat /\ viewing \in BOOLEAN
        BY DEF ReadInv, ReadTyped
    <3> QED
        BY <1>2, <3>1 DEF SelectChannel, MarkRead
  <2>2. /\ mark' \in Nat /\ covered' \in Nat /\ lastRead' \in Nat /\ echoes' \in Seq(Nat)
        /\ MarksBehind' /\ TickInOrder'
        /\ \A x \in rows : x <= covered'
    <3>1. CASE rows = {}
      <4>1. UNCHANGED <<lastRead, markVars>>
          BY <1>2, <3>1 DEF SelectChannel, MarkRead
      <4> QED
          BY <2>1, <3>1, <4>1 DEF ReadInv, ReadTyped, MarksBehind, TickInOrder, pollVars, rowVars,
             markVars
    <3>2. CASE rows # {}
      <4>1. NewestRow \in Nat /\ NewestRow <= written /\ \A x \in rows : x <= NewestRow
          BY NewestIs DEF ReadInv
      <4>2. Marked(NewestRow) /\ (lastRead' = lastRead \/ lastRead' = NewestRow)
          BY <1>2, <3>2 DEF SelectChannel, MarkRead, UpdateChannelReadState
      <4>3. /\ mark' \in Nat /\ covered' \in Nat /\ NewestRow <= covered'
            /\ lastRead' \in Nat /\ echoes' \in Seq(Nat) /\ MarksBehind' /\ TickInOrder'
          BY <2>1, <4>1, <4>2, MarkTaken
      <4>4. \A x \in rows : x \in Nat
          BY DEF ReadInv, ReadTyped
      <4> QED
          BY <4>1, <4>3, <4>4
    <3> QED
        BY <3>1, <3>2
  <2>3. \A x \in Nat : ~ ToldUnseen(x)'
      BY <2>1, <2>2 DEF ToldUnseen, rowVars
  <2>4. ReadTyped'
      BY <2>1, <2>2 DEF ReadInv, ReadTyped, pollVars, rowVars
  <2> QED
      BY <2>2, <2>3, <2>4 DEF ReadInv, UnseenShow, CountAtHand
<1> QED
    BY <1>1, <1>2

-----------------------------------------------------------------------------
\* No mark anywhere goes past the highest Slack had, a tick tells the rows of all channels in
\* order, and a message of the channel that was told, that no mark ever covered and that has
\* not been shown is in the badge or on its way there, unless it was cached behind the cursor
\* of the poll loop and not counted since (main.go:1237-1302).
THEOREM ReadInvHolds == ReadSpec => []ReadInv
<1>1. ReadInit => ReadInv
  <2> SUFFICES ASSUME ReadInit PROVE ReadInv
      OBVIOUS
  <2>1. tick.at = "wait"
      BY DEF ReadInit, NoTick
  <2>2. ReadTyped
    <3>1. <<>> \in Seq(Nat) /\ <<>> \in Seq(ReadLine) /\ 0 <= MaxTS
        BY ReadStateAssumption
    <3> QED
        BY <2>1, <3>1 DEF ReadInit, ReadTyped
  <2>3. MarksBehind /\ TickInOrder
    <3>1. Len(<<>>) = 0
        OBVIOUS
    <3> QED
        BY <2>1, <3>1 DEF ReadInit, MarksBehind, TickInOrder
  <2>4. UnseenShow /\ CountAtHand
      BY DEF ReadInit, UnseenShow, CountAtHand, ToldUnseen
  <2> QED
      BY <2>2, <2>3, <2>4 DEF ReadInv
<1>2. ReadInv /\ [ReadNext]_readVars => ReadInv'
  <2> SUFFICES ASSUME ReadInv, [ReadNext]_readVars
               PROVE  ReadInv'
      OBVIOUS
  <2>1. CASE UNCHANGED readVars
      BY <2>1 DEF readVars, pollVars, rowVars, markVars, clientState, ReadInv, ReadTyped,
         MarksBehind, TickInOrder, UnseenShow, CountAtHand, ToldUnseen, WillShow
  <2> QED
      BY <2>1, PostKeeps, CachedKeeps, ElsewhereKeeps, TableKeeps, PollRowsKeeps, TellRowKeeps,
         CountKeeps, PushKeeps, LinesKeep, OpeningKeeps DEF ReadNext
<1> QED
    BY <1>1, <1>2, PTL DEF ReadSpec

LEMMA UnreadFromInv ==
    ASSUME ReadInv
    PROVE  UnreadShows
<1> SUFFICES ASSUME Settled, NEW x \in rows \ (seen \cup behind), x > covered
             PROVE  badge > 0
    BY DEF UnreadShows
<1>1. x \in Nat /\ ToldUnseen(x) /\ Len(readWire) = 0
    BY DEF Settled, ToldUnseen, ReadInv, ReadTyped
<1> QED
    BY <1>1 DEF ReadInv, UnseenShow, WillShow

\* When the poll loop and the connection have nothing left to say, a channel that is not
\* shown has a badge if it has a message that no mark ever covered, that has not been shown,
\* and that did not come behind the poll loop's cursor, or was counted since
\* (main.go:1237-1302, Backend.qml:1535).
THEOREM UnreadShowsHolds == ReadSpec => []UnreadShows
BY ReadInvHolds, UnreadFromInv, PTL

\* What was seen, and the lines on their way, are of messages that were cached.
SeenAreRows ==
    /\ seen \subseteq rows
    /\ \A i \in 1 .. Len(readWire) : readWire[i].kind = "message" => readWire[i].n \in rows

LEMMA SeenFirst == ReadInit => SeenAreRows
BY DEF ReadInit, SeenAreRows

\* A line is added that is no message, or one of a row.
LEMMA LineOfRow ==
    ASSUME ReadInv, SeenAreRows, NEW line \in ReadLine,
           line.kind = "message" => line.n \in rows,
           readWire' = Append(readWire, line), UNCHANGED <<rows, seen>>
    PROVE  SeenAreRows'
<1>1. /\ readWire \in Seq(ReadLine) /\ Len(readWire') = Len(readWire) + 1
      /\ readWire'[Len(readWire) + 1] = line
      /\ \A i \in 1 .. Len(readWire) : readWire'[i] = readWire[i]
    BY DEF ReadInv, ReadTyped
<1> QED
    BY <1>1 DEF SeenAreRows

LEMMA SeenStep ==
    ASSUME ReadInv, SeenAreRows, [ReadNext]_readVars
    PROVE  SeenAreRows'
<1>1. CASE TellRow
  <2>1. UNCHANGED <<rows, seen>>
      BY <1>1 DEF TellRow, clientState, rowVars
  <2>2. CASE readWire' = readWire
      BY <2>1, <2>2 DEF SeenAreRows
  <2>3. CASE readWire' # readWire
    <3>1. tick.at = "rows" /\ tick.rest # {}
        BY <1>1, <2>3 DEF TellRow
    <3>2. tick.rest \subseteq rows \cup others /\ tick.rest \in SUBSET Nat
        BY <3>1 DEF ReadInv, TickInOrder, ReadTyped
    <3>3. Min(tick.rest) \in tick.rest
        BY <3>1, <3>2, LeastIs
    <3>4. Min(tick.rest) \notin others
        BY <1>1, <2>3, <3>1 DEF TellRow
    <3>5. readWire' = Append(readWire, [kind |-> "message", n |-> Min(tick.rest)])
        BY <1>1, <3>1, <3>4 DEF TellRow
    <3>6. Min(tick.rest) \in rows /\ [kind |-> "message", n |-> Min(tick.rest)] \in ReadLine
        BY <3>2, <3>3, <3>4 DEF ReadLine
    <3> QED
        BY <2>1, <3>5, <3>6, LineOfRow
  <2> QED
      BY <2>2, <2>3
<1>2. CASE Ingest \/ SetChannelUnread
  <2>1. /\ readWire \in Seq(ReadLine) /\ readWire # <<>> /\ readWire' = Tail(readWire)
        /\ rows' = rows
        /\ seen' \subseteq seen \cup {x \in {Head(readWire).n} : Head(readWire).kind = "message"}
      BY <1>2 DEF Ingest, SetChannelUnread, ReadInv, ReadTyped, rowVars
  <2>2. Head(readWire) = readWire[1] /\ 1 \in 1 .. Len(readWire)
      BY <2>1
  <2>3. seen' \subseteq rows'
      BY <2>1, <2>2 DEF SeenAreRows
  <2>4. \A i \in 1 .. Len(readWire') :
           i + 1 \in 1 .. Len(readWire) /\ readWire'[i] = readWire[i + 1]
      BY <2>1
  <2> QED
      BY <2>1, <2>3, <2>4 DEF SeenAreRows
<1>3. CASE PushUnread
  <2> DEFINE line == [kind |-> "unread", n |-> Cardinality(tick.unread)]
  <2>1. readWire' = Append(readWire, line) /\ UNCHANGED <<rows, seen>> /\ tick.at = "push"
      BY <1>3 DEF PushUnread, clientState
  <2>2. tick.unread \in SUBSET rows
      BY <2>1 DEF ReadInv, TickInOrder
  <2>3. Cardinality(tick.unread) \in Nat
      BY <2>2, SomeRows DEF ReadInv
  <2>4. line \in ReadLine /\ line.kind = "unread"
      BY <2>3 DEF ReadLine
  <2> HIDE DEF line
  <2> QED
      BY <2>1, <2>4, LineOfRow
<1>4. CASE (\E x \in uncached : CacheMessage(x)) \/ SelectChannel
  <2>1. rows \subseteq rows' /\ readWire' = readWire /\ seen' \subseteq seen \cup rows
      BY <1>4 DEF CacheMessage, SelectChannel, clientState, rowVars
  <2> QED
      BY <2>1 DEF SeenAreRows
<1>5. CASE \/ PostMark \/ \E ts \in rows \cup uncached : ReadElsewhere(ts)
           \/ OnChannelMarked \/ GetUnreadCounts \/ BatchUpdateChannelReadState
           \/ PollRows \/ CountUnread \/ LeaveChannel \/ MarkRead \/ UNCHANGED readVars
  <2>1. UNCHANGED <<rows, seen, readWire>>
      BY <1>5 DEF PostMark, ReadElsewhere, OnChannelMarked, GetUnreadCounts,
         BatchUpdateChannelReadState, PollRows, CountUnread, LeaveChannel, MarkRead, readVars,
         clientState, rowVars
  <2> QED
      BY <2>1 DEF SeenAreRows
<1> QED
    BY <1>1, <1>2, <1>3, <1>4, <1>5 DEF ReadNext

-----------------------------------------------------------------------------
(* The tables, together                                                    *)

\* What is stored is what Slack has: reactions (wshandler.go:84-121), the searchable text
\* (search.go:40-118) and what a channel has that is unread (main.go:1252-1302).
THEOREM TablesAgreeHolds == ReactionsSpec /\ StoreSpec /\ ReadSpec => []TablesAgree
<1>1. ReactionsAgree /\ SearchFinds /\ UnreadShows => TablesAgree
    BY DEF TablesAgree
<1> QED
    BY <1>1, ReactionsAgreeHolds, SearchFindsHolds, UnreadShowsHolds, PTL

-----------------------------------------------------------------------------
(* Listings: what a listing has so far is in order, and nothing that was   *)
(* there all the time is left out above its cursor.                        *)

Decreasing(s) == \A i, j \in DOMAIN s : i < j => s[i] > s[j]
InWindow(w, i) == w.kind = "since" => i > w.from

ListingsTyped == ListingsTypeOK /\ stayed \subseteq live

\* A listing of pages has what was there from its cursor up; the window around a message
\* is empty until its older half has come.
PagesAbove ==
    walk.at \in {"page", "wait"} =>
        /\ walk.kind = "around" => walk.got = <<>>
        /\ \A g \in ToSet(walk.got) : g >= walk.cursor /\ InWindow(walk, g)
        /\ \A i \in stayed : InWindow(walk, i) /\ i >= walk.cursor => i \in ToSet(walk.got)

OlderHalf ==
    walk.at = "newer" =>
        /\ walk.kind = "around"
        /\ \A g \in ToSet(walk.got) : g <= walk.from
        /\ \A i \in stayed, g \in ToSet(walk.got) :
              g <= i /\ i <= walk.from => i \in ToSet(walk.got)

WholeResult ==
    walk.at \in {"done", "capped", "failed"} =>
        /\ \A i \in stayed : Between(i, ToSet(walk.got)) => i \in ToSet(walk.got)
        /\ walk.at = "done" /\ walk.kind # "around" =>
               \A i \in stayed : InWindow(walk, i) => i \in ToSet(walk.got)

ListingInv ==
    ListingsTyped /\ Decreasing(walk.got) /\ PagesAbove /\ OlderHalf /\ WholeResult

LEMMA ItemsAreNumbers == Items \subseteq Nat /\ \A i \in Items : i < MaxItem + 1
BY ListingAssumption DEF Items

LEMMA ElementsAreItems ==
    ASSUME NEW s \in Seq(Items)
    PROVE  ToSet(s) \subseteq Items /\ \A i \in DOMAIN s : i \in Nat /\ s[i] \in Items
<1>1. \A i \in DOMAIN s : i \in Nat /\ s[i] \in Items
    OBVIOUS
<1> QED
    BY <1>1 DEF ToSet

\* A page is in order, and nothing as late as one of its items is missing.
LEMMA PageFacts ==
    ASSUME NEW S \in SUBSET Items, NEW n \in Nat \ {0}, NEW p \in Latest(S, n)
    PROVE  /\ p \in Seq(Items) /\ Decreasing(p) /\ ToSet(p) \subseteq S
           /\ \A s \in S, g \in ToSet(p) : s >= g => s \in ToSet(p)
           /\ S # ToSet(p) => Len(p) = n /\ \A s \in S : s \in ToSet(p) \/ s < p[n]
<1>1. PICK m \in 0 .. n : p \in [1 .. m -> S]
    BY DEF Latest, BoundedSeq, SeqOf
<1>2. Decreasing(p) /\ \A s \in S : s \in ToSet(p) \/ (Len(p) = n /\ s < p[n])
    BY DEF Latest, Decreasing
<1>3. p \in Seq(S) /\ Len(p) = m /\ DOMAIN p = 1 .. m /\ p \in Seq(Items)
    BY <1>1
<1>4. ToSet(p) \subseteq S
    BY <1>1, <1>3 DEF ToSet
<1>5. ASSUME NEW s \in S, NEW g \in ToSet(p), s >= g, s \notin ToSet(p)
      PROVE  FALSE
  <2>1. Len(p) = n /\ s < p[n] /\ m = n /\ n \in 1 .. m
      BY <1>2, <1>3, <1>5
  <2>2. PICK i \in 1 .. m : g = p[i]
      BY <1>3 DEF ToSet
  <2>3. p[i] = p[n] \/ p[i] > p[n]
      BY <1>2, <1>3, <2>1, <2>2 DEF Decreasing
  <2>4. p[i] \in Nat /\ p[n] \in Nat /\ s \in Nat
      BY <1>1, <2>1, ItemsAreNumbers
  <2> QED
      BY <1>5, <2>1, <2>2, <2>3, <2>4
<1> QED
    BY <1>2, <1>3, <1>4, <1>5

\* Two lists in order, the first above the second, are one.
LEMMA JoinedFacts ==
    ASSUME NEW a \in Seq(Items), NEW b \in Seq(Items), Decreasing(a), Decreasing(b),
           \A g \in ToSet(a), h \in ToSet(b) : g > h
    PROVE  /\ a \o b \in Seq(Items) /\ Decreasing(a \o b)
           /\ ToSet(a \o b) = ToSet(a) \cup ToSet(b)
<1> DEFINE c == a \o b
<1>1. /\ c \in Seq(Items) /\ Len(a) \in Nat /\ Len(b) \in Nat /\ Len(c) = Len(a) + Len(b)
      /\ DOMAIN a = 1 .. Len(a) /\ DOMAIN b = 1 .. Len(b) /\ DOMAIN c = 1 .. Len(c)
    OBVIOUS
<1>2. /\ \A i \in 1 .. Len(a) : c[i] = a[i]
      /\ \A i \in 1 .. Len(b) : c[Len(a) + i] = b[i]
    OBVIOUS
<1> HIDE DEF c
<1>3. \A i \in DOMAIN c : i \in DOMAIN a \/ (i - Len(a) \in DOMAIN b /\ c[i] = b[i - Len(a)])
  <2> SUFFICES ASSUME NEW i \in 1 .. Len(c), ~ (i \in 1 .. Len(a))
               PROVE  i - Len(a) \in 1 .. Len(b) /\ c[i] = b[i - Len(a)]
      BY <1>1
  <2>1. i - Len(a) \in 1 .. Len(b) /\ i = Len(a) + (i - Len(a))
      BY <1>1
  <2> QED
      BY <1>2, <2>1
<1>4. ToSet(c) = ToSet(a) \cup ToSet(b)
  <2>1. ToSet(c) \subseteq ToSet(a) \cup ToSet(b)
      BY <1>1, <1>2, <1>3 DEF ToSet
  <2>2. \A i \in 1 .. Len(b) : Len(a) + i \in 1 .. Len(c)
      BY <1>1
  <2>3. ToSet(b) \subseteq ToSet(c)
      BY <1>1, <1>2, <2>2 DEF ToSet
  <2>4. \A i \in 1 .. Len(a) : i \in 1 .. Len(c)
      BY <1>1
  <2>5. ToSet(a) \subseteq ToSet(c)
      BY <1>1, <1>2, <2>4 DEF ToSet
  <2> QED
      BY <2>1, <2>3, <2>5
<1>5. Decreasing(c)
  <2> SUFFICES ASSUME NEW i \in DOMAIN c, NEW j \in DOMAIN c, i < j
               PROVE  c[i] > c[j]
      BY DEF Decreasing
  <2>1. CASE i \in DOMAIN a /\ j \in DOMAIN a
      BY <1>1, <1>2, <2>1 DEF Decreasing
  <2>2. CASE i \in DOMAIN a /\ j \notin DOMAIN a
    <3>1. c[i] \in ToSet(a) /\ c[j] \in ToSet(b)
        BY <1>1, <1>2, <1>3, <2>2 DEF ToSet
    <3> QED
        BY <3>1
  <2>3. CASE i \notin DOMAIN a
    <3>1. j \notin DOMAIN a
        BY <1>1, <2>3
    <3>2. i - Len(a) < j - Len(a)
        BY <1>1
    <3>3. /\ i - Len(a) \in DOMAIN b /\ c[i] = b[i - Len(a)]
          /\ j - Len(a) \in DOMAIN b /\ c[j] = b[j - Len(a)]
        BY <1>3, <2>3, <3>1
    <3> QED
        BY <3>2, <3>3 DEF Decreasing
  <2> QED
      BY <2>1, <2>2, <2>3
<1> QED
    BY <1>1, <1>4, <1>5 DEF c

\* The first of a list in order are its latest.
LEMMA PrefixFacts ==
    ASSUME NEW s \in Seq(Items), Decreasing(s), NEW n \in Nat, n <= Len(s)
    PROVE  /\ SubSeq(s, 1, n) \in Seq(Items) /\ Decreasing(SubSeq(s, 1, n))
           /\ ToSet(SubSeq(s, 1, n)) \subseteq ToSet(s)
           /\ \A x \in ToSet(s), g \in ToSet(SubSeq(s, 1, n)) :
                x >= g => x \in ToSet(SubSeq(s, 1, n))
<1> DEFINE c == SubSeq(s, 1, n)
<1>1. /\ c \in Seq(Items) /\ Len(c) = n /\ DOMAIN c = 1 .. n
      /\ DOMAIN s = 1 .. Len(s) /\ Len(s) \in Nat /\ 1 .. n \subseteq 1 .. Len(s)
      /\ \A i \in 1 .. n : c[i] = s[i]
    OBVIOUS
<1> HIDE DEF c
<1>2. Decreasing(c) /\ ToSet(c) \subseteq ToSet(s)
    BY <1>1 DEF Decreasing, ToSet
<1>3. ASSUME NEW x \in ToSet(s), NEW g \in ToSet(c), x >= g
      PROVE  x \in ToSet(c)
  <2>1. PICK i \in 1 .. Len(s) : x = s[i]
      BY <1>1 DEF ToSet
  <2>2. PICK j \in 1 .. n : g = c[j]
      BY <1>1 DEF ToSet
  <2>3. ~ (j < i)
    <3>0. j \in 1 .. Len(s) /\ s[i] \in Items /\ s[j] \in Items
        BY <1>1, <2>1
    <3>1. s[i] \in Nat /\ s[j] \in Nat /\ j \in 1 .. Len(s) /\ s[j] = g
        BY <1>1, <2>2, <3>0, ItemsAreNumbers
    <3>2. j < i => s[j] > s[i]
        BY <1>1, <3>1 DEF Decreasing
    <3> QED
        BY <1>3, <2>1, <3>1, <3>2
  <2>4. i \in 1 .. n
      BY <1>1, <2>3
  <2> QED
      BY <1>1, <2>1, <2>4 DEF ToSet
<1> QED
    BY <1>1, <1>2, <1>3 DEF c

LEMMA ListingsStart == ListingsInit => ListingInv
<1> SUFFICES ASSUME ListingsInit PROVE ListingInv
    OBVIOUS
<1>1. ListingsTyped
    BY ListingAssumption
    DEF ListingsInit, ListingsTyped, ListingsTypeOK, NoWalk, Kinds, WalkAt, Items
<1>2. Decreasing(walk.got)
    BY DEF ListingsInit, NoWalk, Decreasing
<1> QED
    BY <1>1, <1>2 DEF ListingsInit, NoWalk, ListingInv, PagesAbove, OlderHalf, WholeResult

\* Items come and go: fewer have been there all the time.
LEMMA ChangesKeep == ListingInv /\ ListChanges => ListingInv'
<1> SUFFICES ASSUME ListingInv, ListChanges PROVE ListingInv'
    OBVIOUS
<1>1. walk' = walk /\ stayed' \subseteq stayed
    BY DEF ListChanges
<1>2. ListingsTyped'
    BY <1>1, ListingAssumption
    DEF ListChanges, ListingInv, ListingsTyped, ListingsTypeOK
<1> QED
    BY <1>1, <1>2 DEF ListingInv, PagesAbove, OlderHalf, WholeResult, InWindow

LEMMA BeginKeeps ==
    ASSUME ListingInv, NEW kind \in Kinds, BeginListing(kind)
    PROVE  ListingInv'
<1>1. PICK ts \in Items :
        walk' = [kind |-> kind, at |-> "page", cursor |-> MaxItem + 1, from |-> ts, got |-> <<>>]
    BY DEF BeginListing
<1>2. /\ ts \in 0 .. MaxItem /\ MaxItem + 1 \in 0 .. MaxItem + 1
      /\ <<>> \in Seq(Items) /\ ToSet(<<>>) = {} /\ Decreasing(<<>>)
    BY ListingAssumption DEF Items, ToSet, Decreasing
<1>3. stayed' = live /\ UNCHANGED <<live, changes, faults>> /\ live \subseteq Items
    BY DEF BeginListing, ListingInv, ListingsTyped, ListingsTypeOK
<1>4. ListingsTyped'
    BY <1>1, <1>2, <1>3 DEF ListingInv, ListingsTyped, ListingsTypeOK, WalkAt
<1>5. \A i \in stayed' : ~ (i >= MaxItem + 1)
    BY <1>3, ItemsAreNumbers, ListingAssumption DEF Items
<1>6. PagesAbove'
    BY <1>1, <1>2, <1>5 DEF PagesAbove
<1> QED
    BY <1>1, <1>2, <1>4, <1>6 DEF ListingInv, OlderHalf, WholeResult

\* A page is taken: with what there was, it is all that was there from its last item up;
\* and if Slack had no more, all of the window.
LEMMA PageKeeps == ListingInv /\ GetPage => ListingInv'
<1> SUFFICES ASSUME ListingInv, GetPage PROVE ListingInv'
    OBVIOUS
<1> DEFINE rest == Rest(walk)
<1>1. PICK batch \in Latest(rest, PageSize) :
        LET got == walk.got \o batch IN
        walk' = IF Capped(walk, got) THEN Ended(walk, SubSeq(got, 1, Cap), "capped")
                ELSE IF ~HasMore(walk, batch) THEN Ended(walk, got, "done")
                ELSE [walk EXCEPT !.got = got, !.cursor = Last(got)]
    BY DEF GetPage
<1> DEFINE got == walk.got \o batch
<1>2. /\ walk.at = "page" /\ walk.kind # "around" /\ UNCHANGED <<live, stayed, changes, faults>>
      /\ ListingsTyped /\ PagesAbove
    BY DEF GetPage, ListingInv
<1>3. /\ walk \in [kind : Kinds, at : WalkAt, cursor : 0 .. MaxItem + 1, from : 0 .. MaxItem,
                   got : Seq(Items)]
      /\ live \subseteq Items /\ stayed \subseteq live
    BY <1>2 DEF ListingsTyped, ListingsTypeOK
<1>4. /\ rest \subseteq Items
      /\ \A i \in rest : i < walk.cursor /\ InWindow(walk, i)
      /\ \A i \in stayed : InWindow(walk, i) /\ i < walk.cursor => i \in rest
    BY <1>3 DEF Rest, Window, InWindow
<1>5. /\ batch \in Seq(Items) /\ Decreasing(batch) /\ ToSet(batch) \subseteq rest
      /\ \A s \in rest, g \in ToSet(batch) : s >= g => s \in ToSet(batch)
      /\ rest # ToSet(batch) =>
            Len(batch) = PageSize /\ \A s \in rest : s \in ToSet(batch) \/ s < batch[PageSize]
  <2> HIDE DEF rest
  <2> QED
      BY <1>4, PageFacts, ListingAssumption
<1> HIDE DEF rest
<1>6. \A g \in ToSet(walk.got) : g >= walk.cursor /\ InWindow(walk, g) /\ g \in Items
    BY <1>2, <1>3 DEF PagesAbove, ToSet
<1>7. \A i \in stayed : InWindow(walk, i) /\ i >= walk.cursor => i \in ToSet(walk.got)
    BY <1>2 DEF PagesAbove
<1>8. walk.cursor \in Nat /\ \A i \in Items : i \in Nat
    BY <1>3, ItemsAreNumbers, ListingAssumption
<1>9. /\ got \in Seq(Items) /\ Decreasing(got)
      /\ ToSet(got) = ToSet(walk.got) \cup ToSet(batch)
  <2>1. \A g \in ToSet(walk.got), h \in ToSet(batch) : g > h
      BY <1>4, <1>5, <1>6, <1>8
  <2> QED
      BY <1>3, <1>5, <2>1, JoinedFacts DEF ListingInv
<1> HIDE DEF got
<1>10. \A g \in ToSet(got) : InWindow(walk, g) /\ g \in Items
    BY <1>4, <1>5, <1>6, <1>9
<1>11. \A i \in stayed : i \in Items
    BY <1>3
<1>12. \A i \in stayed, g \in ToSet(got) : i >= g => i \in ToSet(got)
  <2> SUFFICES ASSUME NEW i \in stayed, NEW g \in ToSet(got), i >= g
               PROVE  i \in ToSet(got)
      OBVIOUS
  <2>1. InWindow(walk, i)
    <3>1. InWindow(walk, g) /\ i \in Nat /\ g \in Nat /\ walk.from \in Nat
        BY <1>3, <1>8, <1>10, <1>11, ListingAssumption
    <3> QED
        BY <3>1 DEF InWindow
  <2>2. CASE i >= walk.cursor
      BY <1>7, <1>9, <2>1, <2>2
  <2>3. CASE ~ (i >= walk.cursor)
    <3>1. i < walk.cursor /\ i \in rest
        BY <1>4, <1>8, <1>11, <2>1, <2>3
    <3>2. g \in ToSet(batch)
        BY <1>6, <1>8, <1>9, <1>10, <1>11, <2>3
    <3> QED
        BY <1>5, <1>9, <3>1, <3>2
  <2> QED
      BY <2>2, <2>3
<1>13. CASE Capped(walk, got)
  <2>1. walk' = [walk EXCEPT !.at = "capped", !.got = SubSeq(got, 1, Cap)]
      BY <1>1, <1>13 DEF Ended, got
  <2>2. Cap \in Nat /\ Cap <= Len(got)
      BY <1>9, <1>13, ListingAssumption DEF Capped
  <2> DEFINE cut == SubSeq(got, 1, Cap)
  <2>3. /\ cut \in Seq(Items) /\ Decreasing(cut) /\ ToSet(cut) \subseteq ToSet(got)
        /\ \A x \in ToSet(got), g \in ToSet(cut) : x >= g => x \in ToSet(cut)
      BY <1>9, <2>2, PrefixFacts
  <2> HIDE DEF cut
  <2>4. /\ walk'.at = "capped" /\ walk'.got = cut /\ walk'.kind = walk.kind
        /\ walk' \in [kind : Kinds, at : WalkAt, cursor : 0 .. MaxItem + 1,
                      from : 0 .. MaxItem, got : Seq(Items)]
      BY <1>3, <2>1, <2>3 DEF WalkAt, cut
  <2>5. ASSUME NEW i \in stayed, Between(i, ToSet(cut))
        PROVE  i \in ToSet(cut)
    <3>1. PICK g \in ToSet(cut) : g <= i
        BY <2>5 DEF Between
    <3>2. i >= g
        BY <1>8, <1>10, <1>11, <2>3, <3>1
    <3> QED
        BY <1>12, <2>3, <3>2
  <2>6. WholeResult'
      BY <1>2, <2>4, <2>5 DEF WholeResult
  <2> QED
      BY <1>2, <2>3, <2>4, <2>6
      DEF ListingInv, ListingsTyped, ListingsTypeOK, PagesAbove, OlderHalf
<1>14. CASE ~ Capped(walk, got) /\ ~ HasMore(walk, batch)
  <2>1. walk' = [walk EXCEPT !.at = "done", !.got = got]
      BY <1>1, <1>14 DEF Ended, got
  <2>2. /\ walk'.at = "done" /\ walk'.got = got /\ walk'.kind = walk.kind /\ walk'.from = walk.from
        /\ walk' \in [kind : Kinds, at : WalkAt, cursor : 0 .. MaxItem + 1,
                      from : 0 .. MaxItem, got : Seq(Items)]
      BY <1>3, <1>9, <2>1 DEF WalkAt
  <2>3. ASSUME NEW i \in stayed, Between(i, ToSet(got))
        PROVE  i \in ToSet(got)
    <3>1. PICK g \in ToSet(got) : g <= i
        BY <2>3 DEF Between
    <3>2. i >= g
        BY <1>8, <1>10, <1>11, <3>1
    <3> QED
        BY <1>12, <3>2
  <2>4. rest = ToSet(batch)
      BY <1>14 DEF HasMore, rest
  <2>5. \A i \in stayed : InWindow(walk, i) => i \in ToSet(got)
      BY <1>4, <1>7, <1>8, <1>9, <1>11, <2>4
  <2>6. WholeResult'
      BY <1>2, <2>2, <2>3, <2>5 DEF WholeResult, InWindow
  <2> QED
      BY <1>2, <1>9, <2>2, <2>6
      DEF ListingInv, ListingsTyped, ListingsTypeOK, PagesAbove, OlderHalf
<1>15. CASE ~ Capped(walk, got) /\ HasMore(walk, batch)
  <2>1. walk' = [walk EXCEPT !.got = got, !.cursor = Last(got)]
      BY <1>1, <1>15 DEF got
  <2>2. rest # ToSet(batch)
      BY <1>15 DEF HasMore, rest
  <2>3. /\ Len(batch) = PageSize /\ Last(got) = batch[PageSize]
        /\ batch[PageSize] \in ToSet(batch)
    <3>1. Len(batch) = PageSize /\ PageSize \in Nat \ {0}
        BY <1>5, <2>2, ListingAssumption
    <3>2. Len(got) = Len(walk.got) + PageSize /\ got[Len(walk.got) + PageSize] = batch[PageSize]
        BY <1>3, <1>5, <3>1 DEF got
    <3>3. PageSize \in DOMAIN batch
        BY <1>5, <3>1
    <3> QED
        BY <3>1, <3>2, <3>3 DEF Last, ToSet
  <2> DEFINE end == batch[PageSize]
  <2>4. end \in rest /\ end \in Items /\ end \in 0 .. MaxItem + 1 /\ end < walk.cursor
      BY <1>4, <1>5, <1>8, <2>3, ListingAssumption DEF Items
  <2>5. /\ walk'.at = "page" /\ walk'.got = got /\ walk'.kind = walk.kind /\ walk'.from = walk.from
        /\ walk'.cursor = end
        /\ walk' \in [kind : Kinds, at : WalkAt, cursor : 0 .. MaxItem + 1,
                      from : 0 .. MaxItem, got : Seq(Items)]
      BY <1>2, <1>3, <1>9, <2>1, <2>3, <2>4
  <2> HIDE DEF end
  <2>6. \A g \in ToSet(got) : g >= end
    <3>1. ASSUME NEW g \in ToSet(walk.got) PROVE g >= end
      <4>1. g >= walk.cursor /\ g \in Nat /\ end \in Nat /\ end < walk.cursor
          BY <1>6, <1>8, <2>4
      <4> QED
          BY <1>8, <4>1
    <3>2. ASSUME NEW g \in ToSet(batch) PROVE g >= end
      <4>1. PICK i \in DOMAIN batch : g = batch[i]
          BY DEF ToSet
      <4>2. i \in 1 .. PageSize /\ PageSize \in DOMAIN batch
          BY <1>5, <2>3, ListingAssumption
      <4>3. i = PageSize \/ batch[i] > batch[PageSize]
          BY <1>5, <4>2, ListingAssumption DEF Decreasing
      <4>4. g \in Nat /\ end \in Nat
          BY <1>4, <1>5, <1>8, <2>4
      <4> QED
          BY <4>1, <4>3, <4>4 DEF end
    <3> QED
        BY <1>9, <3>1, <3>2
  <2>7. end \in ToSet(got)
      BY <1>9, <2>3 DEF end
  <2>8. PagesAbove'
      BY <1>2, <1>10, <1>12, <2>5, <2>6, <2>7 DEF PagesAbove, InWindow
  <2> QED
      BY <1>2, <1>9, <2>5, <2>8
      DEF ListingInv, ListingsTyped, ListingsTypeOK, WholeResult, OlderHalf
<1> QED
    BY <1>13, <1>14, <1>15

\* A listing that waits, goes on or gives up has what it had, or nothing.
LEMMA WaitKeeps == ListingInv /\ (RateLimited \/ Retry) => ListingInv'
<1> SUFFICES ASSUME ListingInv, RateLimited \/ Retry PROVE ListingInv'
    OBVIOUS
<1>1. /\ walk \in [kind : Kinds, at : WalkAt, cursor : 0 .. MaxItem + 1, from : 0 .. MaxItem,
                   got : Seq(Items)]
      /\ UNCHANGED <<live, stayed, changes>> /\ {faults, faults'} \subseteq Nat
    BY DEF RateLimited, Retry, ListingInv, ListingsTyped, ListingsTypeOK
<1>2. walk' = walk \/ (walk.at \in {"page", "wait"} /\ \E at \in {"page", "wait"} :
                          walk' = [walk EXCEPT !.at = at])
    BY DEF RateLimited, Retry, AfterLimit
<1>3. CASE walk' = walk
    BY <1>1, <1>3
    DEF ListingInv, ListingsTyped, ListingsTypeOK, PagesAbove, OlderHalf, WholeResult, InWindow
<1>4. CASE walk' # walk
  <2>1. /\ walk' \in [kind : Kinds, at : WalkAt, cursor : 0 .. MaxItem + 1, from : 0 .. MaxItem,
                      got : Seq(Items)]
        /\ walk.at \in {"page", "wait"} /\ walk'.at \in {"page", "wait"}
        /\ walk'.got = walk.got /\ walk'.kind = walk.kind /\ walk'.from = walk.from
        /\ walk'.cursor = walk.cursor
      BY <1>1, <1>2, <1>4 DEF WalkAt
  <2> QED
      BY <1>1, <2>1
      DEF ListingInv, ListingsTyped, ListingsTypeOK, PagesAbove, OlderHalf, WholeResult, InWindow
<1> QED
    BY <1>3, <1>4

LEMMA FailKeeps == ListingInv /\ Fail => ListingInv'
<1> SUFFICES ASSUME ListingInv, Fail PROVE ListingInv'
    OBVIOUS
<1>1. PICK deadline \in BOOLEAN :
        walk' = Ended(walk, IF KeepsPart(walk, deadline) THEN walk.got ELSE <<>>, "failed")
    BY DEF Fail
<1> DEFINE left == IF KeepsPart(walk, deadline) THEN walk.got ELSE <<>>
<1>2. /\ walk \in [kind : Kinds, at : WalkAt, cursor : 0 .. MaxItem + 1, from : 0 .. MaxItem,
                   got : Seq(Items)]
      /\ UNCHANGED <<live, stayed, changes>> /\ {faults, faults'} \subseteq Nat
      /\ live \subseteq Items /\ stayed \subseteq live
    BY DEF Fail, ListingInv, ListingsTyped, ListingsTypeOK
<1>3. left \in {walk.got, <<>>} /\ (walk.kind = "around" => left = <<>>)
    BY DEF KeepsPart
<1>4. ToSet(<<>>) = {} /\ Decreasing(<<>>) /\ <<>> \in Seq(Items)
    BY DEF ToSet, Decreasing
<1> HIDE DEF left
<1>5. /\ left \in Seq(Items) /\ Decreasing(left)
      /\ walk'.at = "failed" /\ walk'.got = left /\ walk'.kind = walk.kind
      /\ walk' \in [kind : Kinds, at : WalkAt, cursor : 0 .. MaxItem + 1, from : 0 .. MaxItem,
                    got : Seq(Items)]
  <2>1. left \in Seq(Items) /\ Decreasing(left)
      BY <1>2, <1>3, <1>4 DEF ListingInv
  <2>2. walk' = [walk EXCEPT !.at = "failed", !.got = left]
      BY <1>1 DEF Ended, left
  <2> QED
      BY <1>2, <2>1, <2>2 DEF WalkAt
<1>6. ASSUME NEW i \in stayed, Between(i, ToSet(left))
      PROVE  i \in ToSet(left)
  <2>1. PICK g \in ToSet(left) : g <= i
      BY <1>6 DEF Between
  <2>2. left = walk.got /\ walk.kind # "around"
      BY <1>3, <1>4, <2>1
  <2>3. walk.at \in {"page", "wait"} /\ PagesAbove
      BY <2>2 DEF Fail, ListingInv, OlderHalf
  <2>4. g >= walk.cursor /\ InWindow(walk, g) /\ g \in Items /\ i \in Items
      BY <1>2, <2>1, <2>2, <2>3 DEF PagesAbove, ToSet
  <2>5. g \in Nat /\ i \in Nat /\ walk.from \in Nat /\ walk.cursor \in Nat
      BY <1>2, <2>4, ItemsAreNumbers, ListingAssumption
  <2>6. i >= walk.cursor /\ InWindow(walk, i)
      BY <2>1, <2>4, <2>5 DEF InWindow
  <2> QED
      BY <2>2, <2>3, <2>6 DEF PagesAbove
<1>7. WholeResult'
    BY <1>2, <1>5, <1>6 DEF WholeResult
<1> QED
    BY <1>2, <1>5, <1>7 DEF ListingInv, ListingsTyped, ListingsTypeOK, PagesAbove, OlderHalf

\* The window around a message: what is at or before it, then what is after.
LEMMA OlderKeeps == ListingInv /\ Older => ListingInv'
<1> SUFFICES ASSUME ListingInv, Older PROVE ListingInv'
    OBVIOUS
<1> DEFINE before == {i \in live : i <= walk.from}
<1>1. PICK batch \in Latest(before, PageSize) :
            walk' = [walk EXCEPT !.at = "newer", !.got = batch]
    BY DEF Older
<1>2. /\ walk \in [kind : Kinds, at : WalkAt, cursor : 0 .. MaxItem + 1, from : 0 .. MaxItem,
                   got : Seq(Items)]
      /\ walk.kind = "around"
      /\ UNCHANGED <<live, stayed, changes, faults>>
      /\ live \subseteq Items /\ stayed \subseteq live
    BY DEF Older, ListingInv, ListingsTyped, ListingsTypeOK
<1>3. before \subseteq Items
    BY <1>2
<1>4. /\ batch \in Seq(Items) /\ Decreasing(batch) /\ ToSet(batch) \subseteq before
      /\ \A s \in before, g \in ToSet(batch) : s >= g => s \in ToSet(batch)
  <2> HIDE DEF before
  <2> QED
      BY <1>3, PageFacts, ListingAssumption
<1>5. /\ walk'.at = "newer" /\ walk'.got = batch /\ walk'.kind = "around"
      /\ walk'.from = walk.from
      /\ walk' \in [kind : Kinds, at : WalkAt, cursor : 0 .. MaxItem + 1, from : 0 .. MaxItem,
                    got : Seq(Items)]
    BY <1>1, <1>2, <1>4 DEF WalkAt
<1>6. ASSUME NEW i \in stayed, NEW g \in ToSet(batch), g <= i, i <= walk.from
      PROVE  i \in ToSet(batch)
  <2>1. i \in before /\ g \in Items /\ i \in Items
      BY <1>2, <1>3, <1>4, <1>6
  <2>2. i >= g
      BY <1>6, <2>1, ItemsAreNumbers
  <2> QED
      BY <1>4, <2>1, <2>2
<1>7. OlderHalf'
    BY <1>2, <1>4, <1>5, <1>6 DEF OlderHalf
<1> QED
    BY <1>2, <1>4, <1>5, <1>7
    DEF ListingInv, ListingsTyped, ListingsTypeOK, PagesAbove, WholeResult

LEMMA NewerKeeps == ListingInv /\ Newer => ListingInv'
<1> SUFFICES ASSUME ListingInv, Newer PROVE ListingInv'
    OBVIOUS
<1> DEFINE after == {i \in live : i > walk.from}
<1>1. PICK batch \in Latest(after, PageSize) :
            walk' = Ended(walk, IF after = ToSet(batch) THEN batch \o walk.got ELSE walk.got, "done")
    BY DEF Newer
<1> DEFINE all == IF after = ToSet(batch) THEN batch \o walk.got ELSE walk.got
<1>2. /\ walk \in [kind : Kinds, at : WalkAt, cursor : 0 .. MaxItem + 1, from : 0 .. MaxItem,
                   got : Seq(Items)]
      /\ walk.kind = "around" /\ Decreasing(walk.got)
      /\ UNCHANGED <<live, stayed, changes, faults>>
      /\ live \subseteq Items /\ stayed \subseteq live
      /\ \A g \in ToSet(walk.got) : g <= walk.from
      /\ \A i \in stayed, g \in ToSet(walk.got) :
            g <= i /\ i <= walk.from => i \in ToSet(walk.got)
    BY DEF Newer, ListingInv, ListingsTyped, ListingsTypeOK, OlderHalf
<1>3. batch \in Seq(Items) /\ Decreasing(batch) /\ ToSet(batch) \subseteq after
    BY <1>2, PageFacts, ListingAssumption
<1>4. /\ walk.from \in Nat /\ \A g \in ToSet(walk.got) : g \in Items
      /\ \A i \in Items : i \in Nat
    BY <1>2, ElementsAreItems, ItemsAreNumbers, ListingAssumption
<1>5. /\ batch \o walk.got \in Seq(Items) /\ Decreasing(batch \o walk.got)
      /\ ToSet(batch \o walk.got) = ToSet(batch) \cup ToSet(walk.got)
  <2>1. ASSUME NEW g \in ToSet(batch), NEW h \in ToSet(walk.got) PROVE g > h
    <3>1. g \in Items /\ g > walk.from /\ h <= walk.from /\ h \in Items
        BY <1>2, <1>3, <1>4
    <3> QED
        BY <1>4, <3>1
  <2> QED
      BY <1>2, <1>3, <2>1, JoinedFacts
<1>6. ASSUME NEW i \in stayed, Between(i, ToSet(all))
      PROVE  i \in ToSet(all)
  <2>1. PICK g \in ToSet(all), h \in ToSet(all) : g <= i /\ i <= h
      BY <1>6 DEF Between
  <2>2. i \in live /\ i \in Items
      BY <1>2
  <2>3. CASE after = ToSet(batch)
    <3>1. ToSet(all) = after \cup ToSet(walk.got)
        BY <1>5, <2>3
    <3>2. CASE i > walk.from
        BY <2>2, <3>1, <3>2
    <3>3. CASE ~ (i > walk.from)
      <4>1. g \notin after
          BY <1>2, <1>4, <2>1, <2>2, <3>3
      <4> QED
          BY <1>2, <1>4, <2>1, <2>2, <3>1, <3>3, <4>1
    <3> QED
        BY <3>2, <3>3
  <2>4. CASE after # ToSet(batch)
    <3>1. all = walk.got
        BY <2>4
    <3>2. i <= walk.from
      <4>1. h \in Nat /\ i \in Nat /\ h <= walk.from /\ i <= h
          BY <1>2, <1>4, <2>1, <2>2, <3>1
      <4> QED
          BY <1>4, <4>1
    <3> QED
        BY <1>2, <2>1, <3>1, <3>2
  <2> QED
      BY <2>3, <2>4
<1>7. all \in Seq(Items) /\ Decreasing(all)
    BY <1>2, <1>5
<1> HIDE DEF all
<1>8. /\ walk'.at = "done" /\ walk'.got = all /\ walk'.kind = "around"
      /\ walk' \in [kind : Kinds, at : WalkAt, cursor : 0 .. MaxItem + 1, from : 0 .. MaxItem,
                    got : Seq(Items)]
  <2>1. walk' = [walk EXCEPT !.at = "done", !.got = all]
      BY <1>1 DEF Ended, all
  <2> QED
      BY <1>2, <1>7, <2>1 DEF WalkAt
<1>9. WholeResult'
    BY <1>2, <1>6, <1>8 DEF WholeResult
<1> QED
    BY <1>2, <1>7, <1>8, <1>9
    DEF ListingInv, ListingsTyped, ListingsTypeOK, PagesAbove, OlderHalf

\* What a listing has is in order and complete above its cursor, whichever pages it read
\* while items came and went (client.go:444-590, 669-844, 1846-1916).
THEOREM ListingInvHolds == ListingsSpec => []ListingInv
<1>1. ListingInv /\ [ListingsNext]_listingVars => ListingInv'
  <2> SUFFICES ASSUME ListingInv, [ListingsNext]_listingVars PROVE ListingInv'
      OBVIOUS
  <2>1. CASE ListingsNext
      BY <2>1, BeginKeeps, ChangesKeep, PageKeeps, WaitKeeps, FailKeeps, OlderKeeps, NewerKeeps
      DEF ListingsNext
  <2>2. CASE UNCHANGED listingVars
      BY <2>2 DEF listingVars, ListingInv, ListingsTyped, ListingsTypeOK, PagesAbove,
                  OlderHalf, WholeResult, InWindow
  <2> QED
      BY <2>1, <2>2
<1> QED
    BY <1>1, ListingsStart, PTL DEF ListingsSpec

\* Whatever a listing returns holds no item twice and leaves out none that was there all
\* the time between its oldest and its newest; one that ends well holds all of its window
\* (client.go:440-590, 669-842, 1748-1776, 1846-1916).
THEOREM ListingsHaveNoGap == ListingsSpec => []ListingHasNoGap
<1>1. ListingInv => ListingHasNoGap
  <2> SUFFICES ASSUME ListingInv, walk.at \in {"done", "capped", "failed"}
               PROVE  /\ IsInjective(walk.got)
                      /\ \A i \in stayed : Between(i, ToSet(walk.got)) => i \in ToSet(walk.got)
                      /\ walk.at = "done" /\ walk.kind # "around" =>
                           \A i \in stayed : (walk.kind = "since" => i > walk.from)
                                => i \in ToSet(walk.got)
      BY DEF ListingHasNoGap
  <2>1. IsInjective(walk.got)
    <3>1. walk.got \in Seq(Items) /\ Decreasing(walk.got)
        BY DEF ListingInv, ListingsTyped, ListingsTypeOK
    <3>2. \A i \in DOMAIN walk.got : i \in Nat /\ walk.got[i] \in Nat
        BY <3>1, ElementsAreItems, ItemsAreNumbers
    <3> QED
        BY <3>1, <3>2 DEF IsInjective, Decreasing
  <2> QED
      BY <2>1 DEF ListingInv, WholeResult, InWindow
<1> QED
    BY <1>1, ListingInvHolds, PTL

\* Reactions, texts, marks and rows of the store, what was seen of them, and the cursor of
\* a listing keep their types (cache/reactions.go, cache/search.go,
\* channels_read_state.go:35-60, client.go:440-1916).
THEOREM TablesTypeCorrect ==
    ReactionsSpec /\ StoreSpec /\ ReadSpec /\ ListingsSpec
        => [](ReactionsTypeOK /\ StoreTypeOK /\ ReadTypeOK /\ ListingsTypeOK)
<1>1. ReactionsInv => ReactionsTypeOK
    BY ReactionsFromInv
<1>2. StoreInv => StoreTypeOK
    BY SearchFromInv
<1>3. ReadInv /\ SeenAreRows => ReadTypeOK
  <2> SUFFICES ASSUME ReadInv, SeenAreRows PROVE ReadTypeOK
      OBVIOUS
  <2>1. {lastRead, mark, covered, cursor, known} \subseteq 0 .. MaxTS /\ snapshot \subseteq 0 .. MaxTS
    <3>1. \A ts \in snapshot : ts \in Nat /\ ts <= covered
        BY DEF ReadInv, ReadTyped, MarksBehind
    <3> QED
        BY <3>1, ReadStateAssumption DEF ReadInv, ReadTyped, MarksBehind, TickInOrder
  <2>2. rows \cup uncached \cup others \subseteq 1 .. MaxTS
      BY ReadStateAssumption DEF ReadInv, ReadTyped
  <2> QED
      BY <2>1, <2>2 DEF ReadInv, ReadTyped, SeenAreRows, ReadTypeOK, ReadLine
<1>4. ListingInv => ListingsTypeOK
    BY DEF ListingInv, ListingsTyped
<1>5. ReadSpec => []SeenAreRows
  <2>1. ReadInit => SeenAreRows
      BY SeenFirst
  <2>2. ReadInv /\ SeenAreRows /\ [ReadNext]_readVars => SeenAreRows'
      BY SeenStep
  <2> QED
      BY <2>1, <2>2, ReadInvHolds, PTL DEF ReadSpec
<1> QED
    BY <1>1, <1>2, <1>3, <1>4, <1>5, ReactionsInvHolds, StoreInvHolds, ReadInvHolds,
       ListingInvHolds, PTL

-----------------------------------------------------------------------------
(* The workspace: the parts share no variable, so what each keeps under its *)
(* own steps holds of them side by side.                                   *)

\* Every variable of a workspace keeps its type, whatever its parts do and however
\* their steps interleave (main.go, wshandler.go, slack/connection.go, slack/client.go,
\* notify/notifier.go, cache/channel_members.go, cache/channels_read_state.go,
\* cache/reactions.go, cache/search.go).
THEOREM WorkspaceTypeCorrect ==
    AttachSpec /\ SessionSpec /\ ClientsSpec /\ NotifierSpec /\ FocusSpec
    /\ DirectorySpec /\ MembershipSpec
    /\ ReactionsSpec /\ StoreSpec /\ ReadSpec /\ ListingsSpec
        => []WorkspaceTypeOK
<1>1. AttachTypeOK /\ SessionTypeOK /\ ClientsTypeOK /\ (NotifierTypeOK /\ FocusTypeOK)
      /\ (DirectoryTypeOK /\ MembershipTypeOK)
      /\ (ReactionsTypeOK /\ StoreTypeOK /\ ReadTypeOK /\ ListingsTypeOK)
          => WorkspaceTypeOK
    BY DEF WorkspaceTypeOK
<1> QED
    BY <1>1, AttachTypeCorrect, SessionTypeCorrect, ClientsTypeCorrect, DesktopTypeCorrect,
       PeopleTypeCorrect, TablesTypeCorrect, PTL
=============================================================================
