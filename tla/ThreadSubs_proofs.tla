--------------------------- MODULE ThreadSubs_proofs ---------------------------
(***************************************************************************)
(* Theorems about ThreadSubs, for every value of its constants.            *)
(***************************************************************************)
EXTENDS ThreadSubs, WellFoundedInduction, FiniteSetTheorems, SequenceTheorems, TLAPS

RowAt == {"none", "off", "active"}
JobAt == {"idle", "listing", "partial", "full"}
TaskAt == {"idle", "fetch", "advance", "check", "mark", "unsubscribe", "delete",
           "react", "react, keep", "undo", "forget", "done"}

\* A nonempty set of timestamps has a latest member, because its distances from
\* MaxTS have a least one.
LEMMA LatestExists ==
    ASSUME NEW S \in SUBSET TS, S # {}
    PROVE  LatestOf(S) \in S /\ \A u \in S : u <= LatestOf(S)
<1> DEFINE R == {ss \in Nat \X Nat : ss[1] < ss[2]}
           T == {MaxTS - t : t \in S}
<1>1. IsWellFoundedOn(R, Nat)
  <2>1. R = OpToRel(<, Nat)
      BY DEF OpToRel
  <2> QED
      BY <2>1, NatLessThanWellFounded
<1>2. \A t \in S : t \in Nat /\ MaxTS - t \in Nat
    BY BoundsAssumption DEF TS
<1>3. T \subseteq Nat /\ T # {}
    BY <1>2
<1>4. PICK x \in T : \A y \in T : ~ (<<y, x>> \in R)
  <2> HIDE DEF R, T
  <2> QED
      BY <1>1, <1>3, WFMin
<1>5. PICK t \in S : x = MaxTS - t
    BY <1>4
<1>6. ASSUME NEW u \in S PROVE u <= t
  <2>1. MaxTS - u \in T /\ MaxTS - u \in Nat /\ x \in Nat
      BY <1>2, <1>3, <1>4
  <2>2. ~ (MaxTS - u < x)
      BY <2>1, <1>4
  <2> QED
      BY <2>2, <1>2, <1>5, BoundsAssumption
<1> QED
    BY <1>6 DEF LatestOf

\* What a transaction writes to one row.
LEMMA ReconciledFact ==
    ASSUME TypeOK, NEW listed \in SUBSET View, NEW t \in Threads
    PROVE  /\ Reconciled(listed)[t] \in Row
           /\ Reconciled(listed)[t].lr >= row[t].lr
           /\ Reconciled(listed)[t].at = "none" => Reconciled(listed)[t].lr = 0
           /\ \A b \in TS : (row[t].lr <= b /\ \A v \in listed : v.t = t => v.lr <= b)
                                => Reconciled(listed)[t].lr <= b
<1> DEFINE lrs == {v.lr : v \in {w \in listed : w.t = t}}
           all == lrs \cup {row[t].lr}
<1>1. row[t] \in Row /\ (row[t].at = "none" => row[t].lr = 0)
    BY DEF TypeOK
<1>2. \A v \in listed : v.lr \in TS
    BY DEF View
<1>3. all \in SUBSET TS /\ all # {}
    BY <1>1, <1>2 DEF Row
<1>4. LatestOf(all) \in all /\ \A u \in all : u <= LatestOf(all)
  <2> HIDE DEF all
  <2> QED
      BY <1>3, LatestExists
<1>5. row[t].lr \in 0 .. MaxTS /\ MaxTS \in Nat
    BY <1>1, BoundsAssumption DEF Row, TS
<1>6. CASE lrs # {}
  <2>1. Reconciled(listed)[t] = [at |-> "active", lr |-> LatestOf(all)]
      BY <1>6 DEF Reconciled
  <2>2. LatestOf(all) \in TS /\ LatestOf(all) >= row[t].lr
      BY <1>3, <1>4
  <2>3. ASSUME NEW b \in TS, row[t].lr <= b, \A v \in listed : v.t = t => v.lr <= b
        PROVE  LatestOf(all) <= b
      BY <1>4, <2>3
  <2> HIDE DEF lrs, all
  <2> QED
      BY <2>1, <2>2, <2>3 DEF Row
<1>7. CASE lrs = {} /\ row[t].at = "active"
  <2>1. Reconciled(listed)[t] = [row[t] EXCEPT !.at = "off"]
      BY <1>7 DEF Reconciled
  <2> HIDE DEF lrs, all
  <2> QED
      BY <1>1, <1>5, <2>1 DEF Row
<1>8. CASE lrs = {} /\ row[t].at # "active"
  <2>1. Reconciled(listed)[t] = row[t]
      BY <1>8 DEF Reconciled
  <2> HIDE DEF lrs, all
  <2> QED
      BY <1>1, <1>5, <2>1
<1> QED
    BY <1>6, <1>7, <1>8

-----------------------------------------------------------------------------
(* Type correctness                                                        *)

LEMMA CountTyped ==
    ASSUME NEW m \in Nat, NEW n \in 0 .. m, n < m
    PROVE  n + 1 \in 0 .. m
OBVIOUS

LEMMA LaterTyped ==
    ASSUME NEW m \in TS, NEW n \in TS
    PROVE  LaterOf(m, n) \in TS /\ LaterOf(m, n) >= m /\ LaterOf(m, n) >= n
BY BoundsAssumption DEF LaterOf, TS

LEMMA RowTyped ==
    ASSUME TypeOK, NEW t \in Threads
    PROVE  row[t].at \in RowAt /\ row[t].lr \in TS /\ newest[t] \in TS
           /\ mark[t] \in TS /\ seen[t] \in TS
BY DEF TypeOK, Row, RowAt

\* The four writes to the table keep it well typed.
LEMMA WritesTyped ==
    ASSUME TypeOK, NEW t \in Threads, NEW ts \in TS, NEW at \in {"off", "active"},
           \/ Upsert(t, ts, at)
           \/ Advance(t, ts)
           \/ DeleteRow(t)
           \/ \E k \in Jobs : row' = Reconciled(views[k])
    PROVE  /\ row' \in [Threads -> Row]
           /\ \A u \in Threads : row'[u].at = "none" => row'[u].lr = 0
<1>0. row[t].lr \in TS /\ 0 \in TS
    BY RowTyped, BoundsAssumption DEF TS
<1>1. LaterOf(ts, row[t].lr) \in TS
    BY <1>0, LaterTyped
<1>2. CASE Upsert(t, ts, at)
  <2>1. row' = [row EXCEPT ![t] = [at |-> at, lr |-> LaterOf(ts, row[t].lr)]]
      BY <1>2 DEF Upsert, TypeOK
  <2>2. [at |-> at, lr |-> LaterOf(ts, row[t].lr)] \in Row
      BY <1>1 DEF Row
  <2> QED
      BY <2>1, <2>2 DEF TypeOK
<1>3. CASE Advance(t, ts)
  <2>1. CASE row[t].at # "none"
    <3>0. row[t] \in Row
        BY DEF TypeOK
    <3>1. [row[t] EXCEPT !.lr = LaterOf(ts, row[t].lr)]
            = [at |-> row[t].at, lr |-> LaterOf(ts, row[t].lr)]
        BY <3>0 DEF Row
    <3>4. row' = [row EXCEPT ![t] = [row[t] EXCEPT !.lr = LaterOf(ts, row[t].lr)]]
        BY <1>3, <2>1 DEF Advance, TypeOK
    <3>2. [at |-> row[t].at, lr |-> LaterOf(ts, row[t].lr)] \in Row
        BY <1>1, RowTyped DEF Row, RowAt
    <3> QED
        BY <2>1, <3>1, <3>2, <3>4 DEF TypeOK
  <2>2. CASE row[t].at = "none"
      BY <1>3, <2>2 DEF Advance, TypeOK
  <2> QED
      BY <2>1, <2>2
<1>4. CASE DeleteRow(t)
    BY <1>0, <1>4 DEF DeleteRow, TypeOK, Row
<1>5. ASSUME NEW k \in Jobs, row' = Reconciled(views[k])
      PROVE  /\ row' \in [Threads -> Row]
             /\ \A u \in Threads : row'[u].at = "none" => row'[u].lr = 0
  <2>1. views[k] \in SUBSET View
      BY DEF TypeOK
  <2>2. \A u \in Threads :
          /\ Reconciled(views[k])[u] \in Row
          /\ Reconciled(views[k])[u].at = "none" => Reconciled(views[k])[u].lr = 0
      BY <2>1, ReconciledFact
  <2> QED
      BY <1>5, <2>2 DEF Reconciled
<1> QED
    BY <1>2, <1>3, <1>4, <1>5

LEMMA SendTyped ==
    ASSUME TypeOK, NEW t \in Threads, NEW lr \in TS, NEW active \in BOOLEAN,
           NEW kind \in {"marked", "changed"}, Send(t, kind, active, lr)
    PROVE  stream' \in Seq(Event)
<1>1. [t |-> t, lr |-> lr, active |-> active, kind |-> kind] \in Event
    BY DEF Event
<1> QED
    BY <1>1, AppendProperties DEF Send, TypeOK

LEMMA UnsubscribeTyped ==
    ASSUME TypeOK, NEW t \in Threads, Unsubscribe(t)
    PROVE  /\ sub' \in SUBSET Threads
           /\ steady' \in [Jobs -> SUBSET Threads]
           /\ stream' \in Seq(Event)
<1>0. mark[t] \in TS
    BY RowTyped
<1>1. stream' \in Seq(Event)
  <2>1. CASE t \in sub
      BY <1>0, <2>1, SendTyped DEF Unsubscribe
  <2>2. CASE t \notin sub
      BY <2>2 DEF Unsubscribe, TypeOK
  <2> QED
      BY <2>1, <2>2
<1> QED
    BY <1>1 DEF Unsubscribe, Unsteady, TypeOK

LEMMA HeadTyped ==
    ASSUME TypeOK, stream # <<>>
    PROVE  Head(stream) \in Event /\ Tail(stream) \in Seq(Event)
BY HeadTailProperties DEF TypeOK

LEMMA SlackTyped ==
    ASSUME TypeOK, NEW t \in Threads,
           Reply(t) \/ Follow(t) \/ UnfollowElsewhere(t) \/ ReadElsewhere(t)
    PROVE  TypeOK'
<1> USE BoundsAssumption
<1>0. newest[t] \in TS
    BY RowTyped
<1>1. CASE Reply(t)
  <2>1. clock' \in TS
    <3>1. clock \in 0 .. MaxTS /\ clock < MaxTS /\ clock' = clock + 1
        BY <1>1 DEF Reply, TypeOK, TS
    <3> QED
        BY <3>1 DEF TS
  <2>2. newest' \in [Threads -> TS]
      BY <1>1, <2>1 DEF Reply, TypeOK
  <2> QED
      BY <1>1, <2>1, <2>2 DEF Reply, Unsteady, TypeOK, listing, tasks
<1>2. CASE Follow(t)
  <2>1. mark' \in [Threads -> TS] /\ mark'[t] \in TS /\ seen' \in [Threads -> TS]
      BY <1>0, <1>2 DEF Follow, TypeOK
  <2>2. stream' \in Seq(Event)
      BY <1>2, <2>1, SendTyped DEF Follow, Subscribe
  <2>3. changes' \in 0 .. MaxChanges
    <3>1. changes \in 0 .. MaxChanges /\ changes < MaxChanges /\ changes' = changes + 1
        BY <1>2 DEF Follow, TypeOK
    <3> QED
        BY <3>1, CountTyped, BoundsAssumption
  <2> QED
      BY <1>2, <2>1, <2>2, <2>3 DEF Follow, Subscribe, TypeOK, listing, tasks
<1>3. CASE UnfollowElsewhere(t)
  <2>1. changes' \in 0 .. MaxChanges
    <3>1. changes \in 0 .. MaxChanges /\ changes < MaxChanges /\ changes' = changes + 1
        BY <1>3 DEF UnfollowElsewhere, TypeOK
    <3> QED
        BY <3>1, CountTyped, BoundsAssumption
  <2>2. /\ sub' \in SUBSET Threads
        /\ steady' \in [Jobs -> SUBSET Threads]
        /\ stream' \in Seq(Event)
      BY <1>3, UnsubscribeTyped DEF UnfollowElsewhere
  <2> QED
      BY <1>3, <2>1, <2>2 DEF UnfollowElsewhere, TypeOK, listing, tasks
<1>4. CASE ReadElsewhere(t)
  <2>1. stream' \in Seq(Event)
      BY <1>0, <1>4, SendTyped DEF ReadElsewhere
  <2>2. changes' \in 0 .. MaxChanges
    <3>1. changes \in 0 .. MaxChanges /\ changes < MaxChanges /\ changes' = changes + 1
        BY <1>4 DEF ReadElsewhere, TypeOK
    <3> QED
        BY <3>1, CountTyped, BoundsAssumption
  <2> QED
      BY <1>0, <1>4, <2>1, <2>2 DEF ReadElsewhere, TypeOK, listing, tasks
<1> QED
    BY <1>1, <1>2, <1>3, <1>4

LEMMA SocketTyped ==
    ASSUME TypeOK, Drop \/ ReadLoop
    PROVE  TypeOK'
<1>1. CASE Drop
  <2>1. drops' \in 0 .. MaxDrops
    <3>1. drops \in 0 .. MaxDrops /\ drops < MaxDrops /\ drops' = drops + 1
        BY <1>1 DEF Drop, TypeOK
    <3> QED
        BY <3>1, CountTyped, BoundsAssumption
  <2>2. stream' \in Seq(Event)
      BY <1>1 DEF Drop
  <2> QED
      BY <1>1, <2>1, <2>2 DEF Drop, TypeOK, slack, listing, tasks
<1>2. CASE ReadLoop
  <2>1. stream # <<>>
      BY <1>2 DEF ReadLoop, OnThreadMarked, OnThreadSubscriptionChanged
  <2>2. Head(stream) \in Event /\ Tail(stream) \in Seq(Event)
      BY <2>1, HeadTyped
  <2>3. /\ row' \in [Threads -> Row]
        /\ \A u \in Threads : row'[u].at = "none" => row'[u].lr = 0
      BY <1>2, <2>2, WritesTyped
      DEF ReadLoop, OnThreadMarked, OnThreadSubscriptionChanged, ActiveIf, Event
  <2> QED
      BY <1>2, <2>2, <2>3
      DEF ReadLoop, OnThreadMarked, OnThreadSubscriptionChanged, TypeOK, slack,
          listing, tasks
<1> QED
    BY <1>1, <1>2

LEMMA BackfillTyped ==
    ASSUME TypeOK, NEW k \in Jobs, Backfill(k)
    PROVE  TypeOK'
<1> USE BoundsAssumption
<1>1. CASE StartListing(k)
  <2>1. MaxTS + 1 \in 0 .. MaxTS + 1
      OBVIOUS
  <2>2. cursor' \in [Jobs -> 0 .. MaxTS + 1]
      BY <1>1, <2>1 DEF StartListing, TypeOK
  <2>3. views' \in [Jobs -> SUBSET View] /\ steady' \in [Jobs -> SUBSET Threads]
      BY <1>1 DEF StartListing, TypeOK
  <2> QED
      BY <1>1, <2>2, <2>3 DEF StartListing, TypeOK, slack, tasks
<1>2. CASE ListPage(k)
  <2>1. PageOf(k) \subseteq Threads
      BY DEF PageOf, Remaining, TypeOK
  <2>2. {[t |-> t, lr |-> mark[t]] : t \in PageOf(k)} \in SUBSET View
      BY <2>1, RowTyped DEF View
  <2>3. \A t \in PageOf(k) : newest[t] \in 0 .. MaxTS + 1
      BY <2>1, RowTyped DEF TS
  <2>4. views' \in [Jobs -> SUBSET View]
      BY <1>2, <2>2 DEF ListPage, TypeOK
  <2>5. cursor' \in [Jobs -> 0 .. MaxTS + 1]
      BY <1>2, <2>3 DEF ListPage, TypeOK
  <2>6. job' \in [Jobs -> JobAt]
      BY <1>2 DEF ListPage, TypeOK, JobAt
  <2> QED
      BY <1>2, <2>4, <2>5, <2>6 DEF ListPage, TypeOK, JobAt, slack, tasks
<1>3. CASE ListingTimesOut(k) \/ ListingFails(k)
    BY <1>3 DEF ListingTimesOut, ListingFails, AfterTimeout, TypeOK, slack, tasks
<1>4. CASE UpsertPartial(k)
  <2>1. PICK v \in views[k] : /\ Upsert(v.t, v.lr, "active")
                             /\ views' = [views EXCEPT ![k] = @ \ {v}]
      BY <1>4 DEF UpsertPartial
  <2>2. v.t \in Threads /\ v.lr \in TS
    <3>1. v \in View
        BY DEF TypeOK
    <3> QED
        BY <3>1 DEF View
  <2>3. /\ row' \in [Threads -> Row]
        /\ \A u \in Threads : row'[u].at = "none" => row'[u].lr = 0
      BY <2>1, <2>2, WritesTyped
  <2>4. job' \in [Jobs -> JobAt]
      BY <1>4 DEF UpsertPartial, TypeOK, JobAt
  <2> QED
      BY <1>4, <2>1, <2>3, <2>4 DEF UpsertPartial, TypeOK, JobAt, slack, tasks
<1>5. CASE ReconcileThreadSubscriptions(k)
  <2>1. /\ row' \in [Threads -> Row]
        /\ \A u \in Threads : row'[u].at = "none" => row'[u].lr = 0
    <3>1. \A u \in Threads :
            /\ Reconciled(views[k])[u] \in Row
            /\ Reconciled(views[k])[u].at = "none" => Reconciled(views[k])[u].lr = 0
      <4>1. views[k] \in SUBSET View
          BY DEF TypeOK
      <4> QED
          BY <4>1, ReconciledFact
    <3>2. row' = Reconciled(views[k])
        BY <1>5 DEF ReconcileThreadSubscriptions
    <3>3. Reconciled(views[k]) = [u \in Threads |-> Reconciled(views[k])[u]]
        BY DEF Reconciled
    <3> QED
        BY <3>1, <3>2, <3>3
  <2> QED
      BY <1>5, <2>1 DEF ReconcileThreadSubscriptions, TypeOK, slack, tasks, View
<1> QED
    BY <1>1, <1>2, <1>3, <1>4, <1>5 DEF Backfill

LEMMA OpeningTyped ==
    ASSUME TypeOK, NEW g \in Tasks, Opening(g)
    PROVE  TypeOK'
<1> USE BoundsAssumption DEF Goto
<1>0. on[g] \in Threads /\ newest[on[g]] \in TS /\ upto[g] \in TS
    BY RowTyped DEF TypeOK
<1>1. CASE OpenThread(g) \/ CheckActive(g)
    BY <1>1 DEF OpenThread, CheckActive, TypeOK, slack, listing
<1>2. CASE MarkThreadRead(g)
  <2>1. PICK ts \in 1 .. newest[on[g]] :
            /\ upto' = [upto EXCEPT ![g] = ts]
            /\ seen' = [seen EXCEPT ![on[g]] = LaterOf(ts, @)]
      BY <1>2 DEF MarkThreadRead
  <2>2. ts \in TS /\ LaterOf(ts, seen[on[g]]) \in TS
    <3>1. ts \in TS
        BY <1>0 DEF TS
    <3>2. seen[on[g]] \in TS
        BY <1>0, RowTyped
    <3> QED
        BY <3>1, <3>2, LaterTyped
  <2>3. seen' \in [Threads -> TS] /\ upto' \in [Tasks -> TS] /\ task' \in [Tasks -> TaskAt]
    <3>1. /\ seen \in [Threads -> TS] /\ upto \in [Tasks -> TS] /\ task \in [Tasks -> TaskAt]
          /\ task' = [task EXCEPT ![g] = "advance"]
        BY <1>2 DEF MarkThreadRead, TypeOK, TaskAt
    <3>2. task' \in [Tasks -> TaskAt]
        BY <3>1 DEF TaskAt
    <3> QED
        BY <2>1, <2>2, <3>1, <3>2
  <2> QED
      BY <1>2, <2>3 DEF MarkThreadRead, TypeOK, slack, listing
<1>3. CASE GetReplies(g)
    BY <1>0, <1>3 DEF GetReplies, TypeOK, slack, listing
<1>4. CASE AdvanceLastRead(g)
  <2>1. /\ row' \in [Threads -> Row]
        /\ \A u \in Threads : row'[u].at = "none" => row'[u].lr = 0
      BY <1>0, <1>4, WritesTyped DEF AdvanceLastRead, ReadUpTo
  <2> QED
      BY <1>4, <2>1 DEF AdvanceLastRead, TypeOK, slack, listing
<1>5. CASE MarkThread(g)
  <2>1. stream' \in Seq(Event)
    <3>1. CASE UNCHANGED stream
        BY <3>1 DEF TypeOK
    <3>2. ASSUME NEW active \in BOOLEAN, Send(on[g], "marked", active, upto[g])
          PROVE  stream' \in Seq(Event)
        BY <1>0, <3>2, SendTyped
    <3> QED
        BY <1>5, <3>1, <3>2 DEF MarkThread
  <2>2. mark' \in [Threads -> TS] /\ sub' \in SUBSET Threads
      BY <1>0, <1>5 DEF MarkThread, TypeOK
  <2> QED
      BY <1>5, <2>1, <2>2 DEF MarkThread, TypeOK, listing
<1> QED
    BY <1>1, <1>2, <1>3, <1>4, <1>5 DEF Opening

LEMMA OtherTasksTyped ==
    ASSUME TypeOK, NEW g \in Tasks, Unfollowing(g) \/ Reacting(g)
    PROVE  TypeOK'
<1> USE BoundsAssumption DEF Goto
<1>0. on[g] \in Threads /\ mark[on[g]] \in TS /\ 0 \in TS
  <2>1. on[g] \in Threads
      BY DEF TypeOK
  <2> QED
      BY <2>1, RowTyped DEF TS
<1>1. CASE UnsubThread(g) \/ React(g)
    BY <1>1 DEF UnsubThread, React, TypeOK, slack, listing
<1>2. CASE CallUnsubscribe(g)
  <2>1. /\ sub' \in SUBSET Threads
        /\ steady' \in [Jobs -> SUBSET Threads]
        /\ stream' \in Seq(Event)
      BY <1>0, <1>2, UnsubscribeTyped DEF CallUnsubscribe, TypeOK
  <2> QED
      BY <1>2, <2>1 DEF CallUnsubscribe, TypeOK, listing
<1>3. CASE UndoFollow(g)
  <2>1. /\ sub' \in SUBSET Threads
        /\ steady' \in [Jobs -> SUBSET Threads]
        /\ stream' \in Seq(Event)
      BY <1>0, <1>3, UnsubscribeTyped DEF UndoFollow, TypeOK
  <2> QED
      BY <1>3, <2>1 DEF UndoFollow, TypeOK, listing
<1>4. CASE DeleteThreadSubscription(g) \/ ForgetFollow(g)
  <2>1. /\ row' \in [Threads -> Row]
        /\ \A u \in Threads : row'[u].at = "none" => row'[u].lr = 0
      BY <1>0, <1>4, WritesTyped DEF DeleteThreadSubscription, ForgetFollow
  <2> QED
      BY <1>4, <2>1 DEF DeleteThreadSubscription, ForgetFollow, TypeOK, slack, listing
<1>5. CASE AddReaction(g)
  <2>1. stream' \in Seq(Event) /\ sub' \in SUBSET Threads
    <3>1. CASE UNCHANGED <<sub, stream>>
        BY <3>1 DEF TypeOK
    <3>2. CASE Send(on[g], "changed", TRUE, mark[on[g]]) /\ sub' = sub \cup {on[g]}
        BY <1>0, <3>2, SendTyped DEF TypeOK
    <3> QED
        BY <1>5, <3>1, <3>2 DEF AddReaction
  <2> QED
      BY <1>5, <2>1 DEF AddReaction, TypeOK, listing
<1> QED
    BY <1>1, <1>2, <1>3, <1>4, <1>5 DEF Unfollowing, Reacting

LEMMA TypeStep == TypeOK /\ [Next]_vars => TypeOK'
<1> SUFFICES ASSUME TypeOK, [Next]_vars PROVE TypeOK'
    OBVIOUS
<1>1. CASE Next
    BY <1>1, SlackTyped, SocketTyped, BackfillTyped, OpeningTyped, OtherTasksTyped
    DEF Next
<1>2. CASE UNCHANGED vars
    BY <1>2 DEF vars, slack, listing, tasks, TypeOK
<1> QED
    BY <1>1, <1>2

\* Every variable keeps its type, and a row that is absent remembers nothing.
THEOREM TypeCorrect == Spec => []TypeOK
<1>1. Init => TypeOK
  <2> SUFFICES ASSUME Init PROVE TypeOK
      OBVIOUS
  <2>1. Cardinality(Threads) \in TS
      BY ThreadsAssumption, BoundsAssumption, FS_CardinalityType DEF TS
  <2>2. 0 \in TS /\ 1 .. clock \subseteq TS /\ 0 \in 0 .. MaxTS + 1
      BY <2>1, BoundsAssumption DEF Init, TS
  <2> QED
      BY <2>1, <2>2, BoundsAssumption DEF Init, TypeOK, Row, View
<1> QED
    BY <1>1, TypeStep, PTL DEF Spec

-----------------------------------------------------------------------------
(* last_read goes forward                                                  *)

LEMMA WritesForward ==
    ASSUME TypeOK, NEW t \in Threads, NEW ts \in TS, NEW at \in {"off", "active"},
           \/ Upsert(t, ts, at)
           \/ Advance(t, ts)
           \/ DeleteRow(t)
           \/ \E k \in Jobs : row' = Reconciled(views[k])
    PROVE  \A u \in Threads : row'[u].at # "none" => row'[u].lr >= row[u].lr
<1>0. \A u \in Threads : row[u].lr \in TS /\ row[u].lr >= row[u].lr
    BY RowTyped, BoundsAssumption DEF TS
<1>1. LaterOf(ts, row[t].lr) >= row[t].lr
    BY <1>0, LaterTyped
<1>2. CASE Upsert(t, ts, at)
    BY <1>0, <1>1, <1>2 DEF Upsert, TypeOK
<1>3. CASE Advance(t, ts)
  <2>1. row[t] \in Row /\ row \in [Threads -> Row]
      BY DEF TypeOK
  <2>2. [row[t] EXCEPT !.lr = LaterOf(ts, row[t].lr)].lr = LaterOf(ts, row[t].lr)
      BY <2>1 DEF Row
  <2>3. CASE row[t].at # "none"
    <3>1. row' = [row EXCEPT ![t] = [row[t] EXCEPT !.lr = LaterOf(ts, row[t].lr)]]
        BY <1>3, <2>1, <2>3 DEF Advance
    <3> QED
        BY <1>0, <1>1, <2>1, <2>2, <3>1
  <2>4. CASE row[t].at = "none"
      BY <1>0, <1>3, <2>4 DEF Advance
  <2> QED
      BY <2>3, <2>4
<1>4. CASE DeleteRow(t)
    BY <1>0, <1>4 DEF DeleteRow, TypeOK
<1>5. ASSUME NEW k \in Jobs, row' = Reconciled(views[k]), NEW u \in Threads
      PROVE  row'[u].lr >= row[u].lr
  <2>1. views[k] \in SUBSET View
      BY DEF TypeOK
  <2> QED
      BY <1>5, <2>1, ReconciledFact
<1> QED
    BY <1>2, <1>3, <1>4, <1>5

RowForward == \A u \in Threads : row'[u].at # "none" => row'[u].lr >= row[u].lr

LEMMA StepForward == TypeOK /\ [Next]_vars => RowForward
<1> SUFFICES ASSUME TypeOK, [Next]_vars PROVE RowForward
    OBVIOUS
<1>0. CASE UNCHANGED row
    BY <1>0, RowTyped, BoundsAssumption DEF RowForward, TS
<1>1. ASSUME NEW t \in Threads,
             Reply(t) \/ Follow(t) \/ UnfollowElsewhere(t) \/ ReadElsewhere(t)
      PROVE  UNCHANGED row
    BY <1>1 DEF Reply, Follow, UnfollowElsewhere, ReadElsewhere
<1>2. CASE ReadLoop
  <2>1. stream # <<>>
      BY <1>2 DEF ReadLoop, OnThreadMarked, OnThreadSubscriptionChanged
  <2>2. Head(stream) \in Event
      BY <2>1, HeadTyped
  <2> QED
      BY <1>2, <2>2, WritesForward
      DEF ReadLoop, OnThreadMarked, OnThreadSubscriptionChanged, ActiveIf, Event, RowForward
<1>3. ASSUME NEW k \in Jobs, Backfill(k)
      PROVE  RowForward
  <2>1. CASE UpsertPartial(k)
    <3>1. PICK v \in views[k] : Upsert(v.t, v.lr, "active")
        BY <2>1 DEF UpsertPartial
    <3>2. v.t \in Threads /\ v.lr \in TS
      <4>1. v \in View
          BY DEF TypeOK
      <4> QED
          BY <4>1 DEF View
    <3> QED
        BY <3>1, <3>2, WritesForward DEF RowForward
  <2>2. CASE ReconcileThreadSubscriptions(k)
    <3>1. ASSUME NEW u \in Threads PROVE Reconciled(views[k])[u].lr >= row[u].lr
        BY ReconciledFact DEF TypeOK
    <3> QED
        BY <2>2, <3>1 DEF ReconcileThreadSubscriptions, RowForward
  <2> QED
      BY <1>0, <1>3, <2>1, <2>2
      DEF Backfill, StartListing, ListPage, ListingTimesOut, ListingFails
<1>4. ASSUME NEW g \in Tasks, Opening(g) \/ Unfollowing(g) \/ Reacting(g)
      PROVE  RowForward
  <2>0. on[g] \in Threads /\ upto[g] \in TS /\ 0 \in TS
    <3>1. on[g] \in Threads /\ upto[g] \in TS
        BY DEF TypeOK
    <3>2. 0 \in TS
        BY BoundsAssumption DEF TS
    <3> QED
        BY <3>1, <3>2
  <2>1. CASE AdvanceLastRead(g)
      BY <2>0, <2>1, WritesForward DEF AdvanceLastRead, ReadUpTo, RowForward
  <2>2. CASE DeleteThreadSubscription(g)
      BY <2>0, <2>2, WritesForward DEF DeleteThreadSubscription, RowForward
  <2>3. CASE ForgetFollow(g)
      BY <2>0, <2>3, WritesForward DEF ForgetFollow, RowForward
  <2> QED
      BY <1>0, <1>4, <2>1, <2>2, <2>3
      DEF Opening, Unfollowing, Reacting, OpenThread, MarkThreadRead, GetReplies,
          CheckActive, MarkThread, UnsubThread, CallUnsubscribe, React, AddReaction,
          UndoFollow
<1>5. CASE Next
  <2>1. CASE Drop
      BY <1>0, <2>1 DEF Drop
  <2> QED
      BY <1>0, <1>1, <1>2, <1>3, <1>4, <1>5, <2>1 DEF Next
<1>6. CASE UNCHANGED vars
    BY <1>0, <1>6 DEF vars
<1> QED
    BY <1>5, <1>6

\* As long as a row is there its last_read never goes back, whichever stale
\* event, listing or command writes it.
THEOREM LastReadNeverGoesBack == Spec => LastReadKept
<1>1. TypeOK /\ [Next]_vars =>
        [\A t \in Threads : row'[t].at # "none" => row'[t].lr >= row[t].lr]_vars
    BY StepForward DEF RowForward
<1> QED
    BY <1>1, TypeCorrect, PTL DEF Spec, LastReadKept

-----------------------------------------------------------------------------
(* What is marked has been read: every last_read that travels, in an event, *)
(* a listing or a task, has been read when it sets out.                     *)

SeenIsPosted == \A t \in Threads : seen[t] <= newest[t] /\ newest[t] <= clock
RowsRead == \A t \in Threads : row[t].lr <= seen[t]
MarksRead == \A t \in Threads : mark[t] <= seen[t]
StreamRead == \A i \in 1 .. Len(stream) : stream[i].lr <= seen[stream[i].t]
ViewsRead == \A k \in Jobs : \A v \in views[k] : v.lr <= seen[v.t]
TasksRead == \A g \in Tasks : upto[g] <= seen[on[g]]
ReadInv == SeenIsPosted /\ RowsRead /\ MarksRead /\ StreamRead /\ ViewsRead /\ TasksRead

SeenGrows == \A t \in Threads : seen[t] <= seen'[t] /\ seen'[t] \in TS

\* More reading makes nothing unread.
LEMMA StillRead ==
    ASSUME TypeOK, ReadInv, SeenGrows
    PROVE  /\ UNCHANGED row => RowsRead'
           /\ UNCHANGED mark => MarksRead'
           /\ UNCHANGED stream => StreamRead'
           /\ UNCHANGED views => ViewsRead'
           /\ UNCHANGED <<on, upto>> => TasksRead'
<1>0. \A n, p, q \in TS : n <= p /\ p <= q => n <= q
    BY BoundsAssumption DEF TS
<1>1. \A t \in Threads : /\ row[t].lr \in TS /\ mark[t] \in TS /\ seen[t] \in TS
                         /\ seen'[t] \in TS /\ seen[t] <= seen'[t]
    BY RowTyped DEF SeenGrows
<1>2. UNCHANGED row => RowsRead'
    BY <1>0, <1>1 DEF ReadInv, RowsRead
<1>3. UNCHANGED mark => MarksRead'
    BY <1>0, <1>1 DEF ReadInv, MarksRead
<1>4. ASSUME UNCHANGED stream, NEW i \in 1 .. Len(stream)
      PROVE  stream[i].lr <= seen'[stream[i].t]
  <2>1. stream[i] \in Event
      BY ElementOfSeq DEF TypeOK
  <2>2. stream[i].t \in Threads /\ stream[i].lr \in TS
      BY <2>1 DEF Event
  <2> QED
      BY <1>0, <1>1, <2>2 DEF ReadInv, StreamRead
<1>5. ASSUME UNCHANGED views, NEW k \in Jobs, NEW v \in views[k]
      PROVE  v.lr <= seen'[v.t]
  <2>1. v \in View
      BY DEF TypeOK
  <2>2. v.t \in Threads /\ v.lr \in TS
      BY <2>1 DEF View
  <2> QED
      BY <1>0, <1>1, <2>2 DEF ReadInv, ViewsRead
<1>6. ASSUME UNCHANGED <<on, upto>>, NEW g \in Tasks
      PROVE  upto[g] <= seen'[on[g]]
  <2>1. on[g] \in Threads /\ upto[g] \in TS
      BY DEF TypeOK
  <2> QED
      BY <1>0, <1>1, <2>1 DEF ReadInv, TasksRead
<1> QED
    BY <1>2, <1>3, <1>4, <1>5, <1>6 DEF StreamRead, ViewsRead, TasksRead

LEMMA SendRead ==
    ASSUME TypeOK, ReadInv, SeenGrows, NEW t \in Threads, NEW lr \in TS,
           lr <= seen'[t], NEW active \in BOOLEAN, NEW kind \in {"marked", "changed"},
           Send(t, kind, active, lr)
    PROVE  StreamRead'
<1> DEFINE e == [t |-> t, lr |-> lr, active |-> active, kind |-> kind]
<1>1. stream \in Seq(Event) /\ e \in Event /\ stream' = Append(stream, e)
    BY DEF Send, TypeOK, Event
<1>2. e.lr <= seen'[e.t]
    OBVIOUS
<1>3. \A i \in 1 .. Len(stream) : stream[i].lr <= seen'[stream[i].t]
  <2>0. \A n, p, q \in TS : n <= p /\ p <= q => n <= q
      BY BoundsAssumption DEF TS
  <2>1. ASSUME NEW i \in 1 .. Len(stream) PROVE stream[i].lr <= seen'[stream[i].t]
    <3>1. stream[i] \in Event
        BY ElementOfSeq DEF TypeOK
    <3>2. stream[i].t \in Threads /\ stream[i].lr \in TS
        BY <3>1 DEF Event
    <3> QED
        BY <2>0, <3>2, RowTyped DEF ReadInv, StreamRead, SeenGrows
  <2> QED
      BY <2>1
<1> HIDE DEF e
<1>4. \A i \in 1 .. Len(stream') :
         stream'[i] = e \/ (i \in 1 .. Len(stream) /\ stream'[i] = stream[i])
    BY <1>1, AppendProperties, LenProperties
<1> QED
    BY <1>2, <1>3, <1>4 DEF StreamRead

\* A write of something read leaves the table with what has been read.
LEMMA WriteRead ==
    ASSUME TypeOK, ReadInv, SeenGrows,
           NEW t \in Threads, NEW ts \in TS, ts <= seen[t], NEW at \in {"off", "active"},
           Upsert(t, ts, at) \/ Advance(t, ts) \/ DeleteRow(t)
    PROVE  RowsRead'
<1>0. \A n, p, q \in TS : n <= p /\ p <= q => n <= q
    BY BoundsAssumption DEF TS
<1>1. \A u \in Threads : /\ row[u].lr \in TS /\ seen[u] \in TS /\ seen'[u] \in TS
                         /\ seen[u] <= seen'[u] /\ row[u].lr <= seen[u]
    BY RowTyped DEF SeenGrows, ReadInv, RowsRead
<1>2. LaterOf(ts, row[t].lr) \in TS /\ LaterOf(ts, row[t].lr) <= seen[t]
    BY <1>1, LaterTyped DEF LaterOf
<1>3. \A u \in Threads : row'[u].lr \in {0, row[u].lr}
                         \/ (u = t /\ row'[u].lr = LaterOf(ts, row[t].lr))
  <2>1. row[t] \in Row /\ row \in [Threads -> Row]
      BY DEF TypeOK
  <2>2. [row[t] EXCEPT !.lr = LaterOf(ts, row[t].lr)].lr = LaterOf(ts, row[t].lr)
      BY <2>1 DEF Row
  <2>3. CASE Upsert(t, ts, at)
      BY <2>1, <2>3 DEF Upsert
  <2>4. CASE DeleteRow(t)
      BY <2>1, <2>4 DEF DeleteRow
  <2>5. CASE Advance(t, ts) /\ row[t].at # "none"
    <3>1. row' = [row EXCEPT ![t] = [row[t] EXCEPT !.lr = LaterOf(ts, row[t].lr)]]
        BY <2>1, <2>5 DEF Advance
    <3> QED
        BY <2>1, <2>2, <3>1
  <2>6. CASE Advance(t, ts) /\ row[t].at = "none"
      BY <2>6 DEF Advance
  <2> QED
      BY <2>3, <2>4, <2>5, <2>6
<1>4. \A u \in Threads : 0 <= seen'[u] /\ 0 \in TS
    BY <1>1, BoundsAssumption DEF TS
<1> QED
    BY <1>0, <1>1, <1>2, <1>3, <1>4 DEF RowsRead

LEMMA SlackRead ==
    ASSUME TypeOK, TypeOK', ReadInv, NEW t \in Threads,
           Reply(t) \/ Follow(t) \/ UnfollowElsewhere(t) \/ ReadElsewhere(t)
    PROVE  ReadInv'
<1>0. \A u \in Threads : /\ newest[u] \in 0 .. MaxTS /\ seen[u] \in 0 .. MaxTS
                         /\ mark[u] \in 0 .. MaxTS /\ seen[u] <= newest[u]
                         /\ newest[u] <= clock /\ mark[u] <= seen[u]
    BY RowTyped DEF TS, ReadInv, SeenIsPosted, MarksRead
<1>1. MaxTS \in Nat /\ clock \in 0 .. MaxTS
    BY BoundsAssumption DEF TypeOK, TS
<1>2. CASE Reply(t)
  <2>1. clock' = clock + 1 /\ newest' = [newest EXCEPT ![t] = clock + 1]
      BY <1>2 DEF Reply
  <2>2. newest \in [Threads -> TS]
      BY DEF TypeOK
  <2>3. UNCHANGED <<seen, mark, row, stream, views, on, upto>>
      BY <1>2 DEF Reply, listing, tasks
  <2>4. SeenIsPosted'
      BY <1>0, <1>1, <2>1, <2>2, <2>3 DEF SeenIsPosted
  <2>5. SeenGrows
      BY <1>0, <2>3 DEF SeenGrows, TS
  <2> QED
      BY <2>3, <2>4, <2>5, StillRead DEF ReadInv
<1>3. CASE Follow(t) \/ ReadElsewhere(t)
  <2>1. /\ UNCHANGED <<clock, newest, row, views, on, upto>>
        /\ seen' = [seen EXCEPT ![t] = newest[t]]
        /\ mark' = [mark EXCEPT ![t] = newest[t]]
      BY <1>3 DEF Follow, ReadElsewhere, listing, tasks
  <2>2. seen \in [Threads -> TS] /\ mark \in [Threads -> TS] /\ newest[t] \in TS
      BY RowTyped DEF TypeOK
  <2>3. SeenGrows
      BY <1>0, <1>1, <2>1, <2>2 DEF SeenGrows, TS
  <2>4. SeenIsPosted'
      BY <1>0, <1>1, <2>1, <2>2 DEF SeenIsPosted
  <2>5. MarksRead'
      BY <1>0, <1>1, <2>1, <2>2 DEF MarksRead
  <2>6. StreamRead'
    <3>1. mark'[t] = newest[t] /\ newest[t] <= seen'[t]
        BY <1>0, <2>1, <2>2
    <3> QED
        BY <1>3, <2>2, <2>3, <3>1, SendRead DEF Follow, Subscribe, ReadElsewhere
  <2> QED
      BY <2>1, <2>3, <2>4, <2>5, <2>6, StillRead DEF ReadInv
<1>4. CASE UnfollowElsewhere(t)
  <2>1. UNCHANGED <<clock, newest, seen, mark, row, views, on, upto>>
      BY <1>4 DEF UnfollowElsewhere, listing, tasks
  <2>2. SeenGrows
      BY <1>0, <2>1 DEF SeenGrows, TS
  <2>3. SeenIsPosted'
      BY <2>1 DEF ReadInv, SeenIsPosted
  <2>4. StreamRead'
    <3>1. mark[t] \in TS /\ mark[t] <= seen'[t]
        BY <1>0, <2>1 DEF TS
    <3> QED
        BY <1>4, <2>2, <3>1, SendRead, StillRead DEF UnfollowElsewhere, Unsubscribe
  <2> QED
      BY <2>1, <2>2, <2>3, <2>4, StillRead DEF ReadInv
<1> QED
    BY <1>2, <1>3, <1>4

LEMMA SocketRead ==
    ASSUME TypeOK, ReadInv, Drop \/ ReadLoop
    PROVE  ReadInv'
<1>1. UNCHANGED <<clock, newest, mark, seen, views, on, upto>>
    BY DEF Drop, ReadLoop, OnThreadMarked, OnThreadSubscriptionChanged, slack,
           listing, tasks
<1>2. SeenGrows
    BY <1>1, RowTyped, BoundsAssumption DEF SeenGrows, TS
<1>3. SeenIsPosted'
    BY <1>1 DEF ReadInv, SeenIsPosted
<1>4. CASE Drop
  <2>1. UNCHANGED row /\ Len(stream') = 0
      BY <1>4 DEF Drop
  <2>2. StreamRead'
      BY <2>1 DEF StreamRead
  <2> QED
      BY <1>1, <1>2, <1>3, <2>1, <2>2, StillRead DEF ReadInv
<1>5. CASE ReadLoop
  <2>1. stream \in Seq(Event) /\ stream # <<>> /\ stream' = Tail(stream)
      BY <1>5 DEF TypeOK, ReadLoop, OnThreadMarked, OnThreadSubscriptionChanged
  <2>2. StreamRead'
    <3>1. \A i \in 1 .. Len(stream') : stream'[i] = stream[i + 1] /\ i + 1 \in 1 .. Len(stream)
        BY <2>1, HeadTailProperties, LenProperties
    <3> QED
        BY <1>1, <3>1 DEF ReadInv, StreamRead
  <2>3. Head(stream) \in Event /\ Head(stream).lr <= seen[Head(stream).t]
    <3>1. Head(stream) = stream[1] /\ 1 \in 1 .. Len(stream)
        BY <2>1, LenProperties, EmptySeq
    <3> QED
        BY <2>1, <3>1, HeadTyped DEF ReadInv, StreamRead
  <2>4. RowsRead'
      BY <1>2, <1>5, <2>3, WriteRead
      DEF ReadLoop, OnThreadMarked, OnThreadSubscriptionChanged, ActiveIf, Event
  <2> QED
      BY <1>1, <1>2, <1>3, <2>2, <2>4, StillRead DEF ReadInv
<1> QED
    BY <1>4, <1>5

LEMMA BackfillRead ==
    ASSUME TypeOK, ReadInv, NEW k \in Jobs, Backfill(k)
    PROVE  ReadInv'
<1>1. UNCHANGED <<clock, newest, mark, seen, stream, on, upto>>
    BY DEF Backfill, StartListing, ListPage, ListingTimesOut, ListingFails,
           UpsertPartial, ReconcileThreadSubscriptions, slack, tasks
<1>2. SeenGrows
    BY <1>1, RowTyped, BoundsAssumption DEF SeenGrows, TS
<1>3. SeenIsPosted'
    BY <1>1 DEF ReadInv, SeenIsPosted
<1>4. \A v \in views[k] : v.t \in Threads /\ v.lr \in TS /\ v.lr <= seen[v.t]
  <2>1. \A v \in views[k] : v \in View
      BY DEF TypeOK
  <2> QED
      BY <2>1 DEF View, ReadInv, ViewsRead
<1>5. ViewsRead'
  <2>1. views \in [Jobs -> SUBSET View]
      BY DEF TypeOK
  <2>2. CASE ListPage(k)
    <3> DEFINE page == {[t |-> t, lr |-> mark[t]] : t \in PageOf(k)}
    <3>1. views' = [views EXCEPT ![k] = views[k] \cup page]
        BY <2>1, <2>2 DEF ListPage
    <3>2. \A v \in page : v.lr <= seen[v.t]
      <4>1. \A t \in PageOf(k) : mark[t] <= seen[t]
          BY DEF PageOf, Remaining, TypeOK, ReadInv, MarksRead
      <4> QED
          BY <4>1
    <3> HIDE DEF page
    <3>3. views'[k] = views[k] \cup page /\ \A j \in Jobs \ {k} : views'[j] = views[j]
        BY <2>1, <3>1
    <3>4. \A j \in Jobs : \A v \in views'[j] : v.lr <= seen[v.t]
        BY <3>2, <3>3 DEF ReadInv, ViewsRead
    <3> QED
        BY <1>1, <3>4 DEF ViewsRead
  <2>3. CASE \A j \in Jobs : views'[j] \subseteq views[j]
      BY <1>1, <2>3 DEF ReadInv, ViewsRead
  <2>4. CASE ~ ListPage(k)
    <3>1. \/ UNCHANGED views
          \/ views' = [views EXCEPT ![k] = {}]
          \/ \E v \in views[k] : views' = [views EXCEPT ![k] = @ \ {v}]
        BY <2>4 DEF Backfill, StartListing, ListingTimesOut, ListingFails,
                    UpsertPartial, ReconcileThreadSubscriptions
    <3> QED
        BY <2>1, <2>3, <3>1
  <2> QED
      BY <2>2, <2>4
<1>6. RowsRead'
  <2>1. CASE UpsertPartial(k)
      BY <1>2, <1>4, <2>1, WriteRead DEF UpsertPartial
  <2>2. CASE ReconcileThreadSubscriptions(k)
    <3>1. ASSUME NEW t \in Threads
          PROVE  Reconciled(views[k])[t].lr <= seen[t]
      <4>1. seen[t] \in TS /\ row[t].lr <= seen[t]
          BY RowTyped DEF ReadInv, RowsRead
      <4>2. \A v \in views[k] : v.t = t => v.lr <= seen[t]
          BY <1>4
      <4>3. views[k] \in SUBSET View
          BY DEF TypeOK
      <4> QED
          BY <4>1, <4>2, <4>3, ReconciledFact
    <3> QED
        BY <1>1, <2>2, <3>1 DEF ReconcileThreadSubscriptions, RowsRead
  <2>3. CASE UNCHANGED row
      BY <1>2, <2>3, StillRead
  <2> QED
      BY <2>1, <2>2, <2>3
      DEF Backfill, StartListing, ListPage, ListingTimesOut, ListingFails
<1> QED
    BY <1>1, <1>2, <1>3, <1>5, <1>6, StillRead DEF ReadInv

LEMMA OpeningRead ==
    ASSUME TypeOK, TypeOK', ReadInv, NEW g \in Tasks, Opening(g)
    PROVE  ReadInv'
<1>0. /\ on[g] \in Threads /\ upto[g] \in TS /\ newest[on[g]] \in TS
      /\ seen[on[g]] \in TS /\ seen[on[g]] <= newest[on[g]] /\ upto[g] <= seen[on[g]]
  <2>1. on[g] \in Threads /\ upto[g] \in TS
      BY DEF TypeOK
  <2> QED
      BY <2>1, RowTyped DEF ReadInv, SeenIsPosted, TasksRead
<1>1. UNCHANGED <<clock, newest, views, on>>
    BY DEF Opening, OpenThread, MarkThreadRead, GetReplies, AdvanceLastRead,
           CheckActive, MarkThread, slack, listing
<1>2. CASE UNCHANGED <<seen, upto>>
  <2>1. SeenGrows
      BY <1>2, RowTyped, BoundsAssumption DEF SeenGrows, TS
  <2>2. SeenIsPosted'
      BY <1>1, <1>2 DEF ReadInv, SeenIsPosted
  <2>3. RowsRead'
    <3>1. CASE AdvanceLastRead(g)
        BY <1>0, <2>1, <3>1, WriteRead DEF AdvanceLastRead, ReadUpTo
    <3>2. CASE UNCHANGED row
        BY <2>1, <3>2, StillRead
    <3> QED
        BY <3>1, <3>2
        DEF Opening, OpenThread, MarkThreadRead, GetReplies, CheckActive, MarkThread
  <2>4. MarksRead' /\ StreamRead'
    <3>1. CASE UNCHANGED <<mark, stream>>
        BY <2>1, <3>1, StillRead
    <3>2. CASE mark' = [mark EXCEPT ![on[g]] = upto[g]]
               /\ \E active \in BOOLEAN : Send(on[g], "marked", active, upto[g])
      <4>1. upto[g] <= seen'[on[g]]
          BY <1>0, <1>2
      <4>2. StreamRead'
          BY <1>0, <2>1, <3>2, <4>1, SendRead
      <4>3. mark \in [Threads -> TS]
          BY DEF TypeOK
      <4> QED
          BY <1>0, <1>2, <3>2, <4>2, <4>3 DEF ReadInv, MarksRead
    <3> QED
        BY <3>1, <3>2
        DEF Opening, OpenThread, MarkThreadRead, GetReplies, AdvanceLastRead,
            CheckActive, MarkThread, slack
  <2> QED
      BY <1>1, <1>2, <2>1, <2>2, <2>3, <2>4, StillRead DEF ReadInv
<1>3. ASSUME NEW ts \in TS, ts <= newest[on[g]],
             upto' = [upto EXCEPT ![g] = ts],
             \/ seen' = [seen EXCEPT ![on[g]] = LaterOf(ts, @)]
             \/ seen' = [seen EXCEPT ![on[g]] = ts] /\ ts = newest[on[g]],
             UNCHANGED <<row, mark, stream>>
      PROVE  ReadInv'
  <2>1. seen \in [Threads -> TS] /\ upto \in [Tasks -> TS] /\ seen' \in [Threads -> TS]
      BY DEF TypeOK
  <2>2. LaterOf(ts, seen[on[g]]) \in {ts, seen[on[g]]}
      BY DEF LaterOf
  <2>3. seen[on[g]] <= seen'[on[g]] /\ ts <= seen'[on[g]] /\ seen'[on[g]] <= newest[on[g]]
    <3>1. LaterOf(ts, seen[on[g]]) >= ts /\ LaterOf(ts, seen[on[g]]) >= seen[on[g]]
        BY <1>0, LaterTyped
    <3>2. seen'[on[g]] = LaterOf(ts, seen[on[g]]) \/ (seen'[on[g]] = ts /\ ts = newest[on[g]])
        BY <1>0, <1>3, <2>1
    <3> QED
        BY <1>0, <1>3, <2>2, <3>1, <3>2, BoundsAssumption DEF TS
  <2>4. \A t \in Threads \ {on[g]} : seen'[t] = seen[t]
      BY <1>3, <2>1
  <2>5. SeenGrows
    <3>1. \A t \in Threads : seen[t] <= seen[t]
        BY RowTyped, BoundsAssumption DEF TS
    <3> QED
        BY <2>1, <2>3, <2>4, <3>1 DEF SeenGrows
  <2>6. SeenIsPosted'
      BY <1>1, <2>3, <2>4 DEF ReadInv, SeenIsPosted
  <2>7. TasksRead'
    <3>1. ASSUME NEW h \in Tasks PROVE upto'[h] <= seen'[on[h]]
      <4>1. CASE h = g
          BY <1>3, <2>1, <2>3, <4>1
      <4>2. CASE h # g
        <5>1. upto'[h] = upto[h] /\ upto[h] <= seen[on[h]]
            BY <1>3, <2>1, <4>2 DEF ReadInv, TasksRead
        <5>2. on[h] \in Threads /\ upto[h] \in TS /\ seen[on[h]] \in TS /\ seen'[on[h]] \in TS
              /\ seen[on[h]] <= seen'[on[h]]
          <6>1. on[h] \in Threads /\ upto[h] \in TS
              BY DEF TypeOK
          <6> QED
              BY <2>5, <6>1, RowTyped DEF SeenGrows
        <5> QED
            BY <5>1, <5>2, BoundsAssumption DEF TS
      <4> QED
          BY <4>1, <4>2
    <3> QED
        BY <1>1, <3>1 DEF TasksRead
  <2> QED
      BY <1>1, <1>3, <2>5, <2>6, <2>7, StillRead DEF ReadInv
<1>4. CASE MarkThreadRead(g)
  <2>1. \A ts \in 1 .. newest[on[g]] : ts \in TS /\ ts <= newest[on[g]]
      BY <1>0, BoundsAssumption DEF TS
  <2> QED
      BY <1>3, <1>4, <2>1 DEF MarkThreadRead, slack
<1>5. CASE GetReplies(g)
  <2>1. newest[on[g]] <= newest[on[g]]
      BY <1>0, BoundsAssumption DEF TS
  <2> QED
      BY <1>0, <1>2, <1>3, <1>5, <2>1 DEF GetReplies, slack
<1> QED
    BY <1>2, <1>4, <1>5
    DEF Opening, OpenThread, AdvanceLastRead, CheckActive, MarkThread

LEMMA OtherTasksRead ==
    ASSUME TypeOK, ReadInv, NEW g \in Tasks, Unfollowing(g) \/ Reacting(g)
    PROVE  ReadInv'
<1>1. UNCHANGED <<clock, newest, mark, seen, views, on, upto>>
    BY DEF Unfollowing, Reacting, UnsubThread, CallUnsubscribe,
           DeleteThreadSubscription, React, AddReaction, UndoFollow, ForgetFollow,
           slack, listing
<1>2. SeenGrows
    BY <1>1, RowTyped, BoundsAssumption DEF SeenGrows, TS
<1>3. SeenIsPosted'
    BY <1>1 DEF ReadInv, SeenIsPosted
<1>4. /\ on[g] \in Threads /\ mark[on[g]] \in TS /\ mark[on[g]] <= seen'[on[g]]
      /\ 0 \in TS /\ 0 <= seen[on[g]]
  <2>1. on[g] \in Threads
      BY DEF TypeOK
  <2>2. seen[on[g]] \in 0 .. MaxTS /\ MaxTS \in Nat
      BY <2>1, RowTyped, BoundsAssumption DEF TS
  <2>3. 0 \in TS /\ 0 <= seen[on[g]]
      BY <2>2 DEF TS
  <2> QED
      BY <1>1, <2>1, <2>3, RowTyped DEF ReadInv, MarksRead
<1>5. StreamRead'
  <2>1. CASE UNCHANGED stream
      BY <1>2, <2>1, StillRead
  <2>2. ASSUME NEW active \in BOOLEAN, Send(on[g], "changed", active, mark[on[g]])
        PROVE  StreamRead'
      BY <1>2, <1>4, <2>2, SendRead
  <2> QED
      BY <2>1, <2>2
      DEF Unfollowing, Reacting, UnsubThread, CallUnsubscribe,
          DeleteThreadSubscription, React, AddReaction, UndoFollow, ForgetFollow,
          Unsubscribe
<1>6. RowsRead'
  <2>1. CASE UNCHANGED row
      BY <1>2, <2>1, StillRead
  <2>2. CASE DeleteRow(on[g]) \/ Upsert(on[g], 0, "off")
      BY <1>2, <1>4, <2>2, WriteRead
  <2> QED
      BY <2>1, <2>2
      DEF Unfollowing, Reacting, UnsubThread, CallUnsubscribe,
          DeleteThreadSubscription, React, AddReaction, UndoFollow, ForgetFollow
<1> QED
    BY <1>1, <1>2, <1>3, <1>5, <1>6, StillRead DEF ReadInv

LEMMA ReadStep == TypeOK /\ TypeOK' /\ ReadInv /\ [Next]_vars => ReadInv'
<1> SUFFICES ASSUME TypeOK, TypeOK', ReadInv, [Next]_vars PROVE ReadInv'
    OBVIOUS
<1>1. CASE Next
    BY <1>1, SlackRead, SocketRead, BackfillRead, OpeningRead, OtherTasksRead DEF Next
<1>2. CASE UNCHANGED vars
    BY <1>2 DEF vars, slack, listing, tasks, ReadInv, SeenIsPosted, RowsRead,
                MarksRead, StreamRead, ViewsRead, TasksRead
<1> QED
    BY <1>1, <1>2

\* Every last_read on its way to the table or to Slack has been read.
LEMMA ReadInvHolds == Spec => []ReadInv
<1>1. Init => ReadInv
  <2> SUFFICES ASSUME Init PROVE ReadInv
      OBVIOUS
  <2>1. clock \in Nat
      BY ThreadsAssumption, FS_CardinalityType DEF Init
  <2>2. \A t \in Threads : newest[t] \in 1 .. clock /\ seen[t] = 0
                           /\ mark[t] = 0 /\ row[t].lr = 0
      BY DEF Init
  <2>3. SeenIsPosted
      BY <2>1, <2>2 DEF SeenIsPosted
  <2>4. RowsRead /\ MarksRead
      BY <2>2 DEF RowsRead, MarksRead
  <2>5. StreamRead /\ ViewsRead
      BY DEF Init, StreamRead, ViewsRead
  <2>6. TasksRead
      BY <2>2 DEF Init, TasksRead
  <2> QED
      BY <2>3, <2>4, <2>5, <2>6 DEF ReadInv
<1> QED
    BY <1>1, ReadStep, TypeCorrect, PTL DEF Spec

\* A reply nobody has read is never marked as read, in the table or at Slack,
\* however late a listing, an event or a command's fetch is applied.
THEOREM UnseenIsNeverMarked == Spec => []NeverMarksUnseen
<1>1. ReadInv => NeverMarksUnseen
    BY DEF ReadInv, RowsRead, MarksRead, NeverMarksUnseen
<1> QED
    BY <1>1, ReadInvHolds, PTL

-----------------------------------------------------------------------------
(* What a reconcile keeps: where a listing has got to, every thread that was *)
(* followed and quiet since it began is in it.                             *)

Listed(k, t) == \E v \in views[k] : v.t = t

\* Quiet threads are followed; while a listing is on, those above its cursor are in it,
\* and what is in it is above; each thread is in it once.
SteadyFollowed == \A k \in Jobs : steady[k] \subseteq sub
ListedAbove ==
    \A k \in Jobs : job[k] = "listing" =>
        /\ \A t \in steady[k] : newest[t] >= cursor[k] => Listed(k, t)
        /\ \A v \in views[k] : newest[v.t] >= cursor[k]
        /\ \A v, w \in views[k] : v.t = w.t => v = w
FullHasAll ==
    \A k \in Jobs : job[k] = "full" /\ Cardinality(Threads) <= HardCap =>
        \A t \in steady[k] : Listed(k, t)
SteadyInv == SteadyFollowed /\ ListedAbove /\ FullHasAll

\* Whoever leaves listings and replies alone keeps it, if only quiet threads stay listed
\* as quiet and all of these stay followed.
LEMMA SteadyStays ==
    ASSUME SteadyInv, UNCHANGED <<newest, listing>>,
           \A k \in Jobs : steady'[k] \subseteq steady[k],
           \A k \in Jobs : steady'[k] \subseteq sub'
    PROVE  SteadyInv'
BY DEF SteadyInv, SteadyFollowed, ListedAbove, FullHasAll, Listed, listing

\* A thread that is unfollowed is not quiet.
LEMMA UnsubscribeSteady ==
    ASSUME TypeOK, SteadyInv, NEW t \in Threads, Unsubscribe(t)
    PROVE  /\ \A k \in Jobs : steady'[k] \subseteq steady[k]
           /\ \A k \in Jobs : steady'[k] \subseteq sub'
BY DEF Unsubscribe, Unsteady, SteadyInv, SteadyFollowed

LEMMA ViewsTyped ==
    ASSUME TypeOK, NEW k \in Jobs
    PROVE  \A v \in views[k] : v \in View
BY DEF TypeOK

LEMMA ReplySteady ==
    ASSUME TypeOK, ReadInv, SteadyInv, NEW t \in Threads, Reply(t)
    PROVE  SteadyInv'
<1>1. /\ \A k \in Jobs : steady'[k] = steady[k] \ {t}
      /\ newest' = [newest EXCEPT ![t] = clock + 1]
      /\ UNCHANGED <<sub, job, cursor, views>>
    BY DEF Reply, Unsteady, listing
<1>2. \A u \in Threads : newest'[u] >= newest[u] /\ (u # t => newest'[u] = newest[u])
  <2>1. \A u \in Threads : newest[u] \in TS /\ newest[u] <= clock
      BY RowTyped DEF ReadInv, SeenIsPosted
  <2>2. clock \in TS
      BY DEF TypeOK
  <2>3. \A u \in Threads : newest'[u] = IF u = t THEN clock + 1 ELSE newest[u]
      BY <1>1 DEF TypeOK
  <2> QED
      BY <2>1, <2>2, <2>3, BoundsAssumption DEF TS
<1>3. \A k \in Jobs : \A v \in views[k] : v.t \in Threads
    BY ViewsTyped DEF View
<1>4. SteadyFollowed'
    BY <1>1 DEF SteadyInv, SteadyFollowed
<1>5. ListedAbove'
  <2> SUFFICES ASSUME NEW k \in Jobs, job[k] = "listing"
               PROVE  /\ \A u \in steady'[k] : newest'[u] >= cursor[k] => Listed(k, u)
                      /\ \A v \in views[k] : newest'[v.t] >= cursor[k]
                      /\ \A v, w \in views[k] : v.t = w.t => v = w
      BY <1>1 DEF ListedAbove, Listed
  <2>1. \A u \in steady'[k] : u \in steady[k] /\ u \in Threads /\ newest'[u] = newest[u]
    <3>1. steady[k] \subseteq Threads
        BY DEF TypeOK
    <3>2. steady'[k] = steady[k] \ {t}
        BY <1>1
    <3> QED
        BY <1>2, <3>1, <3>2
  <2>2. ASSUME NEW v \in views[k] PROVE newest'[v.t] >= cursor[k]
    <3>1. newest[v.t] >= cursor[k] /\ newest'[v.t] >= newest[v.t]
        BY <1>2, <1>3 DEF SteadyInv, ListedAbove
    <3>2. newest[v.t] \in Nat /\ newest'[v.t] \in Nat /\ cursor[k] \in Nat
      <4>1. newest[v.t] \in TS /\ cursor[k] \in 0 .. MaxTS + 1 /\ clock \in TS
          BY <1>3, RowTyped DEF TypeOK
      <4>2. newest'[v.t] \in {newest[v.t], clock + 1}
          BY <1>1, <1>3 DEF TypeOK
      <4> QED
          BY <4>1, <4>2, BoundsAssumption DEF TS
    <3> QED
        BY <3>1, <3>2
  <2> QED
      BY <2>1, <2>2 DEF SteadyInv, ListedAbove
<1>6. FullHasAll'
    BY <1>1 DEF SteadyInv, FullHasAll, Listed
<1> QED
    BY <1>4, <1>5, <1>6 DEF SteadyInv

\* Views of different threads are at most as many as the threads, and if as many, of
\* every one.
LEMMA ViewsOfThreads ==
    ASSUME NEW S \in SUBSET View, \A v, w \in S : v.t = w.t => v = w
    PROVE  /\ IsFiniteSet(S) /\ Cardinality(S) \in Nat
           /\ Cardinality(Threads) <= Cardinality(S) =>
                \A t \in Threads : \E v \in S : v.t = t
<1> DEFINE threadOf == [v \in S |-> v.t]
<1>1. threadOf \in Injection(S, Threads)
    BY DEF Injection, View, IsInjective
<1>2. /\ IsFiniteSet(S) /\ Cardinality(S) <= Cardinality(Threads)
      /\ Cardinality(S) = Cardinality(Threads) <=> threadOf \in Surjection(S, Threads)
    BY <1>1, FS_Injection, ThreadsAssumption
<1>3. Cardinality(S) \in Nat /\ Cardinality(Threads) \in Nat
    BY <1>2, ThreadsAssumption, FS_CardinalityType
<1>4. threadOf \in Surjection(S, Threads) => \A t \in Threads : \E v \in S : v.t = t
    BY DEF Surjection
<1> QED
    BY <1>2, <1>3, <1>4

\* A page is the latest of what remains: with a thread it has every one as late.
LEMMA PageIsLatest ==
    ASSUME TypeOK, NEW k \in Jobs, NEW t \in PageOf(k), NEW u \in Remaining(k),
           newest[u] >= newest[t], Cardinality(views[k]) \in Nat
    PROVE  u \in PageOf(k)
<1> DEFINE room == HardCap - Cardinality(views[k])
           size == IF room < PageSize THEN room ELSE PageSize
           above(x) == {w \in Remaining(k) : newest[w] > newest[x]}
<1>1. PageOf(k) = {x \in Remaining(k) : Cardinality(above(x)) < size}
    BY DEF PageOf
<1>2. Remaining(k) \subseteq Threads
    BY DEF Remaining, TypeOK
<1>3. \A w \in Threads : newest[w] \in Nat
    BY RowTyped, BoundsAssumption DEF TS
<1>4. above(u) \subseteq above(t)
    BY <1>1, <1>2, <1>3
<1>5. IsFiniteSet(above(t))
    BY <1>2, ThreadsAssumption, FS_Subset, above(t) \in SUBSET Threads
<1>6. /\ Cardinality(above(u)) \in Nat /\ Cardinality(above(t)) \in Nat
      /\ Cardinality(above(u)) <= Cardinality(above(t))
    BY <1>4, <1>5, FS_Subset, FS_CardinalityType
<1>7. Cardinality(above(t)) < size
    BY <1>1
<1>8. size \in Int
    BY BoundsAssumption
<1> QED
    BY <1>1, <1>6, <1>7, <1>8

\* A listing goes on, or ends: its cursor is the earliest thread of the page, so what was
\* quiet and above it has been listed.
LEMMA PageSteady ==
    ASSUME TypeOK, SteadyInv, NEW k \in Jobs, ListPage(k)
    PROVE  SteadyInv'
<1> DEFINE more == {[t |-> t, lr |-> mark[t]] : t \in PageOf(k)}
<1>1. /\ job[k] = "listing"
      /\ views' = [views EXCEPT ![k] = @ \cup more]
      /\ UNCHANGED <<newest, mark, sub, steady>>
    BY DEF ListPage, slack
<1>2. /\ views'[k] = views[k] \cup more
      /\ \A j \in Jobs : j # k => views'[j] = views[j]
    BY <1>1 DEF TypeOK
<1>3. Remaining(k) \subseteq Threads /\ PageOf(k) \subseteq Remaining(k)
    BY DEF Remaining, PageOf, TypeOK
<1>4. \A v \in more : v.t \in PageOf(k) /\ v = [t |-> v.t, lr |-> mark[v.t]] /\ v \in View
    BY <1>3, RowTyped DEF View
<1>5. ASSUME NEW t \in PageOf(k) PROVE \E v \in more : v.t = t
  <2>1. [t |-> t, lr |-> mark[t]] \in more
      OBVIOUS
  <2> QED
      BY <2>1
<1> HIDE DEF more
<1>6. /\ \A t \in steady[k] : newest[t] >= cursor[k] => Listed(k, t)
      /\ \A v \in views[k] : newest[v.t] >= cursor[k]
      /\ \A v, w \in views[k] : v.t = w.t => v = w
    BY <1>1 DEF SteadyInv, ListedAbove
<1>7. /\ \A t \in Threads : newest[t] \in Nat
      /\ cursor[k] \in Nat
      /\ \A v \in views[k] : v \in View /\ v.t \in Threads
  <2>1. \A t \in Threads : newest[t] \in TS
      BY RowTyped
  <2>2. cursor[k] \in 0 .. MaxTS + 1
      BY DEF TypeOK
  <2> QED
      BY <2>1, <2>2, ViewsTyped, BoundsAssumption DEF TS, View
<1>8. \A t \in Remaining(k) : newest[t] < cursor[k]
    BY DEF Remaining
<1>9. \A v, w \in views'[k] : v.t = w.t => v = w
  <2>1. ASSUME NEW v \in views[k], NEW w \in more PROVE v.t # w.t
    <3>1. newest[v.t] >= cursor[k] /\ newest[w.t] < cursor[k] /\ w.t \in Threads
        BY <1>3, <1>4, <1>6, <1>8
    <3> QED
        BY <3>1, <1>7
  <2> QED
      BY <1>2, <1>4, <1>6, <2>1
<1>10. \A t \in Threads : Listed(k, t) \/ t \in PageOf(k) => Listed(k, t)'
    BY <1>2, <1>5 DEF Listed
<1>11. \A t \in steady[k] : t \in Threads /\ (Listed(k, t) \/ t \in Remaining(k))
  <2> SUFFICES ASSUME NEW t \in steady[k], ~ (newest[t] >= cursor[k])
               PROVE  t \in Threads /\ t \in Remaining(k)
      BY <1>6 DEF TypeOK
  <2>1. t \in Threads /\ t \in sub
      BY DEF TypeOK, SteadyInv, SteadyFollowed
  <2>2. newest[t] < cursor[k]
      BY <1>7, <2>1
  <2> QED
      BY <2>1, <2>2 DEF Remaining
<1>12. SteadyFollowed'
    BY <1>1 DEF SteadyInv, SteadyFollowed
<1>13. CASE PageOf(k) = Remaining(k) \/ Cardinality(views'[k]) >= HardCap
  <2>1. /\ job' = [job EXCEPT ![k] = "full"] /\ UNCHANGED cursor
      BY <1>13 DEF ListPage
  <2>2. \A j \in Jobs : job'[j] = IF j = k THEN "full" ELSE job[j]
      BY <2>1 DEF TypeOK
  <2>3. ListedAbove'
      BY <1>1, <1>2, <2>1, <2>2 DEF SteadyInv, ListedAbove, Listed
  <2>4. ASSUME Cardinality(Threads) <= HardCap, NEW t \in steady[k]
        PROVE  Listed(k, t)'
    <3>1. CASE PageOf(k) = Remaining(k)
        BY <1>10, <1>11, <3>1
    <3>2. CASE Cardinality(views'[k]) >= HardCap
      <4>1. views'[k] \in SUBSET View
          BY <1>2, <1>4, <1>7
      <4>2. /\ Cardinality(views'[k]) \in Nat
            /\ Cardinality(Threads) <= Cardinality(views'[k]) =>
                  \A u \in Threads : \E v \in views'[k] : v.t = u
          BY <1>9, <4>1, ViewsOfThreads
      <4>3. Cardinality(Threads) <= Cardinality(views'[k])
          BY <2>4, <3>2, <4>2, BoundsAssumption, ThreadsAssumption, FS_CardinalityType
      <4> QED
          BY <1>11, <4>2, <4>3 DEF Listed
    <3> QED
        BY <1>13, <3>1, <3>2
  <2>5. FullHasAll'
      BY <1>1, <1>2, <2>2, <2>4 DEF SteadyInv, FullHasAll, Listed
  <2> QED
      BY <1>12, <2>3, <2>5 DEF SteadyInv
<1>14. CASE ~ (PageOf(k) = Remaining(k) \/ Cardinality(views'[k]) >= HardCap)
  <2>1. PICK t \in PageOf(k) :
            /\ \A u \in PageOf(k) : newest[t] <= newest[u]
            /\ cursor' = [cursor EXCEPT ![k] = newest[t]]
      BY <1>14 DEF ListPage
  <2>2. UNCHANGED job
      BY <1>14 DEF ListPage
  <2>3. \A j \in Jobs : cursor'[j] = IF j = k THEN newest[t] ELSE cursor[j]
      BY <2>1 DEF TypeOK
  <2>4. \A u \in steady[k] : newest[u] >= newest[t] => Listed(k, u)'
    <3>1. Cardinality(views[k]) \in Nat
        BY <1>6, <1>7, ViewsOfThreads
    <3> QED
        BY <1>10, <1>11, <3>1, PageIsLatest
  <2>5. \A v \in views'[k] : newest[v.t] >= newest[t]
    <3>1. newest[t] < cursor[k] /\ t \in Threads
        BY <1>3, <1>8
    <3>2. \A v \in views[k] : newest[v.t] >= newest[t]
        BY <1>6, <1>7, <3>1
    <3>3. \A v \in more : newest[v.t] >= newest[t]
        BY <1>3, <1>4, <1>7, <2>1, <3>1
    <3> QED
        BY <1>2, <3>2, <3>3
  <2>6. ASSUME NEW j \in Jobs, job[j] = "listing"
        PROVE  /\ \A u \in steady[j] : newest[u] >= cursor'[j] => Listed(j, u)'
               /\ \A v \in views'[j] : newest[v.t] >= cursor'[j]
               /\ \A v, w \in views'[j] : v.t = w.t => v = w
    <3>1. CASE j = k
        BY <1>9, <2>3, <2>4, <2>5, <3>1
    <3>2. CASE j # k
        BY <1>2, <2>3, <2>6, <3>2 DEF SteadyInv, ListedAbove, Listed
    <3> QED
        BY <3>1, <3>2
  <2>7. ListedAbove'
      BY <1>1, <2>2, <2>6 DEF ListedAbove
  <2>8. FullHasAll'
      BY <1>1, <1>2, <2>2 DEF SteadyInv, FullHasAll, Listed
  <2> QED
      BY <1>12, <2>7, <2>8 DEF SteadyInv
<1> QED
    BY <1>13, <1>14

\* A listing that is neither on nor whole owes nothing.
LEMMA EndedSteady ==
    ASSUME TypeOK, SteadyInv, NEW k \in Jobs, UNCHANGED <<newest, sub, steady, cursor>>,
           \A j \in Jobs : j # k => job'[j] = job[j] /\ views'[j] = views[j],
           job'[k] \notin {"listing", "full"}
    PROVE  SteadyInv'
BY DEF SteadyInv, SteadyFollowed, ListedAbove, FullHasAll, Listed

LEMMA BackfillSteady ==
    ASSUME TypeOK, SteadyInv, NEW k \in Jobs, Backfill(k)
    PROVE  SteadyInv'
<1>1. CASE StartListing(k)
  <2>1. /\ \A j \in Jobs : j # k => /\ job'[j] = job[j] /\ cursor'[j] = cursor[j]
                                    /\ views'[j] = views[j] /\ steady'[j] = steady[j]
        /\ job'[k] = "listing" /\ cursor'[k] = MaxTS + 1 /\ views'[k] = {} /\ steady'[k] = sub
        /\ UNCHANGED <<newest, sub>>
      BY <1>1 DEF StartListing, TypeOK, slack
  <2>2. \A t \in Threads : ~ (newest[t] >= MaxTS + 1)
      BY RowTyped, BoundsAssumption DEF TS
  <2>3. sub \subseteq Threads
      BY DEF TypeOK
  <2>4. SteadyFollowed'
    <3>1. \A j \in Jobs : steady'[j] \subseteq sub'
        BY <2>1 DEF SteadyInv, SteadyFollowed
    <3> QED
        BY <3>1 DEF SteadyFollowed
  <2>5. ASSUME NEW j \in Jobs, job'[j] = "listing"
        PROVE  /\ \A t \in steady'[j] : newest'[t] >= cursor'[j] => Listed(j, t)'
               /\ \A v \in views'[j] : newest'[v.t] >= cursor'[j]
               /\ \A v, w \in views'[j] : v.t = w.t => v = w
    <3>1. CASE j = k
        BY <2>1, <2>2, <2>3, <3>1
    <3>2. CASE j # k
        BY <2>1, <2>5, <3>2 DEF SteadyInv, ListedAbove, Listed
    <3> QED
        BY <3>1, <3>2
  <2>6. ListedAbove'
      BY <2>5 DEF ListedAbove
  <2>7. FullHasAll'
      BY <2>1 DEF SteadyInv, FullHasAll, Listed
  <2> QED
      BY <2>4, <2>6, <2>7 DEF SteadyInv
<1>2. CASE ListPage(k)
    BY <1>2, PageSteady
<1>3. CASE ListingTimesOut(k) \/ ListingFails(k)
  <2>1. /\ UNCHANGED <<newest, sub, steady, cursor, views>>
        /\ job' = [job EXCEPT ![k] = "idle"] \/ job' = [job EXCEPT ![k] = "partial"]
      BY <1>3 DEF ListingTimesOut, ListingFails, AfterTimeout, slack
  <2>2. /\ \A j \in Jobs : j # k => job'[j] = job[j]
        /\ job'[k] \notin {"listing", "full"}
      BY <2>1 DEF TypeOK
  <2> QED
      BY <2>1, <2>2, EndedSteady
<1>4. CASE UpsertPartial(k) \/ ReconcileThreadSubscriptions(k)
  <2>1. /\ UNCHANGED <<newest, sub, steady, cursor>>
        /\ job' = [job EXCEPT ![k] = "idle"] \/ job' = [job EXCEPT ![k] = "partial"]
        /\ \E rest : views' = [views EXCEPT ![k] = rest]
      BY <1>4 DEF UpsertPartial, ReconcileThreadSubscriptions, slack
  <2>2. /\ \A j \in Jobs : j # k => job'[j] = job[j] /\ views'[j] = views[j]
        /\ job'[k] \notin {"listing", "full"}
      BY <2>1 DEF TypeOK
  <2> QED
      BY <2>1, <2>2, EndedSteady
<1> QED
    BY <1>1, <1>2, <1>3, <1>4 DEF Backfill

LEMMA SlackSteady ==
    ASSUME TypeOK, ReadInv, SteadyInv, NEW t \in Threads,
           Reply(t) \/ Follow(t) \/ UnfollowElsewhere(t) \/ ReadElsewhere(t)
    PROVE  SteadyInv'
<1>1. CASE Reply(t)
    BY <1>1, ReplySteady
<1>2. CASE Follow(t)
  <2>1. UNCHANGED <<newest, listing, steady>> /\ sub' = sub \cup {t}
      BY <1>2 DEF Follow, Subscribe
  <2> QED
      BY <2>1, SteadyStays DEF SteadyInv, SteadyFollowed
<1>3. CASE UnfollowElsewhere(t)
  <2>1. UNCHANGED <<newest, listing>> /\ Unsubscribe(t)
      BY <1>3 DEF UnfollowElsewhere
  <2> QED
      BY <2>1, UnsubscribeSteady, SteadyStays
<1>4. CASE ReadElsewhere(t)
  <2>1. UNCHANGED <<newest, listing, steady, sub>>
      BY <1>4 DEF ReadElsewhere
  <2> QED
      BY <2>1, SteadyStays DEF SteadyInv, SteadyFollowed
<1> QED
    BY <1>1, <1>2, <1>3, <1>4

LEMMA SocketSteady ==
    ASSUME SteadyInv, Drop \/ ReadLoop
    PROVE  SteadyInv'
<1>1. UNCHANGED <<newest, listing, steady, sub>>
    BY DEF Drop, ReadLoop, OnThreadMarked, OnThreadSubscriptionChanged, slack
<1> QED
    BY <1>1, SteadyStays DEF SteadyInv, SteadyFollowed

LEMMA TasksSteady ==
    ASSUME TypeOK, SteadyInv, NEW g \in Tasks,
           Opening(g) \/ Unfollowing(g) \/ Reacting(g)
    PROVE  SteadyInv'
<1>1. UNCHANGED <<newest, listing>>
    BY DEF Opening, OpenThread, MarkThreadRead, GetReplies, AdvanceLastRead, CheckActive,
           MarkThread, Unfollowing, UnsubThread, CallUnsubscribe, DeleteThreadSubscription,
           Reacting, React, AddReaction, UndoFollow, ForgetFollow, slack
<1>2. /\ \A k \in Jobs : steady'[k] \subseteq steady[k]
      /\ \A k \in Jobs : steady'[k] \subseteq sub'
  <2>1. on[g] \in Threads
      BY DEF TypeOK
  <2>2. CASE Unsubscribe(on[g])
      BY <2>1, <2>2, UnsubscribeSteady
  <2>3. CASE ~ Unsubscribe(on[g])
    <3>1. UNCHANGED steady /\ (sub' = sub \/ sub' = sub \cup {on[g]})
        BY <2>3
        DEF Opening, OpenThread, MarkThreadRead, GetReplies, AdvanceLastRead, CheckActive,
            MarkThread, Unfollowing, UnsubThread, CallUnsubscribe,
            DeleteThreadSubscription, Reacting, React, AddReaction, UndoFollow,
            ForgetFollow, slack
    <3> QED
        BY <3>1 DEF SteadyInv, SteadyFollowed
  <2> QED
      BY <2>2, <2>3
<1> QED
    BY <1>1, <1>2, SteadyStays

LEMMA SteadyStep == TypeOK /\ ReadInv /\ SteadyInv /\ [Next]_vars => SteadyInv'
<1> SUFFICES ASSUME TypeOK, ReadInv, SteadyInv, [Next]_vars PROVE SteadyInv'
    OBVIOUS
<1>1. CASE Next
    BY <1>1, SlackSteady, SocketSteady, BackfillSteady, TasksSteady DEF Next
<1>2. CASE UNCHANGED vars
  <2>1. UNCHANGED <<newest, listing, steady, sub>>
      BY <1>2 DEF vars, slack
  <2> QED
      BY <2>1, SteadyStays DEF SteadyInv, SteadyFollowed
<1> QED
    BY <1>1, <1>2

\* What a step of a listing writes leaves the quiet threads followed.
LEMMA ListingKeepsSteady ==
    ASSUME TypeOK, SteadyInv, NEW j \in Jobs, Backfill(j), NEW k \in Jobs,
           NEW t \in steady[k], job'[k] # job[k], row[t].at = "active",
           Cardinality(Threads) <= HardCap
    PROVE  row'[t].at = "active"
<1>1. t \in Threads
    BY DEF TypeOK
<1>2. CASE StartListing(j) \/ ListPage(j) \/ ListingTimesOut(j) \/ ListingFails(j)
    BY <1>2 DEF StartListing, ListPage, ListingTimesOut, ListingFails
<1>3. CASE UpsertPartial(j)
  <2>1. PICK v \in views[j] : Upsert(v.t, v.lr, "active")
      BY <1>3 DEF UpsertPartial
  <2> QED
      BY <1>1, <2>1 DEF Upsert, TypeOK
<1>4. CASE ReconcileThreadSubscriptions(j)
  <2>1. k = j /\ job[k] = "full" /\ row' = Reconciled(views[k])
      BY <1>4 DEF ReconcileThreadSubscriptions, TypeOK
  <2>2. PICK v \in views[k] : v.t = t
      BY <2>1 DEF SteadyInv, FullHasAll, Listed
  <2>3. v.lr \in {w.lr : w \in {x \in views[k] : x.t = t}}
      BY <2>2
  <2> QED
      BY <1>1, <2>1, <2>3 DEF Reconciled
<1> QED
    BY <1>2, <1>3, <1>4 DEF Backfill

\* A listing, whole or cut short, never drops a thread that Slack had the user follow all
\* along and nobody replied to meanwhile, whatever threads move between its pages
\* (backfill.go:193-244, client.go:1846-1915).
THEOREM SteadyRemain == Spec => SteadyIsNotDropped
<1>1. Init => SteadyInv
    BY DEF Init, SteadyInv, SteadyFollowed, ListedAbove, FullHasAll
<1>2. TypeOK /\ SteadyInv /\ [Next]_vars =>
        [\A k \in Jobs : \A t \in steady[k] :
           (job'[k] # job[k] /\ row[t].at = "active" /\ Cardinality(Threads) <= HardCap)
              => row'[t].at = "active"]_vars
  <2> SUFFICES ASSUME TypeOK, SteadyInv, Next, NEW k \in Jobs, NEW t \in steady[k],
                      job'[k] # job[k], row[t].at = "active",
                      Cardinality(Threads) <= HardCap
               PROVE  row'[t].at = "active"
      OBVIOUS
  <2>1. CASE \E j \in Jobs : Backfill(j)
      BY <2>1, ListingKeepsSteady
  <2>2. CASE \E u \in Threads :
                Reply(u) \/ Follow(u) \/ UnfollowElsewhere(u) \/ ReadElsewhere(u)
      BY <2>2 DEF Reply, Follow, UnfollowElsewhere, ReadElsewhere, listing
  <2>3. CASE Drop \/ ReadLoop
      BY <2>3 DEF Drop, ReadLoop, OnThreadMarked, OnThreadSubscriptionChanged, listing
  <2>4. CASE \E g \in Tasks : Opening(g) \/ Unfollowing(g) \/ Reacting(g)
      BY <2>4
      DEF Opening, OpenThread, MarkThreadRead, GetReplies, AdvanceLastRead, CheckActive,
          MarkThread, Unfollowing, UnsubThread, CallUnsubscribe, DeleteThreadSubscription,
          Reacting, React, AddReaction, UndoFollow, ForgetFollow, listing
  <2> QED
      BY <2>1, <2>2, <2>3, <2>4 DEF Next
<1> QED
    BY <1>1, <1>2, SteadyStep, ReadInvHolds, TypeCorrect, PTL DEF Spec, SteadyIsNotDropped
=============================================================================
