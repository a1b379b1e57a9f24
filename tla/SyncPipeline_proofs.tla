------------------------- MODULE SyncPipeline_proofs -------------------------
(***************************************************************************)
(* Theorems about SyncPipeline, for every value of its constants.          *)
(***************************************************************************)
EXTENDS SyncPipeline, WellFoundedInduction, FiniteSetTheorems, SequenceTheorems, TLAPS

\* A nonempty set of message timestamps has a newest member, because its
\* distances from MaxTS have a least one.
LEMMA NewestExists ==
    ASSUME NEW S \in SUBSET TS, S # {}
    PROVE  \E t \in S : \A u \in S : u <= t
<1> DEFINE R == {ss \in Nat \X Nat : ss[1] < ss[2]}
           T == {MaxTS - t : t \in S}
<1>1. R = OpToRel(<, Nat)
  BY DEF OpToRel
<1>2. IsWellFoundedOn(R, Nat)
  BY <1>1, NatLessThanWellFounded
<1>3. T \subseteq Nat /\ T # {}
  <2>1. ASSUME NEW t \in S PROVE MaxTS - t \in Nat
    <3>1. t \in 1 .. MaxTS /\ MaxTS \in Nat
      BY BoundsAssumption DEF TS
    <3>2. QED BY <3>1
  <2>2. PICK t \in S : TRUE
    OBVIOUS
  <2>3. MaxTS - t \in T
    BY <2>2
  <2>4. QED BY <2>1, <2>3
<1>4. PICK x \in T : \A y \in T : ~ (<<y, x>> \in R)
  <2> HIDE DEF R, T
  <2> QED BY <1>2, <1>3, WFMin
<1>5. PICK t \in S : x = MaxTS - t
  BY <1>4
<1>6. ASSUME NEW u \in S PROVE u <= t
  <2>1. MaxTS - u \in T /\ MaxTS - u \in Nat /\ x \in Nat
    BY <1>3, <1>4
  <2>2. ~ (MaxTS - u < x)
    BY <2>1, <1>4
  <2>3. QED BY <2>2, <1>5, BoundsAssumption DEF TS
<1>7. QED BY <1>6

\* Newest returns 0 on the empty set and the largest member otherwise.
LEMMA NewestFact ==
    ASSUME NEW S \in SUBSET TS
    PROVE  /\ Newest(S) \in 0 .. MaxTS
           /\ S # {} => Newest(S) \in S
           /\ \A u \in S : u <= Newest(S)
<1>1. CASE S = {}
  <2>1. Newest(S) = 0 /\ 0 \in 0 .. MaxTS
    BY <1>1, BoundsAssumption DEF Newest
  <2>2. QED BY <2>1, <1>1
<1>2. CASE S # {}
  <2>1. Newest(S) \in S /\ \A u \in S : u <= Newest(S)
    BY <1>2, NewestExists DEF Newest
  <2>2. Newest(S) \in 1 .. MaxTS /\ MaxTS \in Nat
    BY <2>1, BoundsAssumption DEF TS
  <2>3. Newest(S) \in 0 .. MaxTS
    BY <2>2
  <2>4. QED BY <2>1, <2>3, <1>2
<1>3. QED BY <1>1, <1>2

-----------------------------------------------------------------------------
\* Type correctness, one lemma per part of the system.
LEMMA RestTyped ==
    /\ [k \in Conns |-> "none"] \in [Conns -> Phases]
    /\ [k \in Conns |-> [c \in Channels |-> "off"]]
            \in [Conns -> [Channels -> JobPhases]]
    /\ [k \in Conns |-> [c \in Channels |-> {}]]
            \in [Conns -> [Channels -> SUBSET Row]]
    /\ [t \in TS |-> Absent] \in RevFn
    /\ <<>> \in Seq(Event)
<1>1. "none" \in Phases /\ "off" \in JobPhases
  BY DEF Phases, JobPhases
<1>2. Absent \in Rev
  BY DEF Rev, Absent, Deleted
<1>3. QED BY <1>1, <1>2, EmptySeq DEF RevFn

LEMMA InitTyped == Init => TypeOK
<1> SUFFICES ASSUME Init PROVE TypeOK
  OBVIOUS
<1>1. /\ 0 \in 0 .. MaxTS /\ 0 \in 0 .. MaxConnects /\ 0 \in 0 .. MaxRestarts
  BY BoundsAssumption
<1>2. wm \in [Conns -> [Channels -> 0 .. MaxTS]]
  BY <1>1 DEF Init
<1>3. QED BY <1>1, <1>2, RestTyped DEF Init, TypeOK

LEMMA EnvironmentTyped == TypeOK /\ Environment => TypeOK'
<1> SUFFICES ASSUME TypeOK, Environment PROVE TypeOK'
  OBVIOUS
<1> USE DEF RevFn, Rev, Absent, Posted, Edited, Deleted, Phases
<1>1. ASSUME NEW t \in TS, NEW rev \in Posted .. Deleted, Send(t, rev)
      PROVE stream' \in Seq(Event)
  <2>1. [ts |-> t, rev |-> rev] \in Event
    BY DEF Event
  <2>2. stream \in Seq(Event)
    BY DEF TypeOK
  <2>3. QED BY <1>1, <2>1, <2>2, AppendProperties DEF Send
<1>2. ASSUME NEW t \in TS, Post(t) PROVE TypeOK'
  <2>1. stream' \in Seq(Event)
    <3>1. \E rev \in Posted .. Deleted : Send(t, rev)
      BY <1>2 DEF Post
    <3>2. QED BY <1>1, <3>1
  <2>2. QED BY <1>2, <2>1 DEF Post, TypeOK, poll, backfills
<1>3. ASSUME NEW t \in TS, Edit(t) PROVE TypeOK'
  <2>1. stream' \in Seq(Event)
    <3>1. \E rev \in Posted .. Deleted : Send(t, rev)
      BY <1>3 DEF Edit
    <3>2. QED BY <1>1, <3>1
  <2>2. QED BY <1>3, <2>1 DEF Edit, TypeOK, poll, backfills
<1>4. ASSUME NEW t \in TS, Delete(t) PROVE TypeOK'
  <2>1. stream' \in Seq(Event)
    <3>1. \E rev \in Posted .. Deleted : Send(t, rev)
      BY <1>4 DEF Delete
    <3>2. QED BY <1>1, <3>1
  <2>2. QED BY <1>4, <2>1 DEF Delete, TypeOK, poll, backfills
<1>5. CASE Connect
  <2>1. conns' \in 0 .. MaxConnects
    BY <1>5, BoundsAssumption DEF Connect, TypeOK
  <2>2. QED BY <1>5, <2>1 DEF Connect, TypeOK, server, poll
<1>6. CASE Drop
  BY <1>6, EmptySeq DEF Drop, TypeOK, server, poll, backfills
<1>7. QED BY <1>2, <1>3, <1>4, <1>5, <1>6 DEF Environment

LEMMA ReadLoopTyped == TypeOK /\ ReadLoop => TypeOK'
<1> SUFFICES ASSUME TypeOK, ReadLoop PROVE TypeOK'
  OBVIOUS
<1> USE DEF RevFn, Rev, Readable, Absent, Posted, Edited, Deleted,
            UpsertMessage, DeleteMessage
<1>1. /\ stream # <<>>
      /\ Head(stream) \in Event
      /\ Tail(stream) \in Seq(Event)
  <2>1. stream # <<>> /\ stream \in Seq(Event)
    BY DEF ReadLoop, OnMessage, OnMessageDeleted, TypeOK
  <2>2. QED BY <2>1, HeadTailProperties
<1>2. /\ Head(stream).ts \in TS
      /\ Head(stream).rev \in Rev
  BY <1>1 DEF Event
<1>3. cache' \in RevFn /\ shown' \in RevFn
  BY <1>2 DEF ReadLoop, OnMessage, OnMessageDeleted, Show, TypeOK
<1>4. stream' = Tail(stream)
  BY DEF ReadLoop, OnMessage, OnMessageDeleted
<1>5. UNCHANGED <<server, sock, conns, restarts, poll, backfills>>
  BY DEF ReadLoop, OnMessage, OnMessageDeleted
<1>6. QED BY <1>1, <1>3, <1>4, <1>5 DEF TypeOK, server, poll, backfills

LEMMA WorkerTyped ==
    ASSUME NEW k \in Conns, NEW c \in Channels, TypeOK, Worker(k, c)
    PROVE  TypeOK'
<1> USE DEF RevFn, Rev, Row, Readable, Absent, Posted, Edited, Deleted, JobPhases,
            server, socket, poll
<1>1. CASE ReadWatermark(k, c)
  <2>1. Watermark(c) \in 0 .. MaxTS
    BY NewestFact DEF Watermark, CachedIn, Cached
  <2>2. QED BY <1>1, <2>1 DEF ReadWatermark, TypeOK
<1>2. CASE FetchHistory(k, c)
  <2>1. History(c, wm[k][c]) \in SUBSET Row
    BY DEF History, NewestRows, TypeOK
  <2>2. QED BY <1>2, <2>1 DEF FetchHistory, TypeOK
<1>3. CASE FetchFails(k, c)
  BY <1>3 DEF FetchFails, TypeOK
<1>4. CASE PersistMessage(k, c)
  <2>1. PICK r \in page[k][c] :
           /\ cache' = [cache EXCEPT ![r.ts] = r.rev]
           /\ page' = [page EXCEPT ![k][c] = @ \ {r}]
           /\ job' = [job EXCEPT ![k][c] =
                        IF page[k][c] = {r} THEN "done" ELSE "persist"]
    BY <1>4 DEF PersistMessage, UpsertMessage
  <2>2. r \in Row
    BY <2>1 DEF TypeOK
  <2>3. cache' \in RevFn
    BY <2>1, <2>2 DEF TypeOK
  <2>4. page' \in [Conns -> [Channels -> SUBSET Row]]
    BY <2>1 DEF TypeOK
  <2>5. job' \in [Conns -> [Channels -> JobPhases]]
    BY <2>1 DEF TypeOK
  <2>6. QED BY <1>4, <2>3, <2>4, <2>5 DEF PersistMessage, TypeOK
<1>5. QED BY <1>1, <1>2, <1>3, <1>4 DEF Worker

LEMMA BackfillTyped ==
    ASSUME NEW k \in Conns, TypeOK, Backfill(k)
    PROVE  TypeOK'
<1> USE DEF Phases, JobPhases, server, socket, poll
<1>1. CASE PassGate(k)
  BY <1>1 DEF PassGate, TypeOK
<1>2. CASE ListCandidates(k)
  BY <1>2 DEF ListCandidates, TypeOK
<1>3. CASE \E c \in Channels : Worker(k, c)
  BY <1>3, WorkerTyped
<1>4. QED BY <1>1, <1>2, <1>3 DEF Backfill

LEMMA PollLoopTyped == TypeOK /\ PollLoop => TypeOK'
<1> SUFFICES ASSUME TypeOK, PollLoop PROVE TypeOK'
  OBVIOUS
<1> USE DEF RevFn, Rev, Row, Readable, Absent, Posted, Edited, Deleted,
            server, socket, backfills
<1>1. CASE PollQuery
  <2>1. OldestRows(Fresh, PollLimit) \in SUBSET Row
    BY DEF OldestRows, Fresh, Cached, TypeOK
  <2>2. QED BY <1>1, <2>1 DEF PollQuery, TypeOK
<1>2. CASE PollRow
  <2>1. PICK r \in batch :
           /\ batch' = batch \ {r} /\ lastTS' = r.ts
           /\ IF home[r.ts] \in Known
              THEN /\ shown' = [shown EXCEPT ![r.ts] = r.rev]
                   /\ notified' = [notified EXCEPT ![r.ts] = @ + 1]
              ELSE UNCHANGED <<shown, notified>>
    BY <1>2 DEF PollRow
  <2>2. r \in Row /\ r.ts \in TS /\ r.rev \in Rev
    BY <2>1 DEF TypeOK
  <2>3. r.ts \in 0 .. MaxTS
    BY <2>2, BoundsAssumption DEF TS
  <2>4. shown' \in RevFn /\ notified' \in [TS -> Nat]
    <3>1. shown \in RevFn /\ notified \in [TS -> Nat]
      BY DEF TypeOK
    <3>2. CASE home[r.ts] \in Known
      <4>1. notified[r.ts] + 1 \in Nat
        BY <2>2, <3>1
      <4>2. QED BY <2>1, <2>2, <3>1, <3>2, <4>1
    <3>3. CASE home[r.ts] \notin Known
      BY <2>1, <3>1, <3>3
    <3>4. QED BY <3>2, <3>3
  <2>5. QED BY <1>2, <2>1, <2>3, <2>4 DEF PollRow, TypeOK
<1>3. QED BY <1>1, <1>2 DEF PollLoop

LEMMA RestartTyped == TypeOK /\ Restart => TypeOK'
<1> SUFFICES ASSUME TypeOK, Restart PROVE TypeOK'
  OBVIOUS
<1>1. restarts' \in 0 .. MaxRestarts
  BY BoundsAssumption DEF Restart, TypeOK
<1>2. lastTS' \in 0 .. MaxTS
  BY NewestFact DEF Restart, StartCursor, Cached
<1>3. QED BY <1>1, <1>2, RestTyped DEF Restart, TypeOK, server

LEMMA NextTyped == TypeOK /\ [Next]_vars => TypeOK'
<1> SUFFICES ASSUME TypeOK, [Next]_vars PROVE TypeOK'
  OBVIOUS
<1>1. CASE GateExpires
  BY <1>1 DEF GateExpires, TypeOK, server, socket, poll
<1>2. CASE UNCHANGED vars
  BY <1>2 DEF vars, TypeOK, server, socket, poll, backfills
<1>3. QED BY <1>1, <1>2, EnvironmentTyped, ReadLoopTyped, BackfillTyped,
             PollLoopTyped, RestartTyped DEF Next

\* Every variable keeps its type, whatever the bounds (all of SyncPipeline).
THEOREM TypeCorrect == Spec => []TypeOK
<1>1. QED BY InitTyped, NextTyped, PTL DEF Spec

-----------------------------------------------------------------------------
(***************************************************************************)
(* The poll cursor.  NotifiedOnce alone is not inductive: it needs that    *)
(* whatever was notified lies at or below the cursor, that an open result  *)
(* lies above it with one row per message, and, for a restart, that the    *)
(* cursor stands on a row of the cache, so that MAX(ts) is not below it.   *)
(***************************************************************************)
CursorInv ==
    /\ \A t \in TS : notified[t] > 0 => t <= lastTS
    /\ \A r \in batch : r.ts > lastTS /\ r.ts \in Cached
    /\ \A r, q \in batch : r.ts = q.ts => r = q
    /\ lastTS # 0 => lastTS \in Cached

IInv == TypeOK /\ NotifiedOnce /\ CursorInv

LEMMA InitIInv == Init => IInv
<1> SUFFICES ASSUME Init PROVE IInv
  OBVIOUS
<1>1. TypeOK
  BY InitTyped
<1>2. QED BY <1>1 DEF Init, IInv, NotifiedOnce, CursorInv

\* No step takes a row out of the cache (DeleteMessage only marks it).
LEMMA CacheGrows ==
    ASSUME TypeOK, [Next]_vars
    PROVE  \A t \in Cached : t \in Cached'
<1> USE DEF Cached, Absent, Posted, Edited, Deleted, Readable, poll, backfills
<1>1. CASE Environment
  BY <1>1 DEF Environment, Post, Edit, Delete, Connect, Drop
<1>2. CASE ReadLoop
  BY <1>2 DEF ReadLoop, OnMessage, OnMessageDeleted, UpsertMessage, DeleteMessage,
              TypeOK, RevFn, Rev
<1>3. CASE GateExpires
  BY <1>3 DEF GateExpires
<1>4. ASSUME NEW k \in Conns, Backfill(k) PROVE \A t \in Cached : t \in Cached'
  <2>1. CASE PassGate(k) \/ ListCandidates(k)
    BY <2>1 DEF PassGate, ListCandidates
  <2>2. ASSUME NEW c \in Channels, Worker(k, c)
        PROVE \A t \in Cached : t \in Cached'
    <3>1. CASE ReadWatermark(k, c) \/ FetchHistory(k, c) \/ FetchFails(k, c)
      BY <3>1 DEF ReadWatermark, FetchHistory, FetchFails
    <3>2. CASE PersistMessage(k, c)
      <4>1. PICK r \in page[k][c] : cache' = [cache EXCEPT ![r.ts] = r.rev]
        BY <3>2 DEF PersistMessage, UpsertMessage
      <4>2. r.rev \in Readable
        BY <4>1 DEF TypeOK, Row
      <4>3. QED BY <4>1, <4>2 DEF TypeOK, RevFn
    <3>3. QED BY <2>2, <3>1, <3>2 DEF Worker
  <2>3. QED BY <1>4, <2>1, <2>2 DEF Backfill
<1>5. CASE PollLoop
  BY <1>5 DEF PollLoop, PollQuery, PollRow
<1>6. CASE Restart
  BY <1>6 DEF Restart
<1>7. CASE UNCHANGED vars
  BY <1>7 DEF vars
<1>8. QED BY <1>1, <1>2, <1>3, <1>4, <1>5, <1>6, <1>7 DEF Next

\* A step that leaves the poll loop alone keeps its invariant.
LEMMA PollUntouched ==
    ASSUME IInv, [Next]_vars, UNCHANGED poll
    PROVE  NotifiedOnce' /\ CursorInv'
<1>1. \A t \in Cached : t \in Cached'
  BY CacheGrows DEF IInv
<1>2. QED BY <1>1 DEF IInv, NotifiedOnce, CursorInv, poll

LEMMA PollQueryIInv ==
    ASSUME IInv, PollQuery
    PROVE  NotifiedOnce' /\ CursorInv'
<1>1. UNCHANGED <<cache, lastTS, notified>>
  BY DEF PollQuery
<1>2. batch' \subseteq Fresh
  BY DEF PollQuery, OldestRows
<1>3. \A r \in Fresh : r = [ts |-> r.ts, rev |-> cache[r.ts]]
                       /\ r.ts \in Cached /\ r.ts > lastTS
  BY DEF Fresh
<1>4. QED BY <1>1, <1>2, <1>3 DEF IInv, NotifiedOnce, CursorInv, Cached

LEMMA PollRowIInv ==
    ASSUME IInv, PollRow
    PROVE  NotifiedOnce' /\ CursorInv' /\ lastTS' > lastTS
<1>1. PICK r \in batch :
         /\ OldestFirst(r, batch)
         /\ batch' = batch \ {r} /\ lastTS' = r.ts
         /\ IF home[r.ts] \in Known
            THEN /\ shown' = [shown EXCEPT ![r.ts] = r.rev]
                 /\ notified' = [notified EXCEPT ![r.ts] = @ + 1]
            ELSE UNCHANGED <<shown, notified>>
  BY DEF PollRow
<1>2. UNCHANGED cache
  BY DEF PollRow
<1>3. /\ r.ts \in TS /\ r.ts > lastTS /\ r.ts \in Cached
      /\ lastTS \in Nat /\ r.ts \in Nat
      /\ \A t \in TS : t \in Nat /\ notified[t] \in Nat
  BY <1>1, BoundsAssumption DEF IInv, CursorInv, TypeOK, Row, TS
<1>4. notified[r.ts] = 0
  BY <1>3 DEF IInv, CursorInv
<1>5. \A t \in TS : t # r.ts => notified'[t] = notified[t]
  BY <1>1 DEF IInv, TypeOK
<1>6. notified'[r.ts] <= 1
  BY <1>1, <1>3, <1>4 DEF IInv, TypeOK
<1>7. NotifiedOnce'
  BY <1>5, <1>6 DEF IInv, NotifiedOnce
<1>8. \A t \in TS : notified'[t] > 0 => t <= lastTS'
  <2>1. ASSUME NEW t \in TS, notified'[t] > 0, t # r.ts PROVE t <= r.ts
    <3>1. notified[t] > 0
      BY <1>5, <2>1
    <3>2. t <= lastTS
      BY <3>1 DEF IInv, CursorInv
    <3>3. QED BY <3>2, <1>3
  <2>2. QED BY <2>1, <1>1, <1>3
<1>9. \A q \in batch' : q.ts > lastTS' /\ q.ts \in Cached'
  <2>1. ASSUME NEW q \in batch, q # r PROVE q.ts > r.ts /\ q.ts \in Cached'
    <3>1. q.ts >= r.ts /\ q.ts # r.ts /\ q.ts \in Nat
      BY <1>1, <2>1, BoundsAssumption
         DEF OldestFirst, IInv, CursorInv, TypeOK, Row, TS
    <3>2. q.ts \in Cached'
      BY <1>2, <2>1 DEF IInv, CursorInv, Cached
    <3>3. QED BY <3>1, <3>2, <1>3
  <2>2. QED BY <1>1, <2>1
<1>10. lastTS' \in Cached'
  BY <1>1, <1>2, <1>3 DEF Cached
<1>11. QED BY <1>1, <1>3, <1>7, <1>8, <1>9, <1>10 DEF CursorInv, IInv

\* MAX(ts) of the cache is not below the cursor.
LEMMA RestartIInv ==
    ASSUME IInv, Restart
    PROVE  NotifiedOnce' /\ CursorInv' /\ lastTS' >= lastTS
<1>1. /\ batch' = {} /\ UNCHANGED <<cache, notified>>
      /\ lastTS' = Newest(Cached)
  BY DEF Restart, StartCursor
<1>2. /\ Newest(Cached) \in 0 .. MaxTS
      /\ Cached # {} => Newest(Cached) \in Cached
      /\ \A u \in Cached : u <= Newest(Cached)
  BY NewestFact DEF Cached
<1>3. Newest(Cached) # 0 => Cached # {}
  BY DEF Newest
<1>4. lastTS' >= lastTS /\ lastTS \in Nat /\ lastTS' \in Nat
  BY <1>1, <1>2, BoundsAssumption DEF IInv, CursorInv, TypeOK
<1>5. Cached' = Cached
  BY <1>1 DEF Cached
<1>6. \A t \in TS : notified'[t] > 0 => t <= lastTS'
  <2>1. \A t \in TS : notified[t] > 0 => t <= lastTS /\ t \in Nat
    BY DEF IInv, CursorInv, TS
  <2>2. QED BY <1>1, <1>4, <2>1
<1>7. QED BY <1>1, <1>2, <1>3, <1>4, <1>5, <1>6 DEF IInv, NotifiedOnce, CursorInv

\* Only the poll loop and a restart move the cursor.
LEMMA StepKinds ==
    ASSUME [Next]_vars
    PROVE  UNCHANGED poll \/ PollQuery \/ PollRow \/ Restart
<1>1. Environment => UNCHANGED poll
  BY DEF Environment, Post, Edit, Delete, Connect, Drop
<1>2. ReadLoop => UNCHANGED poll
  BY DEF ReadLoop, OnMessage, OnMessageDeleted
<1>3. GateExpires => UNCHANGED poll
  BY DEF GateExpires
<1>4. \A k \in Conns : Backfill(k) => UNCHANGED poll
  BY DEF Backfill, PassGate, ListCandidates, Worker, ReadWatermark,
         FetchHistory, FetchFails, PersistMessage
<1>5. UNCHANGED vars => UNCHANGED poll
  BY DEF vars
<1>6. QED BY <1>1, <1>2, <1>3, <1>4, <1>5 DEF Next, PollLoop

LEMMA NextIInv == IInv /\ [Next]_vars => IInv'
<1> SUFFICES ASSUME IInv, [Next]_vars PROVE IInv'
  OBVIOUS
<1>1. TypeOK'
  BY NextTyped DEF IInv
<1>2. NotifiedOnce' /\ CursorInv'
  BY StepKinds, PollUntouched, PollQueryIInv, PollRowIInv, RestartIInv
<1>3. QED BY <1>1, <1>2 DEF IInv

LEMMA Invariance == Spec => []IInv
<1>1. QED BY InitIInv, NextIInv, PTL DEF Spec

\* A message is notified at most once, through re-caching by any number of
\* backfills, deletion, resurrection and restarts (pollWorkspace).
THEOREM NotifyAtMostOnce == Spec => []NotifiedOnce
<1>1. IInv => NotifiedOnce
  BY DEF IInv
<1>2. QED BY <1>1, Invariance, PTL

\* The poll cursor never moves back, restarts included (pollWorkspace).
THEOREM CursorNeverGoesBack == Spec => CursorMonotone
<1>1. IInv /\ [Next]_vars => [lastTS' >= lastTS]_vars
  <2> SUFFICES ASSUME IInv, [Next]_vars PROVE lastTS' >= lastTS
    OBVIOUS
  <2>1. lastTS \in Nat
    BY BoundsAssumption DEF IInv, TypeOK
  <2>2. CASE UNCHANGED poll \/ PollQuery
    BY <2>1, <2>2 DEF poll, PollQuery
  <2>3. CASE PollRow
    <3>1. lastTS' > lastTS /\ lastTS' \in Nat
      <4>1. IInv'
        BY NextIInv
      <4>2. QED BY <4>1, <2>3, PollRowIInv, BoundsAssumption DEF IInv, TypeOK
    <3>2. QED BY <3>1, <2>1
  <2>4. CASE Restart
    BY <2>4, RestartIInv
  <2>5. QED BY <2>2, <2>3, <2>4, StepKinds
<1>2. QED BY <1>1, Invariance, PTL DEF Spec, CursorMonotone

-----------------------------------------------------------------------------
(* The pipeline implements Delivery                                        *)

\* Writing a row stores the message, or changes one that was stored.
LEMMA UpsertStores ==
    ASSUME TypeOK, NEW t \in TS, NEW rev \in Readable, UpsertMessage(t, rev)
    PROVE  Cached' = Cached \cup {t}
BY DEF UpsertMessage, Cached, TypeOK, RevFn, Rev, Readable, Absent, Posted, Edited, Deleted

LEMMA DeleteStoresNothing ==
    ASSUME TypeOK, NEW t \in TS, DeleteMessage(t)
    PROVE  Cached' = Cached
BY DEF DeleteMessage, Cached, TypeOK, RevFn, Rev, Absent, Posted, Edited, Deleted

\* What a step may do to the set of cached messages.
LEMMA StoreKinds ==
    ASSUME TypeOK, [Next]_vars
    PROVE  \/ Cached' = Cached
           \/ UNCHANGED poll /\ \E t \in TS : Cached' = Cached \cup {t}
<1>1. CASE OnMessage
  <2>1. Head(stream) \in Event
    BY <1>1, HeadTailProperties DEF OnMessage, TypeOK
  <2>2. PICK t \in TS, rev \in Readable : UpsertMessage(t, rev)
    BY <1>1, <2>1 DEF OnMessage, Event
  <2>3. QED BY <1>1, <2>2, UpsertStores DEF OnMessage
<1>2. CASE OnMessageDeleted
  <2>1. Head(stream) \in Event
    BY <1>2, HeadTailProperties DEF OnMessageDeleted, TypeOK
  <2>2. QED BY <1>2, <2>1, DeleteStoresNothing DEF OnMessageDeleted, Event
<1>3. ASSUME NEW k \in Conns, Backfill(k)
      PROVE  \/ Cached' = Cached
             \/ UNCHANGED poll /\ \E t \in TS : Cached' = Cached \cup {t}
  <2>1. ASSUME NEW c \in Channels, PersistMessage(k, c)
        PROVE  UNCHANGED poll /\ \E t \in TS : Cached' = Cached \cup {t}
    <3>1. PICK r \in page[k][c] : UpsertMessage(r.ts, r.rev)
      BY <2>1 DEF PersistMessage
    <3>2. r.ts \in TS /\ r.rev \in Readable
      BY <3>1 DEF TypeOK, Row
    <3>3. QED BY <2>1, <3>1, <3>2, UpsertStores DEF PersistMessage
  <2>2. UNCHANGED cache \/ \E c \in Channels : PersistMessage(k, c)
    BY <1>3 DEF Backfill, PassGate, ListCandidates, Worker, ReadWatermark,
                FetchHistory, FetchFails
  <2>3. QED BY <2>1, <2>2 DEF Cached
<1>4. CASE Environment \/ GateExpires \/ PollLoop \/ Restart \/ UNCHANGED vars
  <2>1. UNCHANGED cache
    BY <1>4 DEF Environment, Post, Edit, Delete, Connect, Drop, GateExpires,
                PollLoop, PollQuery, PollRow, Restart, vars
  <2>2. QED BY <2>1 DEF Cached
<1>5. QED BY <1>1, <1>2, <1>3, <1>4 DEF Next, ReadLoop

\* The row the poll loop takes is stored, above the cursor, and told or not.
LEMMA PollRowPasses ==
    ASSUME IInv, PollRow
    PROVE  \E t \in TS : Promised!Pass(t)
<1>1. PICK r \in batch :
         /\ lastTS' = r.ts
         /\ \/ notified' = [notified EXCEPT ![r.ts] = @ + 1]
            \/ UNCHANGED notified
  BY DEF PollRow
<1>2. r.ts \in TS /\ r.ts \in Cached /\ r.ts > lastTS
  BY <1>1 DEF IInv, CursorInv, TypeOK, Row
<1>3. Cached' = Cached
  BY DEF PollRow, Cached
<1>4. QED BY <1>1, <1>2, <1>3 DEF Promised!Pass

LEMMA RestartResumes ==
    ASSUME IInv, Restart
    PROVE  Promised!Resume
<1>1. /\ lastTS' = Newest(Cached) /\ UNCHANGED <<cache, notified>>
      /\ lastTS' >= lastTS
  BY RestartIInv DEF Restart, StartCursor
<1>2. /\ Cached # {} => Newest(Cached) \in Cached
      /\ Cached = {} => Newest(Cached) = 0
      /\ \A u \in Cached : u <= Newest(Cached)
  BY NewestFact DEF Cached, Newest
<1>3. Cached' = Cached
  BY <1>1 DEF Cached
<1>4. QED BY <1>1, <1>2, <1>3 DEF Promised!Resume

\* Every step of the pipeline is a step of Delivery or changes nothing in it.
LEMMA StepSimulated ==
    ASSUME IInv, [Next]_vars
    PROVE  [Promised!Next]_<<Cached, lastTS, notified>>
<1>1. CASE UNCHANGED poll
  <2>1. CASE Cached' = Cached
    BY <1>1, <2>1 DEF poll
  <2>2. ASSUME NEW t \in TS, Cached' = Cached \cup {t}
        PROVE  [Promised!Next]_<<Cached, lastTS, notified>>
    BY <1>1, <2>2 DEF poll, Promised!Next, Promised!Store
  <2>3. QED BY <2>1, <2>2, StoreKinds DEF IInv
<1>2. CASE PollQuery
  BY <1>2 DEF PollQuery, Cached
<1>3. CASE PollRow
  BY <1>3, PollRowPasses DEF Promised!Next
<1>4. CASE Restart
  BY <1>4, RestartResumes DEF Promised!Next
<1>5. QED BY <1>1, <1>2, <1>3, <1>4, StepKinds

\* Whatever backfills, live events and restarts do, the user is told of stored
\* messages in the order of a cursor that only moves forward (pollWorkspace).
THEOREM PipelineDelivers == Spec => ImplementsDelivery
<1>1. Init => Promised!Init
  BY DEF Init, Promised!Init, Cached
<1>2. IInv /\ [Next]_vars => [Promised!Next]_<<Cached, lastTS, notified>>
  BY StepSimulated
<1>3. QED BY <1>1, <1>2, Invariance, PTL DEF Spec, ImplementsDelivery, Promised!Spec

-----------------------------------------------------------------------------
(***************************************************************************)
(* What a backfill recovers.  RecoveredTail and AboveWatermarkRecovered    *)
(* speak of a worker that is done; while it persists, what it will recover *)
(* is in its page, and what was posted after its fetch is on its way on    *)
(* the socket.  A connect that is still to come has no worker, and a       *)
(* watermark, once read, stays below what the cache has.                   *)
(***************************************************************************)

\* Slack's readable top-level messages of a channel, and those later than one of them.
TopsOf(c) == {t \in top : home[t] = c /\ srv[t] \in Readable}
Later(c, t) == {u \in top : home[u] = c /\ u > t /\ srv[u] # Absent}

\* On its way on the socket, to be written when it is read.
Coming(t) == \E i \in 1 .. Len(stream) : stream[i].ts = t /\ stream[i].rev \in Readable

Caught(k, c) ==
    \A t \in TopsOf(c) :
        /\ t <= Watermark(c) \/ (\E r \in page[k][c] : t <= r.ts) \/ Coming(t)
        /\ t > wm[k][c] =>
              \/ t \in Cached \/ (\E r \in page[k][c] : t = r.ts) \/ Coming(t)
              \/ Cardinality(Later(c, t)) >= FetchCap

Working == {"persist", "done"}

WorkerInv ==
    /\ \A k \in Conns, c \in Channels :
          /\ wm[k][c] <= Watermark(c)
          /\ \A r \in page[k][c] : home[r.ts] = c
          /\ job[k][c] # "persist" => page[k][c] = {}
    /\ \A k \in Conns :
          /\ run[k] # "workers" => \A c \in Channels : job[k][c] = "off"
          /\ k > conns => run[k] = "none"

CaughtInv ==
    \A k \in Conns, c \in Channels :
        (k = conns /\ sock /\ job[k][c] \in Working) => Caught(k, c)

RecoverInv == TypeOK /\ WorkerInv /\ CaughtInv

LEMMA CachedTyped == \A c \in Channels : CachedIn(c) \in SUBSET TS /\ Cached \in SUBSET TS
BY DEF CachedIn, Cached

\* A channel's watermark is a bound of what is cached of it, and only rises.
LEMMA WatermarkBounds ==
    ASSUME TypeOK, NEW c \in Channels, NEW t \in Cached, home[t] = c
    PROVE  t <= Watermark(c)
<1>1. t \in CachedIn(c)
  BY DEF CachedIn
<1>2. QED BY <1>1, CachedTyped, NewestFact DEF Watermark

LEMMA WatermarkTyped == \A c \in Channels : Watermark(c) \in 0 .. MaxTS
BY CachedTyped, NewestFact DEF Watermark

LEMMA WatermarkRises ==
    ASSUME TypeOK, [Next]_vars, NEW c \in Channels
    PROVE  Watermark(c) <= Watermark(c)'
<1>1. UNCHANGED home
  BY DEF Next, Environment, Post, Edit, Delete, Connect, Drop, ReadLoop, OnMessage,
         OnMessageDeleted, GateExpires, Backfill, PassGate, ListCandidates, Worker,
         ReadWatermark, FetchHistory, FetchFails, PersistMessage, PollLoop, PollQuery,
         PollRow, Restart, vars, server
<1>2. \A t \in Cached : t \in Cached'
  BY CacheGrows
<1>3. CachedIn(c) \subseteq CachedIn(c)'
  BY <1>1, <1>2 DEF CachedIn
<1>4. CachedIn(c)' \in SUBSET TS
  BY DEF CachedIn, Cached
<1>5. \A S \in SUBSET TS : /\ Newest(S) \in 0 .. MaxTS
                           /\ S # {} => Newest(S) \in S
                           /\ \A u \in S : u <= Newest(S)
  BY NewestFact
<1>6. Newest(CachedIn(c)) <= Newest(CachedIn(c)')
  <2>1. CASE CachedIn(c) = {}
    <3>1. Newest(CachedIn(c)) = 0 /\ Newest(CachedIn(c)') \in 0 .. MaxTS
      BY <1>4, <1>5, <2>1 DEF Newest
    <3>2. QED BY <3>1, BoundsAssumption
  <2>2. CASE CachedIn(c) # {}
    <3>1. Newest(CachedIn(c)) \in CachedIn(c)
      BY <1>5, <2>2, CachedTyped
    <3>2. QED BY <1>3, <1>4, <1>5, <3>1
  <2>3. QED BY <2>1, <2>2
<1>7. Watermark(c) = Newest(CachedIn(c)) /\ Watermark(c)' = Newest(CachedIn(c)')
  BY DEF Watermark, Newest
<1>8. QED BY <1>6, <1>7

LEMMA WatermarkTypedNext == \A c \in Channels : Watermark(c)' \in 0 .. MaxTS
<1> SUFFICES ASSUME NEW c \in Channels PROVE Watermark(c)' \in 0 .. MaxTS
  OBVIOUS
<1>1. CachedIn(c)' \in SUBSET TS
  BY DEF CachedIn, Cached
<1>2. Watermark(c)' = Newest(CachedIn(c)')
  BY DEF Watermark, Newest
<1>3. QED BY <1>1, <1>2, NewestFact

LEMMA FiniteTS == IsFiniteSet(TS)
<1>1. MaxTS \in Int
  BY BoundsAssumption
<1>2. QED BY <1>1, FS_Interval DEF TS

\* The later messages are finitely many, and only become more.
LEMMA LaterFinite ==
    ASSUME TypeOK, NEW c \in Channels, NEW t \in TS
    PROVE  IsFiniteSet(Later(c, t)) /\ Cardinality(Later(c, t)) \in Nat
<1>1. Later(c, t) \in SUBSET TS
  BY DEF Later, TypeOK
<1>2. QED BY <1>1, FiniteTS, FS_Subset, FS_CardinalityType

\* What a worker has caught stays caught, when nothing it counts on is lost: a row of its
\* page is written, an event is written or waits, and what becomes readable is on its way.
LEMMA CaughtStays ==
    ASSUME TypeOK, TypeOK', NEW k \in Conns, NEW c \in Channels, Caught(k, c),
           \A r \in page[k][c] : home[r.ts] = c,
           UNCHANGED <<home, top>>, wm'[k][c] = wm[k][c],
           \A t \in Cached : t \in Cached',
           Watermark(c) <= Watermark(c)',
           \A t \in TS : srv[t] # Absent => srv'[t] # Absent,
           \A t \in TS : srv'[t] \in Readable => srv[t] \in Readable \/ Coming(t)',
           \A t \in TS : Coming(t) => Coming(t)' \/ t \in Cached',
           \A r \in page[k][c] : r \in page'[k][c] \/ r.ts \in Cached'
    PROVE  Caught(k, c)'
<1> SUFFICES ASSUME NEW t \in TopsOf(c)'
             PROVE  /\ t <= Watermark(c)' \/ (\E r \in page'[k][c] : t <= r.ts) \/ Coming(t)'
                    /\ t > wm'[k][c] =>
                          \/ t \in Cached' \/ (\E r \in page'[k][c] : t = r.ts) \/ Coming(t)'
                          \/ Cardinality(Later(c, t)') >= FetchCap
  BY DEF Caught
<1>1. t \in TS /\ t \in top /\ home[t] = c /\ srv'[t] \in Readable /\ t \in Nat
  BY DEF TopsOf, TypeOK, TS
<1>2. \A u \in Cached' : home[u] = c => u <= Watermark(c)'
  <2>1. \A u \in Cached' : u \in CachedIn(c)' \/ home[u] # c
    BY DEF CachedIn
  <2>2. CachedIn(c)' \in SUBSET TS
    BY DEF CachedIn, Cached
  <2>3. Watermark(c)' = Newest(CachedIn(c)')
    BY DEF Watermark, Newest
  <2>4. \A u \in CachedIn(c)' : u <= Newest(CachedIn(c)')
    BY <2>2, NewestFact
  <2>5. QED BY <2>1, <2>3, <2>4
<1>3. Watermark(c) \in Nat /\ Watermark(c)' \in Nat
  <2>1. CachedIn(c)' \in SUBSET TS
    BY DEF CachedIn, Cached
  <2>2. Watermark(c)' = Newest(CachedIn(c)')
    BY DEF Watermark, Newest
  <2>3. Watermark(c)' \in 0 .. MaxTS /\ Watermark(c) \in 0 .. MaxTS
    BY <2>1, <2>2, NewestFact, WatermarkTyped
  <2>4. QED BY <2>3, BoundsAssumption
<1>4. CASE Coming(t)'
  BY <1>4
<1>5. CASE srv[t] \in Readable
  <2>1. /\ t <= Watermark(c) \/ (\E r \in page[k][c] : t <= r.ts) \/ Coming(t)
        /\ t > wm[k][c] =>
              \/ t \in Cached \/ (\E r \in page[k][c] : t = r.ts) \/ Coming(t)
              \/ Cardinality(Later(c, t)) >= FetchCap
    BY <1>1, <1>5 DEF Caught, TopsOf
  <2>2. t <= Watermark(c)' \/ (\E r \in page'[k][c] : t <= r.ts) \/ Coming(t)'
    <3>1. CASE t <= Watermark(c)
      BY <3>1, <1>1, <1>3
    <3>2. ASSUME NEW r \in page[k][c], t <= r.ts, r.ts \in Cached'
          PROVE  t <= Watermark(c)'
      <4>1. r.ts <= Watermark(c)' /\ r.ts \in Nat
        BY <3>2, <1>2 DEF TypeOK, Row, TS
      <4>2. QED BY <3>2, <4>1, <1>1, <1>3
    <3>3. CASE Coming(t)
      BY <3>3, <1>1, <1>2
    <3>4. QED BY <2>1, <3>1, <3>2, <3>3
  <2>3. ASSUME t > wm'[k][c]
        PROVE  \/ t \in Cached' \/ (\E r \in page'[k][c] : t = r.ts) \/ Coming(t)'
               \/ Cardinality(Later(c, t)') >= FetchCap
    <3>1. CASE Cardinality(Later(c, t)) >= FetchCap
      <4>1. Later(c, t) \subseteq Later(c, t)' /\ Later(c, t)' \in SUBSET TS
        BY DEF Later, TypeOK
      <4>2. IsFiniteSet(Later(c, t)')
        BY <4>1, FiniteTS, FS_Subset
      <4>3. /\ Cardinality(Later(c, t)) <= Cardinality(Later(c, t)')
            /\ Cardinality(Later(c, t)) \in Nat /\ Cardinality(Later(c, t)') \in Nat
        BY <4>1, <4>2, FS_Subset, FS_CardinalityType, LaterFinite, <1>1
      <4>4. QED BY <3>1, <4>3, BoundsAssumption
    <3>2. QED BY <2>1, <2>3, <3>1, <1>1
  <2>4. QED BY <2>2, <2>3
<1>6. QED BY <1>1, <1>4, <1>5

\* A fetch catches all that is above the watermark, or the newest FetchCap of it; what is
\* not above the watermark is not above the channel's newest cached row either.
LEMMA FetchCatches ==
    ASSUME TypeOK, WorkerInv, NEW k \in Conns, NEW c \in Channels, FetchHistory(k, c)
    PROVE  /\ Caught(k, c)' /\ \A r \in page'[k][c] : home[r.ts] = c
           /\ job'[k][c] # "persist" => page'[k][c] = {}
<1> DEFINE oldest == wm[k][c]
           full == {[ts |-> t, rev |-> srv[t]] :
                       t \in {u \in top : home[u] = c /\ u > oldest /\ srv[u] \in Readable}}
<1>1. /\ page'[k][c] = NewestRows(full, FetchCap)
      /\ job'[k][c] = IF NewestRows(full, FetchCap) = {} THEN "done" ELSE "persist"
      /\ UNCHANGED <<home, top, srv, sock, stream, conns, cache, wm>>
  BY DEF FetchHistory, History, TypeOK, server, socket
<1>2. \A q \in full : /\ q.ts \in TS /\ q.ts \in Nat /\ q.ts \in top /\ home[q.ts] = c
                      /\ q.ts > oldest /\ srv[q.ts] \in Readable
                      /\ q = [ts |-> q.ts, rev |-> srv[q.ts]]
  BY DEF TypeOK, TS
<1>3. \A t \in TopsOf(c) : t > oldest => [ts |-> t, rev |-> srv[t]] \in full
  BY DEF TopsOf
<1> HIDE DEF full
<1>4. ASSUME NEW t \in TopsOf(c), t > oldest
      PROVE  \/ \E r \in page'[k][c] : t = r.ts
             \/ Cardinality(Later(c, t)) >= FetchCap
  <2> DEFINE r == [ts |-> t, rev |-> srv[t]]
             above == {q \in full : q.ts > r.ts}
             f == [q \in above |-> q.ts]
  <2>1. r \in full /\ r.ts = t /\ t \in TS
    BY <1>3, <1>4 DEF TopsOf, TypeOK
  <2>2. f \in Injection(above, Later(c, t))
    <3>1. \A q \in above : q.ts \in Later(c, t)
      BY <1>2, <2>1 DEF Later, Readable, Posted, Edited, Absent
    <3>2. \A p, q \in above : p.ts = q.ts => p = q
      BY <1>2
    <3> HIDE DEF above, r
    <3>3. f \in [above -> Later(c, t)]
      BY <3>1
    <3>4. QED BY <3>2, <3>3 DEF Injection, IsInjective
  <2>3. Cardinality(above) <= Cardinality(Later(c, t)) /\ IsFiniteSet(above)
    <3> HIDE DEF f, above
    <3>1. QED BY <2>1, <2>2, LaterFinite, FS_Injection
  <2>4. Cardinality(above) \in Nat /\ Cardinality(Later(c, t)) \in Nat
    <3> HIDE DEF f, above
    <3>1. QED BY <2>1, <2>3, LaterFinite, FS_CardinalityType
  <2>5. CASE Cardinality(above) < FetchCap
    <3>1. r \in NewestRows(full, FetchCap)
      BY <2>1, <2>5 DEF NewestRows
    <3>2. QED BY <1>1, <2>1, <3>1
  <2>6. CASE ~ (Cardinality(above) < FetchCap)
    <3> HIDE DEF above
    <3>1. QED BY <2>3, <2>4, <2>6, BoundsAssumption
  <2>7. QED BY <2>5, <2>6
<1>5. ASSUME NEW t \in TopsOf(c), t > oldest
      PROVE  \E r \in page'[k][c] : t <= r.ts
  <2> DEFINE stamps == {q.ts : q \in full}
  <2>1. stamps \in SUBSET TS /\ t \in stamps
    BY <1>2, <1>3, <1>5
  <2>2. PICK s \in stamps : \A u \in stamps : u <= s
    BY <2>1, NewestExists
  <2>3. PICK r \in full : r.ts = s
    BY <2>2
  <2>4. {q \in full : q.ts > r.ts} = {}
    BY <1>2, <2>2, <2>3
  <2>5. r \in NewestRows(full, FetchCap)
    <3>1. Cardinality({q \in full : q.ts > r.ts}) = 0
      BY <2>4, FS_EmptySet
    <3>2. QED BY <3>1, <2>3, BoundsAssumption DEF NewestRows
  <2>6. QED BY <1>1, <2>1, <2>2, <2>3, <2>5
<1>6. Caught(k, c)'
  <2>1. Watermark(c)' = Watermark(c) /\ Cached' = Cached /\ TopsOf(c)' = TopsOf(c)
    BY <1>1 DEF Watermark, Newest, CachedIn, Cached, TopsOf
  <2>2. \A t \in TopsOf(c) : Later(c, t)' = Later(c, t)
    BY <1>1 DEF Later
  <2>3. ASSUME NEW t \in TopsOf(c), ~ (t > oldest)
        PROVE  t <= Watermark(c)
    <3>1. oldest <= Watermark(c) /\ oldest \in Nat /\ Watermark(c) \in Nat /\ t \in Nat
      BY WatermarkTyped, BoundsAssumption DEF WorkerInv, TypeOK, TopsOf, TS
    <3>2. QED BY <2>3, <3>1
  <2>4. wm'[k][c] = oldest
    BY <1>1
  <2> HIDE DEF oldest
  <2>5. QED BY <1>1, <1>4, <1>5, <2>1, <2>2, <2>3, <2>4 DEF Caught
<1>7. \A r \in page'[k][c] : home[r.ts] = c
  BY <1>1, <1>2 DEF NewestRows
<1>8. QED BY <1>1, <1>6, <1>7

\* Steps that leave what Slack has, the socket and the cache alone, and every page, and
\* let no worker begin to persist.
LEMMA QuietKeepsCaught ==
    ASSUME RecoverInv, TypeOK', [Next]_vars,
           UNCHANGED <<home, top, srv, sock, stream, conns, cache, page>>,
           \A k \in Conns, c \in Channels :
               job'[k][c] \in Working => job[k][c] = job'[k][c] /\ wm'[k][c] = wm[k][c]
    PROVE  CaughtInv'
<1> SUFFICES ASSUME NEW k \in Conns, NEW c \in Channels, k = conns, sock, job'[k][c] \in Working
             PROVE  Caught(k, c)'
  BY DEF CaughtInv
<1>1. Caught(k, c) /\ wm'[k][c] = wm[k][c] /\ \A r \in page[k][c] : home[r.ts] = c
  BY DEF RecoverInv, CaughtInv, WorkerInv
<1>2. \A t \in TS : Coming(t)' = Coming(t)
  BY DEF Coming
<1>3. Watermark(c) <= Watermark(c)' /\ Cached' = Cached
  BY WatermarkRises DEF RecoverInv, Cached
<1>4. QED BY <1>1, <1>2, <1>3, CaughtStays DEF RecoverInv

\* Slack changes a message and says so, if the socket is up.
LEMMA ChangeKeepsCaught ==
    ASSUME RecoverInv, TypeOK', [Next]_vars, NEW t \in TS, NEW rev \in {Posted, Edited, Deleted},
           srv' = [srv EXCEPT ![t] = rev], Send(t, rev),
           UNCHANGED <<home, top, sock, conns, cache, job, wm, page>>
    PROVE  CaughtInv'
<1> SUFFICES ASSUME NEW k \in Conns, NEW c \in Channels, k = conns, sock, job[k][c] \in Working
             PROVE  Caught(k, c)'
  BY DEF CaughtInv
<1>1. Caught(k, c) /\ \A r \in page[k][c] : home[r.ts] = c
  BY DEF RecoverInv, CaughtInv, WorkerInv
<1>2. stream' = Append(stream, [ts |-> t, rev |-> rev]) /\ stream \in Seq(Event)
  BY DEF Send, RecoverInv, TypeOK
<1>3. /\ Len(stream') = Len(stream) + 1 /\ Len(stream) \in Nat
      /\ \A i \in 1 .. Len(stream) : stream'[i] = stream[i]
      /\ stream'[Len(stream) + 1] = [ts |-> t, rev |-> rev]
  BY <1>2, AppendProperties
<1>4. \A u \in TS : Coming(u) => Coming(u)'
  BY <1>3 DEF Coming
<1>5. rev \in Readable => Coming(t)'
  <2>1. Len(stream) + 1 \in 1 .. Len(stream')
    BY <1>3
  <2>2. QED BY <1>3, <2>1 DEF Coming
<1>6. \A u \in TS : srv'[u] = IF u = t THEN rev ELSE srv[u]
  BY DEF RecoverInv, TypeOK, RevFn
<1>7. \A u \in TS : srv'[u] \in Readable => srv[u] \in Readable \/ Coming(u)'
  BY <1>5, <1>6
<1>8. \A u \in TS : srv[u] # Absent => srv'[u] # Absent
  BY <1>6 DEF Posted, Edited, Deleted, Absent
<1>9. Watermark(c) <= Watermark(c)' /\ Cached' = Cached
  BY WatermarkRises DEF RecoverInv, Cached
<1>10. QED BY <1>1, <1>4, <1>7, <1>8, <1>9, CaughtStays DEF RecoverInv

\* The read loop writes the event it takes from the socket, or buries its row.
LEMMA ReadKeepsCaught ==
    ASSUME RecoverInv, TypeOK', [Next]_vars, ReadLoop
    PROVE  CaughtInv'
<1>1. /\ UNCHANGED <<home, top, srv, sock, conns, job, wm, page>>
      /\ stream # <<>> /\ stream' = Tail(stream) /\ stream \in Seq(Event)
  BY DEF ReadLoop, OnMessage, OnMessageDeleted, server, backfills, RecoverInv, TypeOK
<1> SUFFICES ASSUME NEW k \in Conns, NEW c \in Channels, k = conns, sock, job[k][c] \in Working
             PROVE  Caught(k, c)'
  BY <1>1 DEF CaughtInv
<1>2. Caught(k, c) /\ \A r \in page[k][c] : home[r.ts] = c
  BY DEF RecoverInv, CaughtInv, WorkerInv
<1>3. Head(stream) \in Event /\ Head(stream) = stream[1]
  BY <1>1, HeadTailProperties
<1>4. /\ Len(stream) \in Nat \ {0} /\ Len(stream') = Len(stream) - 1
      /\ \A i \in 1 .. Len(stream') : stream'[i] = stream[i + 1]
  <2>1. Len(stream) \in Nat /\ Len(stream) # 0
    BY <1>1, EmptySeq, LenProperties
  <2>2. QED BY <1>1, <2>1, HeadTailProperties
<1>5. Head(stream).rev \in Readable => Head(stream).ts \in Cached'
  <2>1. ASSUME Head(stream).rev \in Readable
        PROVE  UpsertMessage(Head(stream).ts, Head(stream).rev)
    <3>1. ~ OnMessageDeleted
      <4>1. OnMessageDeleted => Head(stream).rev = Deleted
        BY Zenon DEF OnMessageDeleted
      <4>2. QED BY <2>1, <4>1 DEF Readable, Posted, Edited, Deleted
    <3>2. QED BY <3>1 DEF ReadLoop, OnMessage
  <2>2. Head(stream).ts \in TS
    BY <1>3 DEF Event
  <2>3. QED BY <2>1, <2>2, UpsertStores DEF RecoverInv
<1>6. \A t \in TS : Coming(t) => Coming(t)' \/ t \in Cached'
  <2> SUFFICES ASSUME NEW t \in TS, NEW i \in 1 .. Len(stream),
                      stream[i].ts = t, stream[i].rev \in Readable
               PROVE  Coming(t)' \/ t \in Cached'
    BY DEF Coming
  <2>1. CASE i = 1
    BY <1>3, <1>5, <2>1
  <2>2. CASE i # 1
    <3>1. i - 1 \in 1 .. Len(stream') /\ (i - 1) + 1 = i
      BY <1>4, <2>2
    <3>2. stream'[i - 1] = stream[i]
      BY <1>4, <3>1
    <3>3. QED BY <3>1, <3>2 DEF Coming
  <2>3. QED BY <2>1, <2>2
<1>7. Watermark(c) <= Watermark(c)' /\ \A t \in Cached : t \in Cached'
  BY WatermarkRises, CacheGrows DEF RecoverInv
<1>8. QED BY <1>1, <1>2, <1>6, <1>7, CaughtStays DEF RecoverInv

\* A worker writes a row of its page: what the page promised is then in the cache.
LEMMA PersistKeeps ==
    ASSUME RecoverInv, TypeOK', [Next]_vars, NEW k \in Conns, NEW c \in Channels,
           PersistMessage(k, c)
    PROVE  RecoverInv'
<1>1. PICK r \in page[k][c] :
         /\ UpsertMessage(r.ts, r.rev)
         /\ page' = [page EXCEPT ![k][c] = @ \ {r}]
         /\ job' = [job EXCEPT ![k][c] = IF page[k][c] = {r} THEN "done" ELSE "persist"]
  BY DEF PersistMessage
<1>2. /\ job[k][c] = "persist"
      /\ UNCHANGED <<home, top, srv, sock, stream, conns, run, wm>>
  BY DEF PersistMessage, server, socket
<1>3. r.ts \in TS /\ r.rev \in Readable
  BY <1>1 DEF RecoverInv, TypeOK, Row
<1>4. r.ts \in Cached'
  BY <1>1, <1>3, UpsertStores DEF RecoverInv
<1>5. \A j \in Conns, d \in Channels :
         /\ page'[j][d] = IF j = k /\ d = c THEN page[k][c] \ {r} ELSE page[j][d]
         /\ job'[j][d] = IF j = k /\ d = c
                         THEN IF page[k][c] = {r} THEN "done" ELSE "persist" ELSE job[j][d]
  <2>1. \E P : page \in [Conns -> [Channels -> P]]
    BY DEF RecoverInv, TypeOK
  <2>2. \E P : job \in [Conns -> [Channels -> P]]
    BY DEF RecoverInv, TypeOK
  <2>3. QED BY <1>1, <2>1, <2>2
<1>6. WorkerInv'
  <2>1. ASSUME NEW j \in Conns, NEW d \in Channels
        PROVE  /\ wm'[j][d] <= Watermark(d)'
               /\ \A q \in page'[j][d] : home'[q.ts] = d
               /\ job'[j][d] # "persist" => page'[j][d] = {}
    <3>1. wm'[j][d] <= Watermark(d)'
      <4>1. Watermark(d) <= Watermark(d)' /\ wm[j][d] <= Watermark(d)
        BY WatermarkRises DEF RecoverInv, WorkerInv
      <4>2. Watermark(d) \in Nat /\ wm[j][d] \in Nat /\ Watermark(d)' \in Nat
        <5>1. Watermark(d)' \in 0 .. MaxTS /\ Watermark(d) \in 0 .. MaxTS /\ wm[j][d] \in 0 .. MaxTS
          BY WatermarkTyped, WatermarkTypedNext DEF RecoverInv, TypeOK
        <5>2. QED BY <5>1, BoundsAssumption
      <4>3. QED BY <1>2, <4>1, <4>2
    <3>2. QED BY <1>2, <1>5, <3>1 DEF RecoverInv, WorkerInv
  <2>2. ASSUME NEW j \in Conns
        PROVE  /\ run'[j] # "workers" => \A d \in Channels : job'[j][d] = "off"
               /\ j > conns' => run'[j] = "none"
    <3>1. run[k] = "workers"
      BY <1>2 DEF RecoverInv, WorkerInv
    <3>2. QED BY <1>2, <1>5, <3>1 DEF RecoverInv, WorkerInv
  <2>3. QED BY <2>1, <2>2 DEF WorkerInv
<1>7. CaughtInv'
  <2> SUFFICES ASSUME NEW j \in Conns, NEW d \in Channels, j = conns, sock, job'[j][d] \in Working
               PROVE  Caught(j, d)'
    BY <1>2 DEF CaughtInv
  <2>1. job[j][d] \in Working
    BY <1>2, <1>5 DEF Working
  <2>2. Caught(j, d) /\ \A q \in page[j][d] : home[q.ts] = d
    BY <2>1 DEF RecoverInv, CaughtInv, WorkerInv
  <2>3. \A q \in page[j][d] : q \in page'[j][d] \/ q.ts \in Cached'
    BY <1>4, <1>5
  <2>4. \A t \in TS : Coming(t)' = Coming(t)
    BY <1>2 DEF Coming
  <2>5. Watermark(d) <= Watermark(d)' /\ \A t \in Cached : t \in Cached'
    BY WatermarkRises, CacheGrows DEF RecoverInv
  <2>6. QED BY <1>2, <2>2, <2>3, <2>4, <2>5, CaughtStays DEF RecoverInv
<1>8. QED BY <1>6, <1>7 DEF RecoverInv

\* Steps that touch neither run nor page, and change a worker's phase between those that
\* hold no page.
LEMMA WorkersStay ==
    ASSUME RecoverInv, [Next]_vars, UNCHANGED <<home, run, page, conns>>,
           \A k \in Conns, c \in Channels :
               /\ job'[k][c] = job[k][c] \/ (run[k] = "workers" /\ page[k][c] = {})
               /\ wm'[k][c] = wm[k][c] \/ wm'[k][c] = Watermark(c)
    PROVE  WorkerInv'
<1>1. ASSUME NEW k \in Conns, NEW c \in Channels
      PROVE  wm'[k][c] <= Watermark(c)'
  <2>1. Watermark(c) <= Watermark(c)' /\ wm[k][c] <= Watermark(c)
    BY WatermarkRises DEF RecoverInv, WorkerInv
  <2>2. /\ Watermark(c)' \in 0 .. MaxTS /\ Watermark(c) \in 0 .. MaxTS /\ wm[k][c] \in 0 .. MaxTS
    BY WatermarkTyped, WatermarkTypedNext DEF RecoverInv, TypeOK
  <2>3. wm'[k][c] = wm[k][c] \/ wm'[k][c] = Watermark(c)
    OBVIOUS
  <2>4. QED BY <2>1, <2>2, <2>3, BoundsAssumption
<1>2. ASSUME NEW k \in Conns, NEW c \in Channels
      PROVE  /\ \A r \in page'[k][c] : home'[r.ts] = c
             /\ job'[k][c] # "persist" => page'[k][c] = {}
  BY DEF RecoverInv, WorkerInv
<1>3. ASSUME NEW k \in Conns
      PROVE  /\ run'[k] # "workers" => \A c \in Channels : job'[k][c] = "off"
             /\ k > conns' => run'[k] = "none"
  BY DEF RecoverInv, WorkerInv
<1>4. QED BY <1>1, <1>2, <1>3 DEF WorkerInv

\* Slack and the network.
LEMMA EnvironmentRecovers ==
    ASSUME RecoverInv, TypeOK', Environment
    PROVE  RecoverInv'
<1>0. [Next]_vars
  BY DEF Next
<1>1. ASSUME NEW t \in TS, Post(t) \/ Edit(t) \/ Delete(t)
      PROVE  RecoverInv'
  <2>1. PICK rev \in {Posted, Edited, Deleted} : srv' = [srv EXCEPT ![t] = rev] /\ Send(t, rev)
    BY <1>1 DEF Post, Edit, Delete
  <2>2. UNCHANGED <<home, top, sock, conns, cache, job, wm, page, run>>
    BY <1>1 DEF Post, Edit, Delete, backfills
  <2>3. CaughtInv'
    BY <1>0, <2>1, <2>2, ChangeKeepsCaught
  <2>4. WorkerInv'
    BY <1>0, <2>2, WorkersStay
  <2>5. QED BY <2>3, <2>4 DEF RecoverInv
<1>2. CASE Connect
  <2>1. /\ UNCHANGED <<home, job, wm, page, cache>> /\ conns' = conns + 1 /\ conns \in Nat
        /\ run' = [run EXCEPT ![conns + 1] = "gate"]
    BY <1>2 DEF Connect, server, RecoverInv, TypeOK
  <2>2. \A k \in Conns : k > conns => \A c \in Channels : job[k][c] = "off"
    BY DEF RecoverInv, WorkerInv
  <2>3. CaughtInv'
    BY <2>1, <2>2 DEF CaughtInv, Working
  <2>4. \A c \in Channels : Watermark(c)' = Watermark(c)
    BY <2>1 DEF Watermark, CachedIn, Cached, Newest
  <2>5. \A k \in Conns : run'[k] = IF k = conns + 1 THEN "gate" ELSE run[k]
    BY <2>1 DEF RecoverInv, TypeOK
  <2>6. ASSUME NEW k \in Conns
        PROVE  /\ run'[k] # "workers" => \A c \in Channels : job'[k][c] = "off"
               /\ k > conns' => run'[k] = "none"
    <3>1. k \in Nat
      BY BoundsAssumption DEF Conns
    <3>2. CASE k = conns + 1
      BY <2>1, <2>2, <3>1, <3>2
    <3>3. CASE k # conns + 1
      BY <2>1, <2>5, <3>1, <3>3 DEF RecoverInv, WorkerInv
    <3>4. QED BY <3>2, <3>3
  <2>7. QED BY <2>1, <2>3, <2>4, <2>6 DEF RecoverInv, WorkerInv
<1>3. CASE Drop
  <2>1. UNCHANGED <<home, run, page, conns, job, wm>> /\ sock' = FALSE
    BY <1>3 DEF Drop, server, backfills
  <2>2. QED BY <1>0, <2>1, WorkersStay DEF RecoverInv, CaughtInv
<1>4. QED BY <1>1, <1>2, <1>3 DEF Environment

\* The backfill goroutines.
LEMMA BackfillRecovers ==
    ASSUME RecoverInv, TypeOK', NEW k \in Conns, Backfill(k)
    PROVE  RecoverInv'
<1>0. [Next]_vars
  BY DEF Next
<1>1. CASE PassGate(k) \/ ListCandidates(k)
  <2>1. UNCHANGED <<home, top, srv, sock, stream, conns, cache, page, wm>>
    BY <1>1 DEF PassGate, ListCandidates, server, socket
  <2>2. /\ run[k] \in {"gate", "counts"}
        /\ \A j \in Conns : j # k => run'[j] = run[j] /\ job'[j] = job[j]
        /\ run'[k] # "workers" => job'[k] = job[k]
        /\ \A c \in Channels : job'[k][c] = job[k][c] \/ job'[k][c] \in {"mark", "off"}
    BY <1>1 DEF PassGate, ListCandidates, RecoverInv, TypeOK
  <2>3. \A c \in Channels : job[k][c] = "off" /\ page[k][c] = {}
    BY <2>2 DEF RecoverInv, WorkerInv
  <2>4. CaughtInv'
    <3>1. \A j \in Conns, c \in Channels : job'[j][c] \in Working => job[j][c] = job'[j][c]
      BY <2>2, <2>3 DEF Working
    <3>2. QED BY <1>0, <2>1, <3>1, QuietKeepsCaught
  <2>5. \A c \in Channels : Watermark(c)' = Watermark(c)
    BY <2>1 DEF Watermark, CachedIn, Cached, Newest
  <2>6. WorkerInv'
    <3>1. ASSUME NEW j \in Conns, NEW c \in Channels
          PROVE  /\ wm'[j][c] <= Watermark(c)' /\ \A r \in page'[j][c] : home'[r.ts] = c
                 /\ job'[j][c] # "persist" => page'[j][c] = {}
      BY <2>1, <2>2, <2>3, <2>5 DEF RecoverInv, WorkerInv
    <3>2. ASSUME NEW j \in Conns
          PROVE  /\ run'[j] # "workers" => \A c \in Channels : job'[j][c] = "off"
                 /\ j > conns' => run'[j] = "none"
      BY <2>1, <2>2, <2>3 DEF RecoverInv, WorkerInv
    <3>3. QED BY <3>1, <3>2 DEF WorkerInv
  <2>7. QED BY <2>4, <2>6 DEF RecoverInv
<1>2. ASSUME NEW c \in Channels, ReadWatermark(k, c) \/ FetchFails(k, c)
      PROVE  RecoverInv'
  <2>1. /\ UNCHANGED <<home, top, srv, sock, stream, conns, cache, page, run>>
        /\ job[k][c] \in {"mark", "fetch"}
        /\ \A j \in Conns, d \in Channels :
              /\ job'[j][d] = IF j = k /\ d = c THEN job'[k][c] ELSE job[j][d]
              /\ wm'[j][d] = wm[j][d] \/ (j = k /\ d = c /\ wm'[j][d] = Watermark(d))
        /\ job'[k][c] \in {"fetch", "failed"}
    BY <1>2 DEF ReadWatermark, FetchFails, server, socket, RecoverInv, TypeOK
  <2>2. run[k] = "workers" /\ page[k][c] = {}
    BY <2>1 DEF RecoverInv, WorkerInv
  <2>3. CaughtInv'
    <3>1. \A j \in Conns, d \in Channels :
             job'[j][d] \in Working => job[j][d] = job'[j][d] /\ wm'[j][d] = wm[j][d]
      BY <2>1 DEF Working
    <3>2. QED BY <1>0, <2>1, <3>1, QuietKeepsCaught
  <2>4. WorkerInv'
    <3>1. \A j \in Conns, d \in Channels :
             /\ job'[j][d] = job[j][d] \/ (run[j] = "workers" /\ page[j][d] = {})
             /\ wm'[j][d] = wm[j][d] \/ wm'[j][d] = Watermark(d)
      BY <2>1, <2>2
    <3>2. QED BY <1>0, <2>1, <3>1, WorkersStay
  <2>5. QED BY <2>3, <2>4 DEF RecoverInv
<1>3. ASSUME NEW c \in Channels, FetchHistory(k, c)
      PROVE  RecoverInv'
  <2>1. /\ UNCHANGED <<home, top, srv, sock, stream, conns, cache, run, wm>>
        /\ job[k][c] = "fetch"
        /\ \A j \in Conns, d \in Channels : ~ (j = k /\ d = c) =>
              job'[j][d] = job[j][d] /\ page'[j][d] = page[j][d]
    BY <1>3 DEF FetchHistory, server, socket, RecoverInv, TypeOK
  <2>2. /\ Caught(k, c)' /\ \A r \in page'[k][c] : home[r.ts] = c
        /\ job'[k][c] # "persist" => page'[k][c] = {}
    BY <1>3, FetchCatches DEF RecoverInv
  <2>3. run[k] = "workers"
    BY <2>1 DEF RecoverInv, WorkerInv
  <2>4. \A d \in Channels : Watermark(d)' = Watermark(d)
    BY <2>1 DEF Watermark, CachedIn, Cached, Newest
  <2>5. WorkerInv'
    <3>1. ASSUME NEW j \in Conns, NEW d \in Channels
          PROVE  /\ wm'[j][d] <= Watermark(d)' /\ \A r \in page'[j][d] : home'[r.ts] = d
                 /\ job'[j][d] # "persist" => page'[j][d] = {}
      BY <2>1, <2>2, <2>4 DEF RecoverInv, WorkerInv
    <3>2. ASSUME NEW j \in Conns
          PROVE  /\ run'[j] # "workers" => \A d \in Channels : job'[j][d] = "off"
                 /\ j > conns' => run'[j] = "none"
      BY <2>1, <2>3 DEF RecoverInv, WorkerInv
    <3>3. QED BY <3>1, <3>2 DEF WorkerInv
  <2>6. ASSUME NEW j \in Conns, NEW d \in Channels, j = conns, sock, job'[j][d] \in Working
        PROVE  Caught(j, d)'
    <3>1. CASE j = k /\ d = c
      BY <2>2, <3>1
    <3>2. CASE ~ (j = k /\ d = c)
      <4>1. Caught(j, d) /\ \A r \in page[j][d] : home[r.ts] = d
        BY <2>1, <2>6, <3>2 DEF RecoverInv, CaughtInv, WorkerInv
      <4>2. \A t \in TS : Coming(t)' = Coming(t)
        BY <2>1 DEF Coming
      <4>3. Watermark(d) <= Watermark(d)' /\ Cached' = Cached
        BY <2>1, <1>0, WatermarkRises DEF RecoverInv, Cached
      <4>4. QED BY <2>1, <3>2, <4>1, <4>2, <4>3, CaughtStays DEF RecoverInv
    <3>3. QED BY <3>1, <3>2
  <2>7. QED BY <2>1, <2>5, <2>6 DEF RecoverInv, CaughtInv
<1>4. ASSUME NEW c \in Channels, PersistMessage(k, c)
      PROVE  RecoverInv'
  BY <1>0, <1>4, PersistKeeps
<1>5. QED BY <1>1, <1>2, <1>3, <1>4 DEF Backfill, Worker

LEMMA NextRecovers == RecoverInv /\ [Next]_vars => RecoverInv'
<1> SUFFICES ASSUME RecoverInv, [Next]_vars PROVE RecoverInv'
  OBVIOUS
<1>1. TypeOK'
  BY NextTyped DEF RecoverInv
<1>2. CASE Environment
  BY <1>1, <1>2, EnvironmentRecovers
<1>3. CASE ReadLoop
  <2>1. UNCHANGED <<home, run, page, conns, job, wm>>
    BY <1>3 DEF ReadLoop, OnMessage, OnMessageDeleted, server, backfills
  <2>2. QED BY <1>1, <1>3, <2>1, ReadKeepsCaught, WorkersStay DEF RecoverInv
<1>4. CASE GateExpires \/ PollLoop \/ UNCHANGED vars
  <2>1. UNCHANGED <<home, top, srv, sock, stream, conns, cache, run, job, wm, page>>
    BY <1>4 DEF GateExpires, PollLoop, PollQuery, PollRow, vars, server, socket, backfills
  <2>2. QED BY <1>1, <2>1, QuietKeepsCaught, WorkersStay DEF RecoverInv
<1>5. ASSUME NEW k \in Conns, Backfill(k) PROVE RecoverInv'
  BY <1>1, <1>5, BackfillRecovers
<1>6. CASE Restart
  <2>1. /\ UNCHANGED <<home, conns, cache, wm>> /\ sock' = FALSE
        /\ \A k \in Conns : /\ run'[k] = "none"
                            /\ \A c \in Channels : job'[k][c] = "off" /\ page'[k][c] = {}
    BY <1>6 DEF Restart, server
  <2>2. \A c \in Channels : Watermark(c)' = Watermark(c)
    BY <2>1 DEF Watermark, CachedIn, Cached, Newest
  <2>3. QED BY <1>1, <2>1, <2>2 DEF RecoverInv, WorkerInv, CaughtInv
<1>7. QED BY <1>2, <1>3, <1>4, <1>5, <1>6 DEF Next

LEMMA InitRecovers == Init => RecoverInv
<1> SUFFICES ASSUME Init PROVE RecoverInv
  OBVIOUS
<1>1. \A c \in Channels : Watermark(c) \in Nat
  BY WatermarkTyped, BoundsAssumption
<1>2. TypeOK
  BY InitTyped
<1>3. WorkerInv
  BY <1>1 DEF Init, WorkerInv
<1>4. QED BY <1>2, <1>3 DEF Init, RecoverInv, CaughtInv

\* Whatever connections, drops, restarts and failed fetches come, each worker's watermark is
\* a row or the history's start, and each that is done has in the table what its capped page
\* had to bring (backfill.go:12-16, 163-185; client.go:784-844).
THEOREM RecoverInvHolds == Spec => []RecoverInv
<1>1. QED BY InitRecovers, NextRecovers, PTL DEF Spec

\* A worker of the last connect that is done, with nothing on its way, has caught it all.
LEMMA DoneHasCaught ==
    ASSUME RecoverInv, NEW k \in Conns, NEW c \in Channels,
           k = conns, sock, stream = <<>>, job[k][c] = "done", NEW t \in TopsOf(c)
    PROVE  /\ t <= Watermark(c)
           /\ t > wm[k][c] => t \in Cached \/ Cardinality(Later(c, t)) >= FetchCap
<1>1. page[k][c] = {} /\ Caught(k, c)
  BY DEF RecoverInv, WorkerInv, CaughtInv, Working
<1>2. ~ Coming(t)
  <2>1. Len(stream) = 0
    OBVIOUS
  <2>2. QED BY <2>1 DEF Coming
<1>3. QED BY <1>1, <1>2 DEF Caught

\* For any capacity of a fetch: once the backfill of the last connect has done a channel
\* nothing readable is newer than its newest row (backfill.go:12-16).
THEOREM TailIsRecovered == Spec => []RecoveredTail
<1>1. RecoverInv => RecoveredTail
  BY DoneHasCaught DEF RecoveredTail, TopsOf
<1>2. QED BY <1>1, RecoverInvHolds, PTL

\* ... and what is above the watermark is in the cache, or enough was posted after it to
\* fill the fetch (backfill.go:12-16, 260-330).
THEOREM HolesAreLarge == Spec => []AboveWatermarkRecovered
<1>1. RecoverInv => AboveWatermarkRecovered
  <2> SUFFICES ASSUME RecoverInv, NEW k \in Conns, NEW c \in Channels,
                      k = conns, sock, stream = <<>>, job[k][c] = "done",
                      NEW t \in top, home[t] = c, srv[t] \in Readable, t > wm[k][c]
               PROVE  t \in Cached \/ Cardinality(Later(c, t)) >= FetchCap
    BY DEF AboveWatermarkRecovered, Later
  <2>1. t \in TopsOf(c)
    BY DEF TopsOf
  <2>2. QED BY <2>1, DoneHasCaught
<1>2. QED BY <1>1, RecoverInvHolds, PTL
=============================================================================
