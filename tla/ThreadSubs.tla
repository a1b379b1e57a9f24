------------------------------ MODULE ThreadSubs ------------------------------
(***************************************************************************)
(* Followed threads of one workspace: the table thread_subscriptions of    *)
(* cache.db against Slack's own list (internal/cache/                      *)
(* thread_subscriptions.go, backfill.go, wshandler.go, main.go).           *)
(*                                                                         *)
(* The read loop applies live events; a reconnect backfill lists Slack's   *)
(* subscriptions page by page and reconciles the table with the list; and  *)
(* every command of the user runs in a goroutine that mixes API calls and  *)
(* writes to the table: opening a thread, marking it read, unfollowing it, *)
(* and reacting in it, which makes Slack follow it by itself.              *)
(*                                                                         *)
(* Replies are numbered over the whole workspace in the order Slack gets   *)
(* them: a reply's number is its timestamp.                                *)
(***************************************************************************)
EXTENDS Naturals, Sequences, FiniteSets

CONSTANTS
    Threads,      \* thread roots
    Jobs,         \* backfills that list the subscriptions; they may overlap
    Tasks,        \* goroutines started by commands of the user
    MaxTS,        \* bound: replies, the threads' first ones included
    MaxChanges,   \* bound: follows, unfollows and reads in other clients
    MaxDrops,     \* bound: connections lost
    PageSize,     \* threads of one getView page (100)
    HardCap       \* threads a listing returns at most (1000)

ASSUME BoundsAssumption ==
    /\ MaxTS \in Nat /\ MaxChanges \in Nat /\ MaxDrops \in Nat
    /\ PageSize \in Nat \ {0} /\ HardCap \in Nat \ {0}

ASSUME ThreadsAssumption == IsFiniteSet(Threads) /\ Cardinality(Threads) <= MaxTS

TS == 0 .. MaxTS
Row == [at : {"none", "off", "active"}, lr : TS]
View == [t : Threads, lr : TS]
Event == [t : Threads, lr : TS, active : BOOLEAN, kind : {"marked", "changed"}]

VARIABLES
    clock,     \* replies posted so far
    newest,    \* newest reply of each thread
    sub,       \* threads Slack has the user follow
    mark,      \* Slack's last_read of each thread
    chosen,    \* threads the user chose to follow and has not unfollowed
    seen,      \* newest reply of each thread the user has read, in any client
    changes, drops,
    stream,    \* events on the socket, not read yet
    row,       \* thread_subscriptions
    job,       \* each listing: where it is
    cursor,    \* its current_ts
    views,     \* what it has collected
    steady,    \* threads followed and without replies since it began
    on,        \* thread of each task (fixed)
    task,      \* where each task is
    upto       \* reply each task marks as read

slack == <<clock, newest, sub, mark, chosen, changes>>
listing == <<job, cursor, views>>
tasks == <<on, task, upto>>
vars == <<slack, seen, drops, stream, row, listing, steady, tasks>>

LaterOf(m, n) == IF m > n THEN m ELSE n
LatestOf(S) == CHOOSE n \in S : \A m \in S : m <= n

\* --- defective variants, for mutation runs ---
\* DO UPDATE SET last_read = excluded.last_read
Upsert_Overwrites(t, lr, at) == row' = [row EXCEPT ![t] = [at |-> at, lr |-> lr]]
\* marks the thread up to whatever is newest by then
ReadUpTo_Newest(g) == newest[on[g]]
\* an interrupted listing is taken for a whole one
AfterTimeout_Whole(k) == IF views[k] = {} THEN "idle" ELSE "full"
\* a row that is missing is a row
Advance_Inserts(t, ts) ==
    row' = [row EXCEPT ![t].lr = LaterOf(ts, @)]

-----------------------------------------------------------------------------
(* The table                                                               *)

Upsert(t, lr, at) ==
    row' = [row EXCEPT ![t] = [at |-> at, lr |-> LaterOf(lr, @.lr)]]

\* last_read forward only, and only of a row there is, followed or not.
Advance(t, ts) ==
    row' = IF row[t].at # "none" THEN [row EXCEPT ![t].lr = LaterOf(ts, @)] ELSE row

DeleteRow(t) == row' = [row EXCEPT ![t] = [at |-> "none", lr |-> 0]]

ActiveIf(b) == IF b THEN "active" ELSE "off"

\* One transaction: upsert what was listed, tombstone every other active row.
Reconciled(listed) ==
    [t \in Threads |->
        LET lrs == {v.lr : v \in {w \in listed : w.t = t}} IN
        IF lrs # {} THEN [at |-> "active", lr |-> LatestOf(lrs \cup {row[t].lr})]
        ELSE IF row[t].at = "active" THEN [row[t] EXCEPT !.at = "off"]
        ELSE row[t]]

-----------------------------------------------------------------------------
(* Slack                                                                   *)

Send(t, kind, active, lr) ==
    stream' = Append(stream, [t |-> t, lr |-> lr, active |-> active, kind |-> kind])

Unsteady(t) == steady' = [k \in Jobs |-> steady[k] \ {t}]

Subscribe(t) == sub' = sub \cup {t} /\ Send(t, "changed", TRUE, mark'[t])
Unsubscribe(t) ==
    /\ sub' = sub \ {t}
    /\ Unsteady(t)
    /\ IF t \in sub THEN Send(t, "changed", FALSE, mark[t]) ELSE UNCHANGED stream

\* Somebody replies; Slack lists the thread first from now on.
Reply(t) ==
    /\ clock < MaxTS
    /\ clock' = clock + 1
    /\ newest' = [newest EXCEPT ![t] = clock + 1]
    /\ Unsteady(t)
    /\ UNCHANGED <<sub, mark, chosen, changes, seen, drops, stream, row, listing, tasks>>

\* The user follows the thread, by replying or otherwise, having read it.
Follow(t) ==
    /\ changes < MaxChanges /\ t \notin chosen
    /\ changes' = changes + 1
    /\ chosen' = chosen \cup {t}
    /\ seen' = [seen EXCEPT ![t] = newest[t]]
    /\ mark' = [mark EXCEPT ![t] = newest[t]]
    /\ Subscribe(t)
    /\ UNCHANGED <<clock, newest, drops, row, listing, steady, tasks>>

UnfollowElsewhere(t) ==
    /\ changes < MaxChanges /\ t \in sub
    /\ changes' = changes + 1
    /\ chosen' = chosen \ {t}
    /\ Unsubscribe(t)
    /\ UNCHANGED <<clock, newest, mark, seen, drops, row, listing, tasks>>

\* thread_marked carries an active flag whose meaning is Slack's own.
ReadElsewhere(t) ==
    /\ changes < MaxChanges /\ t \in sub /\ mark[t] # newest[t]
    /\ changes' = changes + 1
    /\ seen' = [seen EXCEPT ![t] = newest[t]]
    /\ mark' = [mark EXCEPT ![t] = newest[t]]
    /\ \E active \in BOOLEAN : Send(t, "marked", active, newest[t])
    /\ UNCHANGED <<clock, newest, sub, chosen, drops, row, listing, steady, tasks>>

\* The connection is lost with what it carried, and made again.
Drop ==
    /\ drops < MaxDrops
    /\ drops' = drops + 1
    /\ stream' = <<>>
    /\ UNCHANGED <<slack, seen, row, listing, steady, tasks>>

-----------------------------------------------------------------------------
(* Live events                                                             *)

OnThreadMarked ==
    /\ stream # <<>>
    /\ LET e == Head(stream) IN
        /\ e.kind = "marked"
        /\ Upsert(e.t, e.lr, ActiveIf(e.active))
    /\ stream' = Tail(stream)
    /\ UNCHANGED <<slack, seen, drops, listing, steady, tasks>>

\* A thread that is followed is upserted; one that is not is deleted.
OnThreadSubscriptionChanged ==
    /\ stream # <<>>
    /\ LET e == Head(stream) IN
        /\ e.kind = "changed"
        /\ IF e.active THEN Upsert(e.t, e.lr, "active") ELSE DeleteRow(e.t)
    /\ stream' = Tail(stream)
    /\ UNCHANGED <<slack, seen, drops, listing, steady, tasks>>

-----------------------------------------------------------------------------
(* Backfill: ListThreadSubscriptions, then the table                       *)

\* client.counts said threads are unread.
StartListing(k) ==
    /\ job[k] = "idle"
    /\ job' = [job EXCEPT ![k] = "listing"]
    /\ cursor' = [cursor EXCEPT ![k] = MaxTS + 1]
    /\ views' = [views EXCEPT ![k] = {}]
    /\ steady' = [steady EXCEPT ![k] = sub]
    /\ UNCHANGED <<slack, seen, drops, stream, row, tasks>>

\* getView: followed threads with activity before the cursor, latest first.
Remaining(k) == {t \in sub : newest[t] < cursor[k]}
PageOf(k) ==
    LET room == HardCap - Cardinality(views[k])
        size == IF room < PageSize THEN room ELSE PageSize
    IN  {t \in Remaining(k) :
            Cardinality({u \in Remaining(k) : newest[u] > newest[t]}) < size}

\* One page; the listing is over when Slack has no more or the cap is reached.
ListPage(k) ==
    /\ job[k] = "listing"
    /\ views' = [views EXCEPT ![k] = @ \cup {[t |-> t, lr |-> mark[t]] : t \in PageOf(k)}]
    /\ IF PageOf(k) = Remaining(k) \/ Cardinality(views'[k]) >= HardCap
       THEN job' = [job EXCEPT ![k] = "full"] /\ UNCHANGED cursor
       ELSE /\ \E t \in PageOf(k) :
                  /\ \A u \in PageOf(k) : newest[t] <= newest[u]
                  /\ cursor' = [cursor EXCEPT ![k] = newest[t]]
            /\ UNCHANGED job
    /\ UNCHANGED <<slack, seen, drops, stream, row, steady, tasks>>

\* The 90s are over: with some pages read the prefix is used.
AfterTimeout(k) == IF views[k] = {} THEN "idle" ELSE "partial"
ListingTimesOut(k) ==
    /\ job[k] = "listing"
    /\ job' = [job EXCEPT ![k] = AfterTimeout(k)]
    /\ UNCHANGED <<slack, seen, drops, stream, row, cursor, views, steady, tasks>>

\* Any other error gives the listing up.
ListingFails(k) ==
    /\ job[k] = "listing"
    /\ job' = [job EXCEPT ![k] = "idle"]
    /\ UNCHANGED <<slack, seen, drops, stream, row, cursor, views, steady, tasks>>

\* A prefix is upserted row by row.
UpsertPartial(k) ==
    /\ job[k] = "partial"
    /\ \E v \in views[k] :
        /\ Upsert(v.t, v.lr, "active")
        /\ views' = [views EXCEPT ![k] = @ \ {v}]
        /\ job' = [job EXCEPT ![k] = IF views[k] = {v} THEN "idle" ELSE "partial"]
    /\ UNCHANGED <<slack, seen, drops, stream, cursor, steady, tasks>>

ReconcileThreadSubscriptions(k) ==
    /\ job[k] = "full"
    /\ row' = Reconciled(views[k])
    /\ job' = [job EXCEPT ![k] = "idle"]
    /\ views' = [views EXCEPT ![k] = {}]
    /\ UNCHANGED <<slack, seen, drops, stream, cursor, steady, tasks>>

-----------------------------------------------------------------------------
(* Commands                                                                *)

Goto(g, at) == task' = [task EXCEPT ![g] = at]

\* replies, markThreadRead, unsubThread and react each start a goroutine; the
\* reply a client marks as read is one it has shown.
OpenThread(g) ==
    /\ task[g] = "idle" /\ Goto(g, "fetch")
    /\ UNCHANGED <<slack, seen, drops, stream, row, listing, steady, on, upto>>

MarkThreadRead(g) ==
    /\ task[g] = "idle" /\ Goto(g, "advance")
    /\ \E ts \in 1 .. newest[on[g]] :
        /\ upto' = [upto EXCEPT ![g] = ts]
        /\ seen' = [seen EXCEPT ![on[g]] = LaterOf(ts, @)]
    /\ UNCHANGED <<slack, drops, stream, row, listing, steady, on>>

UnsubThread(g) ==
    /\ task[g] = "idle" /\ Goto(g, "unsubscribe")
    /\ UNCHANGED <<slack, seen, drops, stream, row, listing, steady, on, upto>>

\* Was the thread followed, as far as the table knows, before the reaction?
React(g) ==
    /\ task[g] = "idle"
    /\ Goto(g, IF row[on[g]].at = "active" THEN "react, keep" ELSE "react")
    /\ UNCHANGED <<slack, seen, drops, stream, row, listing, steady, on, upto>>

\* sendReplies: GetReplies returns the thread as it is now, or an error.
GetReplies(g) ==
    /\ task[g] = "fetch"
    /\ \/ /\ upto' = [upto EXCEPT ![g] = newest[on[g]]]
          /\ seen' = [seen EXCEPT ![on[g]] = newest[on[g]]]
          /\ Goto(g, "advance")
       \/ Goto(g, "done") /\ UNCHANGED <<upto, seen>>
    /\ UNCHANGED <<slack, drops, stream, row, listing, steady, on>>

ReadUpTo(g) == upto[g]

AdvanceLastRead(g) ==
    /\ task[g] = "advance"
    /\ Advance(on[g], ReadUpTo(g))
    /\ Goto(g, "check")
    /\ UNCHANGED <<slack, seen, drops, stream, listing, steady, on, upto>>

CheckActive(g) ==
    /\ task[g] = "check"
    /\ Goto(g, IF row[on[g]].at = "active" THEN "mark" ELSE "done")
    /\ UNCHANGED <<slack, seen, drops, stream, row, listing, steady, on, upto>>

\* subscriptions.thread.mark, which may follow the thread; or an error.
MarkThread(g) ==
    /\ task[g] = "mark"
    /\ Goto(g, "done")
    /\ \/ /\ mark' = [mark EXCEPT ![on[g]] = upto[g]]
          /\ sub' \in {sub, sub \cup {on[g]}}
          /\ \E active \in BOOLEAN : Send(on[g], "marked", active, upto[g])
       \/ UNCHANGED <<mark, sub, stream>>
    /\ UNCHANGED <<clock, newest, chosen, changes, seen, drops, row, listing,
                   steady, on, upto>>

\* unsubThread goes on to the table even if the API call failed.
CallUnsubscribe(g) ==
    /\ task[g] = "unsubscribe"
    /\ Goto(g, "delete")
    /\ \/ Unsubscribe(on[g]) /\ chosen' = chosen \ {on[g]}
       \/ UNCHANGED <<sub, chosen, stream, steady>>
    /\ UNCHANGED <<clock, newest, mark, changes, seen, drops, row, listing, on,
                   upto>>

DeleteThreadSubscription(g) ==
    /\ task[g] = "delete"
    /\ Goto(g, "done")
    /\ DeleteRow(on[g])
    /\ UNCHANGED <<slack, seen, drops, stream, listing, steady, on, upto>>

\* Slack records the reaction and follows the thread; or the call fails, or the
\* reaction was there already.
AddReaction(g) ==
    /\ task[g] \in {"react", "react, keep"}
    /\ \/ /\ Goto(g, IF task[g] = "react" THEN "undo" ELSE "done")
          /\ IF on[g] \in sub THEN UNCHANGED <<sub, stream>>
             ELSE sub' = sub \cup {on[g]}
                  /\ Send(on[g], "changed", TRUE, mark[on[g]])
       \/ Goto(g, "done") /\ UNCHANGED <<sub, stream>>
    /\ UNCHANGED <<clock, newest, mark, chosen, changes, seen, drops, row,
                   listing, steady, on, upto>>

\* 500ms later the follow is undone at Slack ...
UndoFollow(g) ==
    /\ task[g] = "undo"
    /\ \/ Unsubscribe(on[g]) /\ Goto(g, "forget")
       \/ UNCHANGED <<sub, stream, steady>> /\ Goto(g, "done")
    /\ UNCHANGED <<clock, newest, mark, chosen, changes, seen, drops, row,
                   listing, on, upto>>

\* ... and in the table.
ForgetFollow(g) ==
    /\ task[g] = "forget"
    /\ Goto(g, "done")
    /\ Upsert(on[g], 0, "off")
    /\ UNCHANGED <<slack, seen, drops, stream, listing, steady, on, upto>>

-----------------------------------------------------------------------------
Init ==
    /\ clock = Cardinality(Threads)
    /\ newest \in [Threads -> 1 .. clock]
    /\ \A t, u \in Threads : newest[t] = newest[u] => t = u
    /\ sub \in SUBSET Threads
    /\ chosen = sub
    /\ mark = [t \in Threads |-> 0]
    /\ seen = mark
    /\ changes = 0
    /\ drops = 0
    /\ stream = <<>>
    /\ row = [t \in Threads |-> [at |-> "none", lr |-> 0]]
    /\ job = [k \in Jobs |-> "idle"]
    /\ cursor = [k \in Jobs |-> 0]
    /\ views = [k \in Jobs |-> {}]
    /\ steady = [k \in Jobs |-> {}]
    /\ on \in [Tasks -> Threads]
    /\ task = [g \in Tasks |-> "idle"]
    /\ upto = [g \in Tasks |-> 0]

ReadLoop == OnThreadMarked \/ OnThreadSubscriptionChanged
Backfill(k) ==
    \/ StartListing(k) \/ ListPage(k) \/ ListingTimesOut(k) \/ ListingFails(k)
    \/ UpsertPartial(k) \/ ReconcileThreadSubscriptions(k)
Opening(g) ==
    \/ OpenThread(g) \/ MarkThreadRead(g) \/ GetReplies(g)
    \/ AdvanceLastRead(g) \/ CheckActive(g) \/ MarkThread(g)
Unfollowing(g) == UnsubThread(g) \/ CallUnsubscribe(g) \/ DeleteThreadSubscription(g)
Reacting(g) == React(g) \/ AddReaction(g) \/ UndoFollow(g) \/ ForgetFollow(g)

Next ==
    \/ \E t \in Threads : Reply(t) \/ Follow(t) \/ UnfollowElsewhere(t) \/ ReadElsewhere(t)
    \/ Drop
    \/ ReadLoop
    \/ \E k \in Jobs : Backfill(k)
    \/ \E g \in Tasks : Opening(g) \/ Unfollowing(g) \/ Reacting(g)

Spec == Init /\ [][Next]_vars

-----------------------------------------------------------------------------
(* Properties                                                              *)

TypeOK ==
    /\ clock \in TS
    /\ newest \in [Threads -> TS]
    /\ sub \in SUBSET Threads
    /\ mark \in [Threads -> TS]
    /\ chosen \in SUBSET Threads
    /\ seen \in [Threads -> TS]
    /\ changes \in 0 .. MaxChanges
    /\ drops \in 0 .. MaxDrops
    /\ stream \in Seq(Event)
    /\ row \in [Threads -> Row]
    /\ \A t \in Threads : row[t].at = "none" => row[t].lr = 0
    /\ job \in [Jobs -> {"idle", "listing", "partial", "full"}]
    /\ cursor \in [Jobs -> 0 .. MaxTS + 1]
    /\ views \in [Jobs -> SUBSET View]
    /\ steady \in [Jobs -> SUBSET Threads]
    /\ on \in [Tasks -> Threads]
    /\ task \in [Tasks -> {"idle", "fetch", "advance", "check", "mark",
                           "unsubscribe", "delete", "react", "react, keep",
                           "undo", "forget", "done"}]
    /\ upto \in [Tasks -> TS]

\* A reply nobody has read is never marked as read, in the table or at Slack,
\* however late an open's fetch is applied (main.go:2110-2138).
NeverMarksUnseen ==
    \A t \in Threads : row[t].lr <= seen[t] /\ mark[t] <= seen[t]

\* As long as a row is there its last_read never goes back, whichever stale
\* event, listing or command writes it, a tombstone included
\* (thread_subscriptions.go:21-47).
LastReadKept ==
    [][\A t \in Threads : row'[t].at # "none" => row'[t].lr >= row[t].lr]_vars

\* A listing, whole or cut short, never drops a thread that Slack had the user
\* follow all along and nobody replied to meanwhile (backfill.go:193-200).
SteadyIsNotDropped ==
    [][\A k \in Jobs : \A t \in steady[k] :
         (job'[k] # job[k] /\ row[t].at = "active" /\ Cardinality(Threads) <= HardCap)
            => row'[t].at = "active"]_vars
=============================================================================
