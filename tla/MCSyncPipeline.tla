--------------------------- MODULE MCSyncPipeline ---------------------------
(***************************************************************************)
(* SyncPipeline on small instances, and a comment of backfill.go that does *)
(* not hold of it.                                                         *)
(***************************************************************************)
EXTENDS SyncPipeline

\* Nothing a connect starts is under way any more.
Settled == /\ sock /\ stream = <<>> /\ batch = {} /\ Fresh = {}
           /\ \A k \in Conns :
                \/ run[k] \in {"none", "skipped"}
                \/ /\ run[k] = "workers"
                   /\ \A c \in Channels : job[k][c] \in {"off", "done"}

\* backfill.go:15-16: "REST backfill recovers anything it dropped".  Here, for
\* top-level messages of a channel the latest backfill has gone through.
BackfillLeavesNoHole ==
    Settled => \A t \in top :
                 (srv[t] \in Readable /\ \E k \in Conns :
                                            k = conns /\ job[k][home[t]] = "done")
                     => t \in Cached
=============================================================================
