----------------------------- MODULE MCThreadSubs -----------------------------
(***************************************************************************)
(* ThreadSubs on a small instance, and a comment of backfill.go that does  *)
(* not hold of it.                                                         *)
(***************************************************************************)
EXTENDS ThreadSubs, TLC

CONSTANTS a, b, j1, g1

Symmetry == Permutations(Threads) \cup Permutations(Tasks)

\* backfill.go:240-241: "Make the cached active set match Slack's authoritative
\* list."  Here: a thread that a reconcile tombstones is not one Slack has the
\* user follow.
ReconcileDropsUnfollowed ==
    [][\A k \in Jobs, t \in sub :
         (job[k] = "full" /\ job'[k] # "full" /\ row[t].at = "active")
            => row'[t].at = "active"]_vars
=============================================================================
