---------------------------- MODULE MCAttachSend ----------------------------
(***************************************************************************)
(* AttachSend on small instances, and a comment of main.go that does not   *)
(* hold of it.                                                             *)
(***************************************************************************)
EXTENDS AttachSend

CONSTANTS u1, m1, m2, t1

\* main.go:1852-1855: the upload is registered synchronously "so a 'send' read
\* next always observes it and waits for the staged image -- otherwise a quick
\* paste+send races and the image posts with the following message instead of
\* this one".  Here: a send read right after an upload that succeeds, whose 20s
\* do not run out and with no dropAttach, carries that upload's file.
QuickSendCarriesItsImage ==
    \A u \in Uploads, m \in Sends :
        (/\ prev[m] = u /\ drops = 0
         /\ snd[m] \in Sent \cup {"post", "share"}
         /\ ~timedOut[m] /\ up[u] # "failed") => file[m] = u
=============================================================================
