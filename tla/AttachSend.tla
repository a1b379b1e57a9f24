------------------------------ MODULE AttachSend ------------------------------
(***************************************************************************)
(* Sending messages with attachments in one conversation (main.go, the     *)
(* commands send, uploadClipboard, uploadFile and dropAttach).             *)
(*                                                                         *)
(* Commands are read one at a time, but each upload and each send runs in  *)
(* a goroutine of its own.  They meet in three maps guarded by attachMu:   *)
(* uploading (the latest upload's done channel), pendingAttach (the staged *)
(* file) and pendingAttachThread (the thread it was staged in).  The maps  *)
(* are keyed by conversation; this module is about one key.                *)
(***************************************************************************)
EXTENDS Naturals

CONSTANTS
    Uploads,     \* upload commands, each the file it stages
    Sends,       \* send commands
    Threads,     \* threads of the conversation
    None,        \* "", or nil, or the conversation itself
    MaxDrops     \* bound: dropAttach commands

Commands == Uploads \cup Sends

ASSUME NamesAssumption ==
    /\ Uploads \cap Sends = {}
    /\ None \notin Commands \cup Threads
ASSUME DropsAssumption == MaxDrops \in Nat

VARIABLES
    thread,               \* thread each command names, or None (fixed)
    last,                 \* command read last
    prev,                 \* command read just before each send
    drops,                \* dropAttach commands read so far
    uploading,            \* upload whose done channel is in the map
    pendingAttach,        \* staged file
    pendingAttachThread,  \* thread it was staged in
    up,                   \* each upload goroutine; "done"/"failed" closed done
    snd,                  \* each send goroutine
    waitOn,               \* upload a send found in flight
    timedOut,             \* sends that stopped waiting after 20s
    file,                 \* file each send posts
    to                    \* thread it posts to

fixed == <<thread>>
slots == <<uploading, pendingAttach, pendingAttachThread>>
sending == <<snd, waitOn, timedOut, file, to>>
input == <<last, prev, drops>>
attachVars == <<fixed, input, slots, up, sending>>

\* --- defective variants, for mutation runs ---
\* the slot keeps the file that was taken
ClearSlot_Kept ==
    UNCHANGED <<pendingAttach, pendingAttachThread>>
\* uploading is registered by the goroutine, after the command loop went on
RegisterUpload_Late(u) == UNCHANGED uploading
\* the map is taken to hold a channel always
Observed_AlwaysWaits == "waiting"
\* the thread of the composer wins
Target_Composer(m) == thread[m]
\* the 20s case of the select goes round again
TimesOut_Retries(m) ==
    /\ snd[m] = "waiting"
    /\ timedOut' = [timedOut EXCEPT ![m] = TRUE]
    /\ UNCHANGED <<fixed, input, slots, up, snd, waitOn, file, to>>

Observed == IF uploading = None THEN "take" ELSE "waiting"

Closed(u) == up[u] \in {"done", "failed"}

ClearSlot ==
    /\ pendingAttach' = None
    /\ pendingAttachThread' = None

RegisterUpload(u) == uploading' = u

\* The staging thread if the file has one, else the send's own.
Target(m) ==
    IF pendingAttach # None /\ pendingAttachThread # None
    THEN pendingAttachThread ELSE thread[m]

Read == {u \in Uploads : up[u] # "idle"} \cup {m \in Sends : snd[m] # "idle"}

-----------------------------------------------------------------------------
(* Commands, as readConn takes them off the socket                         *)

\* The upload registers before its goroutine runs, whatever is registered.
UploadCommand(u) ==
    /\ up[u] = "idle"
    /\ last' = u
    /\ RegisterUpload(u)
    /\ up' = [up EXCEPT ![u] = "running"]
    /\ UNCHANGED <<fixed, prev, drops, pendingAttach, pendingAttachThread, sending>>

SendCommand(m) ==
    /\ snd[m] = "idle"
    /\ last' = m
    /\ prev' = [prev EXCEPT ![m] = last]
    /\ snd' = [snd EXCEPT ![m] = "spawned"]
    /\ UNCHANGED <<fixed, drops, slots, up, waitOn, timedOut, file, to>>

\* Empties the slot; an upload in flight is not stopped.
DropAttach ==
    /\ drops < MaxDrops
    /\ drops' = drops + 1
    /\ ClearSlot
    /\ UNCHANGED <<fixed, last, prev, uploading, up, sending>>

-----------------------------------------------------------------------------
(* The upload goroutine                                                    *)

\* StageUpload succeeded.
Stage(u) ==
    /\ up[u] = "running"
    /\ pendingAttach' = u
    /\ pendingAttachThread' = thread[u]
    /\ up' = [up EXCEPT ![u] = "staged"]
    /\ UNCHANGED <<fixed, input, uploading, sending>>

\* defer close(done)
CloseDone(u) ==
    /\ up[u] = "staged"
    /\ up' = [up EXCEPT ![u] = "done"]
    /\ UNCHANGED <<fixed, input, slots, sending>>

\* No image on the clipboard, an unreadable file, or StageUpload failed.
UploadFails(u) ==
    /\ up[u] = "running"
    /\ up' = [up EXCEPT ![u] = "failed"]
    /\ UNCHANGED <<fixed, input, slots, sending>>

-----------------------------------------------------------------------------
(* The send goroutine                                                      *)

\* Is an upload registered for the conversation (running or long done)?
Observe(m) ==
    /\ snd[m] = "spawned"
    /\ waitOn' = [waitOn EXCEPT ![m] = uploading]
    /\ snd' = [snd EXCEPT ![m] = Observed]
    /\ UNCHANGED <<fixed, input, slots, up, timedOut, file, to>>

UploadDone(m) ==
    /\ snd[m] = "waiting" /\ Closed(waitOn[m])
    /\ snd' = [snd EXCEPT ![m] = "take"]
    /\ UNCHANGED <<fixed, input, slots, up, waitOn, timedOut, file, to>>

TimesOut(m) ==
    /\ snd[m] = "waiting"
    /\ timedOut' = [timedOut EXCEPT ![m] = TRUE]
    /\ snd' = [snd EXCEPT ![m] = "take"]
    /\ UNCHANGED <<fixed, input, slots, up, waitOn, file, to>>

TakeAttach(m) ==
    /\ snd[m] = "take"
    /\ file' = [file EXCEPT ![m] = pendingAttach]
    /\ to' = [to EXCEPT ![m] = Target(m)]
    /\ ClearSlot
    /\ snd' = [snd EXCEPT ![m] = "post"]
    /\ UNCHANGED <<fixed, input, uploading, up, waitOn, timedOut>>

\* CompleteUpload, SendReply or SendMessage returns.  A file posted in a thread
\* is shared to the channel by a second message if the composer asked for it; an
\* error is only logged.
Post(m) ==
    /\ snd[m] = "post"
    /\ \/ snd' = [snd EXCEPT ![m] = "posted"]
       \/ snd' = [snd EXCEPT ![m] = "failed"]
       \/ /\ file[m] # None /\ to[m] # None
          /\ snd' = [snd EXCEPT ![m] = "share"]
    /\ UNCHANGED <<fixed, input, slots, up, waitOn, timedOut, file, to>>

Share(m) ==
    /\ snd[m] = "share"
    /\ \E next \in {"posted", "unshared"} : snd' = [snd EXCEPT ![m] = next]
    /\ UNCHANGED <<fixed, input, slots, up, waitOn, timedOut, file, to>>

AttachInit ==
    /\ thread \in [Commands -> Threads \cup {None}]
    /\ last = None
    /\ prev = [m \in Sends |-> None]
    /\ drops = 0
    /\ uploading = None
    /\ pendingAttach = None
    /\ pendingAttachThread = None
    /\ up = [u \in Uploads |-> "idle"]
    /\ snd = [m \in Sends |-> "idle"]
    /\ waitOn = [m \in Sends |-> None]
    /\ timedOut = [m \in Sends |-> FALSE]
    /\ file = [m \in Sends |-> None]
    /\ to = [m \in Sends |-> None]

Upload(u) == Stage(u) \/ CloseDone(u) \/ UploadFails(u)
SendSteps(m) ==
    \/ Observe(m) \/ UploadDone(m) \/ TimesOut(m)
    \/ TakeAttach(m) \/ Post(m) \/ Share(m)

AttachNext ==
    \/ \E u \in Uploads : UploadCommand(u) \/ Upload(u)
    \/ \E m \in Sends : SendCommand(m) \/ SendSteps(m)
    \/ DropAttach

AttachSpec == AttachInit /\ [][AttachNext]_attachVars

\* A send goroutine runs, its timer fires and its API call returns.  Nothing is
\* asked of the uploads, which have no deadline.
AttachFairness == \A m \in Sends : WF_attachVars(SendSteps(m))
AttachFairSpec == AttachSpec /\ AttachFairness

-----------------------------------------------------------------------------
(* Properties                                                              *)

Sent == {"posted", "failed", "unshared"}

AttachTypeOK ==
    /\ thread \in [Commands -> Threads \cup {None}]
    /\ last \in Commands \cup {None}
    /\ prev \in [Sends -> Commands \cup {None}]
    /\ drops \in 0 .. MaxDrops
    /\ uploading \in Uploads \cup {None}
    /\ pendingAttach \in Uploads \cup {None}
    /\ pendingAttachThread \in Threads \cup {None}
    /\ up \in [Uploads -> {"idle", "running", "staged", "done", "failed"}]
    /\ snd \in [Sends -> {"idle", "spawned", "waiting", "take", "post", "share"}
                            \cup Sent]
    /\ waitOn \in [Sends -> Uploads \cup {None}]
    /\ \A m \in Sends : snd[m] = "waiting" => waitOn[m] # None
    /\ timedOut \in [Sends -> BOOLEAN]
    /\ file \in [Sends -> Uploads \cup {None}]
    /\ to \in [Sends -> Threads \cup {None}]

\* Whichever sends race for the slot, a staged file goes out with one message
\* at most (main.go:1722-1727).
FilePostedOnce ==
    \A m, n \in Sends : (file[m] = file[n] /\ file[m] # None) => m = n

\* A file staged in a thread is posted to that thread, whichever composer's
\* send picks it up (main.go:1730-1735).
FileInItsThread ==
    \A m \in Sends : (file[m] # None /\ thread[file[m]] # None)
                        => to[m] = thread[file[m]]

\* A paste followed by a send, with nothing else going on, posts the image with
\* that message however long the upload takes, unless it fails or the 20s run
\* out (main.go:1852-1855).
PasteThenSend ==
    \A u \in Uploads, m \in Sends :
        (/\ prev[m] = u /\ Read = {u, m} /\ drops = 0
         /\ snd[m] \in Sent \cup {"post", "share"}
         /\ ~timedOut[m] /\ up[u] # "failed") => file[m] = u

\* A send always comes to an end, even if the upload it waits for hangs
\* (main.go:1715-1720).
SendSettles == \A m \in Sends : snd[m] = "spawned" ~> snd[m] \in Sent
=============================================================================
