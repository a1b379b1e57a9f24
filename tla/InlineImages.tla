----------------------------- MODULE InlineImages -----------------------------
(***************************************************************************)
(* Files of messages (main.go:493-830): imagesJSON answers at once, with a *)
(* placeholder for what is not on disk, and a goroutine fetches that and   *)
(* broadcasts the message's images again.  Fetches of one file may run     *)
(* side by side (a message is rendered several times, two messages share a *)
(* file, "view" and "download" fetch too); each writes a temporary file    *)
(* and renames it.  A poster made by ffmpeg has one temporary name for all *)
(* runs, a download one of its own.                                        *)
(*                                                                         *)
(* A temporary file is a name for data that writers hold open: a rename or *)
(* a removal takes the name away and leaves them writing.                  *)
(***************************************************************************)
EXTENDS Naturals, FiniteSets

CONSTANTS
    Files,        \* destinations on disk
    Posters,      \* those made by ffmpeg from a video Slack has no still of
    Msgs,         \* rendered messages
    FilesOf,      \* the inline files of a message
    ViewFiles,    \* copies for "view" and "download"
    Jobs,         \* bound: goroutines at a time
    SemCap,       \* imgSem: 16
    Passes,       \* retries of what failed: 2
    MaxImageRenders,   \* bound: renderings
    MaxFailures   \* bound: failed fetches

ASSUME InlineAssumption ==
    /\ Posters \subseteq Files /\ ViewFiles \subseteq Files \ Posters
    /\ FilesOf \in [Msgs -> SUBSET (Files \ ViewFiles)]
    /\ {"none", "view"} \cap Msgs = {}
    /\ SemCap \in Nat \ {0} /\ Passes \in Nat /\ {MaxImageRenders, MaxFailures} \subseteq Nat

VARIABLES
    disk,      \* "none", "torn" or "whole"
    temp,      \* the same of a temporary name
    imageJob,       \* a goroutine: message or command, files to go, failed, pass
    run,       \* "idle", "open" or "written": one fetch of a job
    hardLink,  \* where the open file of a fetch is reached: "temp", "disk", "gone"
    line,      \* renderings on their way to the client
    card,      \* what the client shows of a message
    overtaken, \* messages whose images were broadcast before their line came
    told,      \* copies the client was told to open
    imageRenders, failures

inlineVars == <<disk, temp, imageJob, run, hardLink, line, card, overtaken, told, imageRenders, failures>>
runVars == <<disk, temp, run, hardLink>>
clientSide == <<line, card, overtaken, told>>

NoJob == [for |-> "none"]
NoLine == [f \in {} |-> "none"]
Fetches == Jobs \X Files
Refresh(j) == imageJob[j] # NoJob /\ imageJob[j].for \in Msgs
Held == {r \in Fetches : run[r] # "idle" /\ Refresh(r[1])}
Working(j) == \E f \in Files : run[<<j, f>>] # "idle"

\* --- defective variants, for mutation runs ---
\* every fetch of a file writes dst + ".tmp", as downloadFile once did
TempOf_Shared(r) == <<r[2]>>
\* the second broadcast keeps a file that could not be fetched
Dropped_Never(f) == FALSE

-----------------------------------------------------------------------------
(* imagesJSON                                                              *)

\* Rendered while its files are fetched: a placeholder.  In the broadcast that
\* follows, a file that is still missing is left out, but for the card of a video.
Dropped(f) == f \notin Posters
Status(f, again) == IF disk[f] # "none" THEN "shown"
                    ELSE IF again /\ Dropped(f) THEN "absent" ELSE "pending"
ImagesJSON(m, again) == [f \in FilesOf[m] |-> Status(f, again)]
Missing(m) == {f \in FilesOf[m] : disk[f] = "none"}

Task(owner, files) ==
    [for |-> owner, todo |-> files, all |-> files, failed |-> {}, pass |-> 0]

RenderImages(j, m) ==
    /\ imageJob[j] = NoJob /\ line[m] = NoLine /\ imageRenders < MaxImageRenders /\ imageRenders' = imageRenders + 1
    /\ line' = [line EXCEPT ![m] = ImagesJSON(m, FALSE)]
    /\ overtaken' = overtaken \ {m}
    /\ imageJob' = IF Missing(m) = {} THEN imageJob ELSE [imageJob EXCEPT ![j] = Task(m, Missing(m))]
    /\ UNCHANGED <<runVars, card, told, failures>>

\* The line it is part of (a page, a new message) reaches the client.
Deliver(m) ==
    /\ line[m] # NoLine
    /\ card' = [card EXCEPT ![m] = line[m]] /\ line' = [line EXCEPT ![m] = NoLine]
    /\ UNCHANGED <<runVars, imageJob, overtaken, told, imageRenders, failures>>

\* One more pass over what failed, then the broadcast.  applyImages: a message the
\* client does not have is passed over.
NextPass(j) ==
    /\ Refresh(j) /\ imageJob[j].todo = {} /\ ~Working(j)
    /\ imageJob[j].failed # {} /\ imageJob[j].pass < Passes
    /\ imageJob' = [imageJob EXCEPT ![j].todo = imageJob[j].failed, ![j].failed = {}, ![j].pass = @ + 1]
    /\ UNCHANGED <<runVars, clientSide, imageRenders, failures>>

RebroadcastImages(j) ==
    /\ Refresh(j) /\ imageJob[j].todo = {} /\ ~Working(j)
    /\ imageJob[j].failed = {} \/ imageJob[j].pass = Passes
    /\ imageJob' = [imageJob EXCEPT ![j] = NoJob]
    /\ LET m == imageJob[j].for IN
       /\ card' = IF card[m] = NoLine THEN card
                  ELSE [card EXCEPT ![m] = ImagesJSON(m, TRUE)]
       /\ overtaken' = IF line[m] = NoLine THEN overtaken ELSE overtaken \cup {m}
    /\ UNCHANGED <<runVars, line, told, imageRenders, failures>>

-----------------------------------------------------------------------------
(* "view" and "download": the files one after the other, each tried once;  *)
(* what is then on disk is opened, or counted in a toast.  A lone video    *)
(* with no copy is streamed and fetches nothing.                           *)

View(j) ==
    /\ imageJob[j] = NoJob /\ imageRenders < MaxImageRenders /\ imageRenders' = imageRenders + 1
    /\ imageJob' = [imageJob EXCEPT ![j] = Task("view", ViewFiles)]
    /\ UNCHANGED <<runVars, clientSide, failures>>

ViewReady(j) ==
    /\ imageJob[j].for = "view" /\ imageJob[j].todo = {} /\ ~Working(j)
    /\ imageJob' = [imageJob EXCEPT ![j] = NoJob]
    /\ told' = told \cup {f \in ViewFiles : disk[f] # "none"}
    /\ UNCHANGED <<runVars, line, card, overtaken, imageRenders, failures>>

-----------------------------------------------------------------------------
(* downloadFile and extractPoster                                          *)

TempOf(r) == IF r[2] \in Posters THEN <<r[2]>> ELSE r

\* A pass after the first and a command run their files one at a time.
MayRun(j, f) ==
    /\ imageJob[j] # NoJob /\ f \in imageJob[j].todo
    /\ IF Refresh(j) /\ imageJob[j].pass = 0 THEN TRUE ELSE ~Working(j)
    /\ Refresh(j) => Cardinality(Held) < SemCap

\* A file that is there is not fetched.  ffmpeg truncates the temporary file that
\* another run may be writing.
FetchFile(j, f) ==
    /\ MayRun(j, f) /\ imageJob' = [imageJob EXCEPT ![j].todo = @ \ {f}]
    /\ IF disk[f] # "none" THEN UNCHANGED runVars
       ELSE /\ run' = [run EXCEPT ![<<j, f>>] = "open"]
            /\ temp' = [temp EXCEPT ![TempOf(<<j, f>>)] = "torn"]
            /\ hardLink' = [hardLink EXCEPT ![<<j, f>>] = "temp"]
            /\ UNCHANGED disk
    /\ UNCHANGED <<clientSide, imageRenders, failures>>

WriteAll(r) ==
    /\ run[r] = "open" /\ run' = [run EXCEPT ![r] = "written"]
    /\ temp' = IF hardLink[r] = "temp" THEN [temp EXCEPT ![TempOf(r)] = "whole"] ELSE temp
    /\ disk' = IF hardLink[r] = "disk" THEN [disk EXCEPT ![r[2]] = "whole"] ELSE disk
    /\ UNCHANGED <<imageJob, hardLink, clientSide, imageRenders, failures>>

\* Links of the fetches that write a name, once the name is gone from `from`.
Relinked(r, from, to) ==
    [q \in Fetches |-> IF q[2] = r[2] /\ run[q] # "idle" /\ hardLink[q] = from
                          /\ (from = "temp" => TempOf(q) = TempOf(r))
                       THEN to ELSE hardLink[q]]

RenameDownload(r) ==
    /\ run[r] = "written" /\ run' = [run EXCEPT ![r] = "idle"]
    /\ IF temp[TempOf(r)] = "none"
       THEN /\ imageJob' = [imageJob EXCEPT ![r[1]].failed = @ \cup {r[2]}]
            /\ UNCHANGED <<disk, temp, hardLink>>
       ELSE /\ disk' = [disk EXCEPT ![r[2]] = temp[TempOf(r)]]
            /\ temp' = [temp EXCEPT ![TempOf(r)] = "none"]
            /\ hardLink' = [q \in Fetches |->
                          IF Relinked(r, "temp", "disk")[q] # hardLink[q] THEN "disk"
                          ELSE Relinked(r, "disk", "gone")[q]]
            /\ UNCHANGED imageJob
    /\ UNCHANGED <<clientSide, imageRenders, failures>>

\* A refused request, an empty or cut off body, ffmpeg's 30s: the temporary name is
\* removed.
FetchFailed(r) ==
    /\ run[r] = "open" /\ failures < MaxFailures /\ failures' = failures + 1
    /\ run' = [run EXCEPT ![r] = "idle"]
    /\ temp' = [temp EXCEPT ![TempOf(r)] = "none"]
    /\ hardLink' = Relinked(r, "temp", "gone")
    /\ imageJob' = [imageJob EXCEPT ![r[1]].failed = @ \cup {r[2]}]
    /\ UNCHANGED <<disk, clientSide, imageRenders>>

-----------------------------------------------------------------------------
Temps == Fetches \cup {<<f>> : f \in Files}

InlineInit ==
    /\ disk = [f \in Files |-> "none"] /\ temp = [t \in Temps |-> "none"]
    /\ imageJob = [j \in Jobs |-> NoJob]
    /\ run = [r \in Fetches |-> "idle"] /\ hardLink = [r \in Fetches |-> "gone"]
    /\ line = [m \in Msgs |-> NoLine] /\ card = [m \in Msgs |-> NoLine]
    /\ overtaken = {} /\ told = {} /\ imageRenders = 0 /\ failures = 0

Progress ==
    \/ \E m \in Msgs : Deliver(m)
    \/ \E j \in Jobs : NextPass(j) \/ RebroadcastImages(j) \/ ViewReady(j)
    \/ \E j \in Jobs, f \in Files : FetchFile(j, f)
    \/ \E r \in Fetches : WriteAll(r) \/ RenameDownload(r) \/ FetchFailed(r)

InlineNext ==
    \/ \E j \in Jobs, m \in Msgs : RenderImages(j, m)
    \/ \E j \in Jobs : View(j)
    \/ Progress

\* Goroutines run, requests have deadlines, the writer to a client is scheduled.
InlineFairness == WF_inlineVars(Progress)
InlineSpec == InlineInit /\ [][InlineNext]_inlineVars /\ InlineFairness

-----------------------------------------------------------------------------
(* Properties                                                              *)

InlineTypeOK ==
    /\ disk \in [Files -> {"none", "torn", "whole"}]
    /\ run \in [Fetches -> {"idle", "open", "written"}]
    /\ hardLink \in [Fetches -> {"temp", "disk", "gone"}]
    /\ \A j \in Jobs : imageJob[j] = NoJob \/ imageJob[j].todo \cup imageJob[j].failed \subseteq imageJob[j].all
    /\ \A m \in Msgs : {line[m], card[m]} \subseteq
           {NoLine} \cup [FilesOf[m] -> {"pending", "shown", "absent"}]

\* A downloaded file under its own name is whole, and so is every copy the client is
\* told to open, however many fetches of it run and fail (main.go:770-773).
DownloadsAreWhole ==
    /\ \A f \in Files \ Posters : disk[f] # "torn"
    /\ \A f \in told : disk[f] = "whole"

\* The placeholder of an image goes away, replaced or dropped (main.go:499-503,
\* 524-529).  Two kinds are left out: that of a message whose broadcast overtook the
\* line that brings it, which no later broadcast clears against main.go:525-527, and
\* the card of a video without a poster, which the broadcast keeps (main.go:567-572).
Placeholder(m, f) == f \in DOMAIN card[m] /\ card[m][f] = "pending"
PlaceholderGoes ==
    \A m \in Msgs : \A f \in FilesOf[m] \ Posters :
        Placeholder(m, f) ~> (~Placeholder(m, f) \/ m \in overtaken)
=============================================================================
