-------------------------------- MODULE Media --------------------------------
(***************************************************************************)
(* Faces and custom emoji on disk (main.go).  A picture of a user is       *)
(* fetched when a row first asks for it and again when the profile         *)
(* changes; its name carries the version of the picture.  What is on disk  *)
(* is read back at start, once more per workspace while fetches may run.   *)
(* Every workspace fetches its emoji and rewrites one list for all; both   *)
(* are written in place, under the names they keep.                        *)
(*                                                                         *)
(* An avatar's file is [user, version, temp]; its content is whole or in   *)
(* part.                                                                   *)
(***************************************************************************)
EXTENDS Naturals, FiniteSets

CONSTANTS
    Faces,          \* users
    MaxVersion,     \* bound: pictures of a user
    Teams, Names,   \* workspaces, and names of their emoji
    MaxScans,       \* bound: workspaces that scan after the start
    MaxRestarts,    \* bound: starts of the program
    MaxFetches      \* bound: fetches begun

ASSUME MediaAssumption ==
    MaxVersion \in Nat \ {0} /\ {MaxScans, MaxRestarts, MaxFetches} \subseteq Nat

VARIABLES
    files,          \* names on disk: to [whole, mod]
    now,            \* modification time of the next write
    avatars,        \* users to the file they are shown with
    profile,        \* the version Slack has
    fetching,       \* fetches: [user, version, at]
    scanning,       \* [at, best]: what the scan under way has read
    scans, mediaRuns, fetches

avatarVars == <<files, now, avatars, profile, fetching, scanning, scans, fetches>>

VARIABLES
    emojiFiles,     \* <<team, name>> on disk
    emojiTorn,      \* those with a part of their content
    emojiOpen,      \* those a goroutine is at, from os.WriteFile on
    into,           \* recorded: <<team, name>>
    jobs,           \* teams to what cacheCustomEmoji is at
    emojiJson,      \* the list on disk
    jsonWhole,      \* it is all there, and can be parsed
    emojiShown      \* the list the client has read

emojiDisk == <<emojiFiles, emojiTorn, emojiOpen>>
emojiList == <<emojiJson, jsonWhole, emojiShown>>
emojiVars == <<emojiDisk, into, jobs, emojiList>>
mediaVars == <<avatarVars, emojiVars, mediaRuns>>

File(u, v)     == [user |-> u, version |-> v, temp |-> FALSE]
TempFile(u, v) == [user |-> u, version |-> v, temp |-> TRUE]
NoFile == [user |-> "none", version |-> 0, temp |-> FALSE]
Paths == [user : Faces, version : 1..MaxVersion, temp : BOOLEAN]

With(f, k, v) == [x \in DOMAIN f \cup {k} |-> IF x = k THEN v ELSE f[x]]
Without(f, k) == [x \in DOMAIN f \ {k} |-> f[x]]

-----------------------------------------------------------------------------
(* scanAvatars: the newest file of each user.  The name of a temporary file *)
(* begins like that of a picture.                                          *)

Newest(u) ==
    LET of == {f \in DOMAIN files : f.user = u}
    IN IF of = {} THEN {NoFile} ELSE {f \in of : \A g \in of : files[g].mod <= files[f].mod}
Found == {best \in [Faces -> DOMAIN files \cup {NoFile}] : \A u \in Faces : best[u] \in Newest(u)}

ScanReads ==
    /\ scanning.at = "idle" /\ scans < MaxScans
    /\ scans' = scans + 1
    /\ \E best \in Found : scanning' = [at |-> "read", best |-> best]
    /\ UNCHANGED <<files, now, avatars, profile, fetching, fetches>>

\* The whole map is replaced by what the scan found.
ScanAssigns ==
    /\ scanning.at = "read"
    /\ avatars' = scanning.best
    /\ scanning' = [scanning EXCEPT !.at = "idle"]
    /\ UNCHANGED <<files, now, profile, fetching, scans, fetches>>

-----------------------------------------------------------------------------
(* cacheAvatar                                                             *)

\* One fetch of a user at a time (avInflight), none of what is shown.
MayBegin(u, v) ==
    /\ avatars[u] # File(u, v)
    /\ ~ \E x \in fetching : x.user = u
    /\ fetches < MaxFetches
BeginFetch(u, v) ==
    /\ fetches' = fetches + 1
    /\ fetching' = fetching \cup {[user |-> u, version |-> v, at |-> "get"]}

\* A row without a picture asks for that of the start (avatarFor).
AvatarFor(u) ==
    /\ avatars[u] = NoFile
    /\ MayBegin(u, 1) /\ BeginFetch(u, 1)
    /\ UNCHANGED <<files, now, avatars, profile, scanning, scans>>

\* OnUserProfile: a new picture; nothing is fetched while an older one is.
ProfileChanges(u) ==
    /\ profile[u] < MaxVersion
    /\ profile' = [profile EXCEPT ![u] = @ + 1]
    /\ IF MayBegin(u, profile[u] + 1) THEN BeginFetch(u, profile[u] + 1)
       ELSE UNCHANGED <<fetching, fetches>>
    /\ UNCHANGED <<files, now, avatars, scanning, scans>>

Moved(x, at) == fetching' = (fetching \ {x}) \cup {[x EXCEPT !.at = at]}

\* (defective: the picture is written under its own name)
Temp_Same(x) == File(x.user, x.version)
\* The name that is written first.
Temp(x) == TempFile(x.user, x.version)

WriteTemp(x) ==
    /\ x.at = "get" /\ Moved(x, "writing")
    /\ files' = With(files, Temp(x), [whole |-> FALSE, mod |-> now])
    /\ now' = now + 1
    /\ UNCHANGED <<avatars, profile, scanning, scans, fetches>>

AvatarWritten(x) ==
    /\ x.at = "writing" /\ Moved(x, "written")
    /\ files' = With(files, Temp(x), [whole |-> TRUE, mod |-> now])
    /\ now' = now + 1
    /\ UNCHANGED <<avatars, profile, scanning, scans, fetches>>

RenameAvatar(x) ==
    /\ x.at = "written" /\ Moved(x, "renamed")
    /\ files' = With(Without(files, Temp(x)), File(x.user, x.version), files[Temp(x)])
    /\ UNCHANGED <<now, avatars, profile, scanning, scans, fetches>>

Show(x) ==
    /\ x.at = "renamed" /\ fetching' = fetching \ {x}
    /\ avatars' = [avatars EXCEPT ![x.user] = File(x.user, x.version)]
    /\ UNCHANGED <<files, now, profile, scanning, scans, fetches>>

GetFails(x) ==
    /\ x.at = "get" /\ fetching' = fetching \ {x}
    /\ UNCHANGED <<files, now, avatars, profile, scanning, scans, fetches>>

FetchAvatar ==
    \E x \in fetching :
        WriteTemp(x) \/ AvatarWritten(x) \/ RenameAvatar(x) \/ Show(x) \/ GetFails(x)

-----------------------------------------------------------------------------
(* cacheCustomEmoji: what is on disk is taken as it is, the rest fetched.  *)

EmojiOf(t, S) == {e \in S : e[1] = t}
\* mu: what is recorded, and the list while it is written.
MuFree == \A t \in Teams : jobs[t] # "writing"

Records(S) == MuFree /\ into' = into \cup S

\* Of the emoji Slack has, those on disk (os.Stat).
ListEmoji(t) ==
    /\ jobs[t] = "idle" /\ jobs' = [jobs EXCEPT ![t] = "busy"]
    /\ \E em \in SUBSET Names : Records({e \in EmojiOf(t, emojiFiles) : e[2] \in em})
    /\ UNCHANGED <<emojiDisk, emojiList>>

ListFails(t) ==
    /\ jobs[t] = "idle" /\ jobs' = [jobs EXCEPT ![t] = "failed"]
    /\ UNCHANGED <<emojiDisk, into, emojiList>>

\* The rest, once they are downloaded: os.WriteFile makes the file, then fills it.
FetchEmoji(e) ==
    /\ jobs[e[1]] = "busy" /\ e \notin emojiFiles
    /\ emojiFiles' = emojiFiles \cup {e} /\ emojiTorn' = emojiTorn \cup {e}
    /\ emojiOpen' = emojiOpen \cup {e}
    /\ UNCHANGED <<into, jobs, emojiList>>

EmojiWritten(e) ==
    /\ e \in emojiOpen \cap emojiTorn /\ emojiTorn' = emojiTorn \ {e}
    /\ UNCHANGED <<emojiFiles, emojiOpen, into, jobs, emojiList>>

EmojiWriteFails(e) ==
    /\ e \in emojiOpen \cap emojiTorn /\ emojiOpen' = emojiOpen \ {e}
    /\ UNCHANGED <<emojiFiles, emojiTorn, into, jobs, emojiList>>

RecordEmoji(e) ==
    /\ e \in emojiOpen \ emojiTorn /\ emojiOpen' = emojiOpen \ {e}
    /\ Records({e})
    /\ UNCHANGED <<emojiFiles, emojiTorn, jobs, emojiList>>

\* (defective: the list does not wait for the goroutines)
Waited_Not(t) == TRUE
Waited(t) == EmojiOf(t, emojiOpen) = {}

\* Under the lock, when all fetches are over: the list is cut to nothing, ...
TruncateEmojiJson(t) ==
    /\ jobs[t] = "busy" /\ Waited(t) /\ MuFree
    /\ jobs' = [jobs EXCEPT ![t] = "writing"] /\ jsonWhole' = FALSE
    /\ UNCHANGED <<emojiDisk, into, emojiJson, emojiShown>>

\* ... then written: that of all workspaces, without the fetches that failed; ...
WriteEmojiJson(t) ==
    /\ jobs[t] = "writing" /\ jobs' = [jobs EXCEPT ![t] = "done"]
    /\ emojiJson' = into /\ jsonWhole' = TRUE
    /\ UNCHANGED <<emojiDisk, into, emojiShown>>

\* ... or not.
EmojiJsonFails(t) ==
    /\ jobs[t] = "writing" /\ jobs' = [jobs EXCEPT ![t] = "cut"]
    /\ UNCHANGED <<emojiDisk, into, emojiList>>

CacheCustomEmoji ==
    \/ \E t \in Teams : \/ ListEmoji(t) \/ ListFails(t)
                        \/ TruncateEmojiJson(t) \/ WriteEmojiJson(t) \/ EmojiJsonFails(t)
    \/ \E e \in Teams \X Names :
           FetchEmoji(e) \/ EmojiWritten(e) \/ EmojiWriteFails(e) \/ RecordEmoji(e)

\* The client watches the list (Backend.qml:1744-1757); a part of one does not parse,
\* and leaves it with what it had.
ReadEmojiJson ==
    /\ jsonWhole /\ emojiShown' = emojiJson
    /\ UNCHANGED <<emojiDisk, into, jobs, emojiJson, jsonWhole>>

-----------------------------------------------------------------------------
MediaInit ==
    /\ files = [f \in {} |-> NoFile] /\ now = 1
    /\ avatars = [u \in Faces |-> NoFile] /\ profile = [u \in Faces |-> 1]
    /\ fetching = {} /\ scanning = [at |-> "idle", best |-> [u \in Faces |-> NoFile]]
    /\ scans = 0 /\ fetches = 0 /\ mediaRuns = 0
    /\ emojiFiles = {} /\ emojiTorn = {} /\ emojiOpen = {} /\ into = {}
    /\ jobs = [t \in Teams |-> "idle"]
    /\ emojiJson = {} /\ jsonWhole = TRUE /\ emojiShown = {}

\* The program stops and starts again: it scans before anything else.
MediaRestart ==
    /\ mediaRuns < MaxRestarts /\ mediaRuns' = mediaRuns + 1
    /\ fetching' = {} /\ avatars' \in Found
    /\ scanning' = [scanning EXCEPT !.at = "idle"]
    /\ into' = {} /\ emojiOpen' = {} /\ jobs' = [t \in Teams |-> "idle"]
    /\ UNCHANGED <<files, now, profile, scans, fetches, emojiFiles, emojiTorn, emojiList>>

MediaNext ==
    \/ /\ \/ ScanReads \/ ScanAssigns
          \/ \E u \in Faces : AvatarFor(u) \/ ProfileChanges(u)
          \/ FetchAvatar
       /\ UNCHANGED <<emojiVars, mediaRuns>>
    \/ (CacheCustomEmoji \/ ReadEmojiJson) /\ UNCHANGED <<avatarVars, mediaRuns>>
    \/ MediaRestart
MediaSpec == MediaInit /\ [][MediaNext]_mediaVars

-----------------------------------------------------------------------------
MediaTypeOK ==
    /\ DOMAIN files \subseteq Paths /\ avatars \in [Faces -> Paths \cup {NoFile}]
    /\ fetching \subseteq [user : Faces, version : 1..MaxVersion,
                         at : {"get", "writing", "written", "renamed"}]
    /\ emojiFiles \cup into \cup emojiJson \cup emojiShown \subseteq Teams \X Names
    /\ emojiOpen \cup emojiTorn \subseteq emojiFiles /\ jsonWhole \in BOOLEAN
    /\ jobs \in [Teams -> {"idle", "busy", "writing", "done", "failed", "cut"}]

\* A row never shows a torn picture, whatever a crash or a scan came between,
\* where the scan did not take a temporary file for a picture: the file a user
\* is shown with is there and whole (main.go:249-257, scanAvatars).
FacesAreWhole ==
    \A u \in Faces : avatars[u] # NoFile /\ ~ avatars[u].temp =>
        avatars[u] \in DOMAIN files /\ files[avatars[u]].whole

\* The list is that of all workspaces once the last one has written it, in whatever
\* order they finish and whichever got no answer from Slack.  What the client has read
\* is never a part of a list, and an emoji in it is on disk and no longer being
\* written.  It may be torn all the same, and stays so: where a write was cut short, the
\* next start takes the file for an emoji (main.go:2441-2512, 2480).
CutShort == emojiTorn \ emojiOpen
EmojiListIsGood ==
    /\ (\A t \in Teams : jobs[t] \in {"done", "failed"}) /\ (\E t \in Teams : jobs[t] = "done") =>
           jsonWhole /\ emojiJson = into
    /\ emojiShown \cup emojiJson \subseteq emojiFiles
    /\ (emojiShown \cup emojiJson) \cap emojiTorn \subseteq CutShort
=============================================================================
