--------------------------- MODULE Pictures_proofs ----------------------------
(***************************************************************************)
(* Proofs about Pictures: its components, and the files they leave.        *)
(***************************************************************************)
EXTENDS Pictures, WellFoundedInduction, FiniteSetTheorems, SequenceTheorems, TLAPS

-----------------------------------------------------------------------------
(* PermalinkPreviews                                                       *)

\* What ties prevWait and prevInfl to the goroutines: a link is in flight
\* exactly while a goroutine holds it, only such a link has waiters, and a
\* goroutine that was started holds exactly one link.
FlightInv ==
    /\ \A k \in Targets : prevWait[k] # {} => k \in prevInfl
    /\ \A k \in Targets : k \in prevInfl <=> Holders(k) # {}
    /\ \A f \in Fetchers : fetch[f].at # "unborn" => \E k \in Targets : fetch[f].for = {k}

IInv == TypeOK /\ SingleFlight /\ FlightInv

LEMMA InitIInv == Init => IInv
<1> SUFFICES ASSUME Init PROVE IInv
  OBVIOUS
<1>1. TypeOK
  BY BoundsAssumption DEF Init, TypeOK
<1>2. \A k \in Targets : Holders(k) = {}
  BY DEF Init, Holders
<1>3. SingleFlight /\ FlightInv
  BY <1>2 DEF Init, SingleFlight, FlightInv
<1>4. QED BY <1>1, <1>3 DEF IInv

LEMMA BeginTyped == ASSUME NEW h \in Hosts PROVE Begin(h) \in SUBSET Rendering
BY LinksAssumption DEF Begin, Rendering

\* The steps that touch neither the table nor the fetch goroutines.
LEMMA RenderOnly ==
    ASSUME IInv, UNCHANGED <<prevInfl, prevWait, fetch>>, TypeOK'
    PROVE  IInv'
BY DEF IInv, SingleFlight, FlightInv, Holders

LEMMA StartRenderIInv ==
    ASSUME IInv, NEW r \in Callers, NEW h \in Hosts, StartRender(r, h) PROVE IInv'
<1>1. render' \in [Renderers -> SUBSET Rendering] /\ renders' \in 0 .. MaxRenders
  <2>1. r \in Renderers
    BY DEF Renderers
  <2>2. render' \in [Renderers -> SUBSET Rendering]
    BY <2>1, BeginTyped DEF IInv, TypeOK, StartRender
  <2>3. renders' \in 0 .. MaxRenders
    BY BoundsAssumption DEF IInv, TypeOK, StartRender
  <2>4. QED BY <2>2, <2>3
<1>2. TypeOK'
  BY <1>1 DEF IInv, TypeOK, StartRender, table, ui
<1>3. QED BY <1>2, RenderOnly DEF StartRender, table

LEMMA LookupIInv ==
    ASSUME IInv, NEW r \in Renderers, Lookup(r) PROVE IInv'
<1>1. PICK cur \in render[r] : \E k \in cur.left :
         render' = [render EXCEPT ![r] =
                {[cur EXCEPT !.left = @ \ {k},
                             !.block = IF prevDone[k] = "ok" THEN @ \cup {k} ELSE @,
                             !.miss = IF prevDone[k] = "none" THEN {k} ELSE {}]}]
  BY DEF Lookup
<1>2. cur \in Rendering
  BY <1>1 DEF IInv, TypeOK
<1>3. PICK k \in cur.left :
         render' = [render EXCEPT ![r] =
                {[cur EXCEPT !.left = @ \ {k},
                             !.block = IF prevDone[k] = "ok" THEN @ \cup {k} ELSE @,
                             !.miss = IF prevDone[k] = "none" THEN {k} ELSE {}]}]
  BY <1>1
<1>4. k \in Targets
  BY <1>2 DEF Rendering
<1>5. [cur EXCEPT !.left = @ \ {k},
                  !.block = IF prevDone[k] = "ok" THEN @ \cup {k} ELSE @,
                  !.miss = IF prevDone[k] = "none" THEN {k} ELSE {}] \in Rendering
  BY <1>2, <1>4 DEF Rendering
<1>6. render' \in [Renderers -> SUBSET Rendering]
  BY <1>3, <1>5 DEF IInv, TypeOK
<1>7. UNCHANGED <<table, fetch, waiters, renders, ui>>
  BY DEF Lookup
<1>8. TypeOK'
  BY <1>6, <1>7 DEF IInv, TypeOK, table, ui
<1>9. QED BY <1>7, <1>8, RenderOnly DEF table

LEMMA FetchAsyncIInv ==
    ASSUME IInv, NEW r \in Renderers, FetchAsync(r) PROVE IInv'
<1>0. PICK cur \in render[r] : \E k \in cur.miss :
         /\ Register(k, cur.host)
         /\ IF NeedsFetch(k)
            THEN \E f \in Spare :
                   /\ prevInfl' = prevInfl \cup {k}
                   /\ fetch' = [fetch EXCEPT ![f] = [at |-> "queued", for |-> {k}]]
            ELSE UNCHANGED <<prevInfl, fetch>>
         /\ render' = [render EXCEPT ![r] = {[cur EXCEPT !.miss = {}]}]
  BY DEF FetchAsync
<1>1. PICK k \in cur.miss :
         /\ Register(k, cur.host)
         /\ IF NeedsFetch(k)
            THEN \E f \in Spare :
                   /\ prevInfl' = prevInfl \cup {k}
                   /\ fetch' = [fetch EXCEPT ![f] = [at |-> "queued", for |-> {k}]]
            ELSE UNCHANGED <<prevInfl, fetch>>
         /\ render' = [render EXCEPT ![r] = {[cur EXCEPT !.miss = {}]}]
  BY <1>0
<1>2. /\ cur \in Rendering /\ cur.host \in Hosts /\ k \in Targets
      /\ [cur EXCEPT !.miss = {}] \in Rendering
  <2>1. cur \in Rendering
    BY <1>0 DEF IInv, TypeOK
  <2>2. k \in Targets
    BY <2>1, <1>1 DEF Rendering
  <2>3. [cur EXCEPT !.miss = {}] \in Rendering
    BY <2>1 DEF Rendering
  <2>4. QED BY <2>1, <2>2, <2>3 DEF Rendering
<1>3. UNCHANGED <<prevDone, waiters, renders, ui>>
  BY DEF FetchAsync
<1>4. render' \in [Renderers -> SUBSET Rendering]
  BY <1>1, <1>2 DEF IInv, TypeOK
<1>5. prevWait' = [prevWait EXCEPT ![k] = @ \cup {cur.host}]
  BY <1>1 DEF Register
<1>6. prevWait' \in [Targets -> SUBSET Hosts]
  BY <1>2, <1>5 DEF IInv, TypeOK
<1>7. CASE k \in prevInfl
  <2>1. UNCHANGED <<prevInfl, fetch>>
    BY <1>1, <1>7 DEF NeedsFetch
  <2>2. TypeOK'
    BY <1>3, <1>4, <1>6, <2>1 DEF IInv, TypeOK, ui
  <2>3. QED
    BY <1>2, <1>5, <1>7, <2>1, <2>2 DEF IInv, TypeOK, SingleFlight, FlightInv, Holders
<1>8. CASE k \notin prevInfl
  <2>1. PICK f \in Spare :
           /\ prevInfl' = prevInfl \cup {k}
           /\ fetch' = [fetch EXCEPT ![f] = [at |-> "queued", for |-> {k}]]
    BY <1>1, <1>8 DEF NeedsFetch
  <2>2. f \in Fetchers /\ fetch[f].at = "unborn"
    BY DEF Spare
  <2>3. TypeOK'
    BY <1>2, <1>3, <1>4, <1>6, <2>1, <2>2 DEF IInv, TypeOK, ui
  <2>4. /\ Holders(k) = {} /\ Holders(k)' = {f}
        /\ \A j \in Targets : j # k => Holders(j)' = Holders(j)
    BY <1>2, <1>8, <2>1, <2>2 DEF IInv, TypeOK, FlightInv, Holders
  <2>5. SingleFlight'
    BY <1>2, <2>4 DEF IInv, SingleFlight
  <2>6. \A j \in Targets : prevWait'[j] # {} => j \in prevInfl'
    BY <1>2, <1>5, <2>1 DEF IInv, TypeOK, FlightInv
  <2>7. \A j \in Targets : j \in prevInfl' <=> Holders(j)' # {}
    BY <1>2, <2>1, <2>4 DEF IInv, FlightInv
  <2>8. \A g \in Fetchers :
           fetch'[g].at # "unborn" => \E j \in Targets : fetch'[g].for = {j}
    BY <1>2, <2>1, <2>2 DEF IInv, TypeOK, FlightInv
  <2>9. QED BY <2>3, <2>5, <2>6, <2>7, <2>8 DEF IInv, FlightInv
<1>9. QED BY <1>7, <1>8

LEMMA BroadcastIInv ==
    ASSUME IInv, NEW r \in Renderers, Broadcast(r) PROVE IInv'
<1>1. PICK cur \in render[r] :
         /\ view' = [view EXCEPT ![cur.host] = cur.block]
         /\ offered' = [offered EXCEPT ![cur.host] = @ \cup cur.block]
         /\ render' = [render EXCEPT ![r] = {}]
         /\ UNCHANGED <<table, fetch, waiters, renders>>
  BY DEF Broadcast
<1>2. cur \in Rendering /\ cur.host \in Hosts /\ cur.block \in SUBSET Targets
  BY <1>1 DEF IInv, TypeOK, Rendering
<1>3. TypeOK'
  BY <1>1, <1>2 DEF IInv, TypeOK, table
<1>4. QED BY <1>1, <1>3, RenderOnly DEF table

LEMMA AcquireSemIInv ==
    ASSUME IInv, NEW f \in Fetchers, AcquireSem(f) PROVE IInv'
<1>1. /\ fetch[f].at = "queued" /\ fetch' = [fetch EXCEPT ![f].at = "building"]
      /\ UNCHANGED <<table, waiters, render, renders, ui>>
  BY DEF AcquireSem
<1>2. TypeOK'
  BY <1>1 DEF IInv, TypeOK, table, ui
<1>3. \A g \in Fetchers : /\ fetch'[g].for = fetch[g].for
                          /\ fetch'[g].at = IF g = f THEN "building" ELSE fetch[g].at
  BY <1>1 DEF IInv, TypeOK
<1>4. \A k \in Targets : Holders(k)' = Holders(k)
  BY <1>1, <1>3 DEF Holders
<1>5. QED BY <1>1, <1>2, <1>3, <1>4 DEF IInv, SingleFlight, FlightInv, table

LEMMA PublishIInv ==
    ASSUME IInv, NEW f \in Fetchers, Publish(f) PROVE IInv'
<1>1. PICK k \in fetch[f].for, res \in {"ok", "empty"} :
         /\ prevDone' = [prevDone EXCEPT ![k] = res]
         /\ ClearInflight(k)
         /\ waiters' = [waiters EXCEPT ![f] = prevWait[k]]
         /\ TakeWaiters(k)
  BY DEF Publish
<1>2. /\ fetch[f].at = "building" /\ fetch' = [fetch EXCEPT ![f].at = "waking"]
      /\ UNCHANGED <<render, renders, ui>>
  BY DEF Publish
<1>3. k \in Targets /\ fetch[f].for = {k}
  BY <1>1, <1>2 DEF IInv, TypeOK, FlightInv
<1>4. TypeOK'
  BY <1>1, <1>2, <1>3 DEF IInv, TypeOK, ClearInflight, TakeWaiters, ui
<1>5. \A g \in Fetchers : /\ fetch'[g].for = fetch[g].for
                          /\ fetch'[g].at = IF g = f THEN "waking" ELSE fetch[g].at
  BY <1>2 DEF IInv, TypeOK
<1>6. Holders(k)' = {}
  <2>1. f \in Holders(k)
    BY <1>2, <1>3 DEF Holders
  <2>2. Holders(k) = {f}
    BY <1>3, <2>1 DEF IInv, SingleFlight
  <2>3. QED BY <1>5, <2>2 DEF Holders
<1>7. \A j \in Targets : j # k => Holders(j)' = Holders(j)
  BY <1>2, <1>3, <1>5 DEF Holders
<1>8. SingleFlight'
  BY <1>3, <1>6, <1>7 DEF IInv, SingleFlight
<1>9. FlightInv'
  <2>1. /\ prevInfl' = prevInfl \ {k}
        /\ \A j \in Targets : prevWait'[j] = IF j = k THEN {} ELSE prevWait[j]
    BY <1>1 DEF IInv, TypeOK, ClearInflight, TakeWaiters
  <2>2. \A g \in Fetchers : fetch'[g].at # "unborn" => \E j \in Targets : fetch'[g].for = {j}
    BY <1>3, <1>5 DEF IInv, FlightInv
  <2>3. \A j \in Targets : j \in prevInfl' <=> Holders(j)' # {}
    BY <2>1, <1>6, <1>7 DEF IInv, FlightInv
  <2>4. QED BY <2>1, <2>2, <2>3 DEF IInv, FlightInv
<1>10. QED BY <1>4, <1>8, <1>9 DEF IInv

LEMMA RebroadcastIInv ==
    ASSUME IInv, NEW f \in Fetchers, Rebroadcast(f) PROVE IInv'
<1>1. PICK h \in waiters[f] :
         /\ waiters' = [waiters EXCEPT ![f] = @ \ {h}]
         /\ render' = IF h \in Cached THEN [render EXCEPT ![f] = Begin(h)] ELSE render
  BY DEF Rebroadcast
<1>2. h \in Hosts
  BY <1>1 DEF IInv, TypeOK
<1>3. UNCHANGED <<table, fetch, renders, ui>>
  BY DEF Rebroadcast
<1>4. TypeOK'
  BY <1>1, <1>2, <1>3, BeginTyped DEF IInv, TypeOK, table, ui, Renderers
<1>5. QED BY <1>3, <1>4, RenderOnly DEF table

LEMMA NextIInv == IInv /\ [Next]_vars => IInv'
<1> SUFFICES ASSUME IInv, [Next]_vars PROVE IInv'
  OBVIOUS
<1>1. CASE UNCHANGED vars
  BY <1>1 DEF vars, table, ui, IInv, TypeOK, SingleFlight, FlightInv, Holders
<1>2. CASE Next
  BY <1>2, StartRenderIInv, LookupIInv, FetchAsyncIInv, BroadcastIInv,
     AcquireSemIInv, PublishIInv, RebroadcastIInv DEF Next, Render, Fetch
<1>3. QED BY <1>1, <1>2

LEMMA Invariance == Spec => []IInv
<1>1. QED BY InitIInv, NextIInv, PTL DEF Spec

\* Every variable keeps its type.
THEOREM PreviewsTypeCorrect == Spec => []TypeOK
<1>1. IInv => TypeOK
  BY DEF IInv
<1>2. QED BY <1>1, Invariance, PTL

\* Whatever the renderings and however they interleave with fetches, a host
\* that waits for a link is behind a fetch that will take it, and at most one
\* fetch per link is in flight (previewFetchAsync).
THEOREM NobodyWaitsInVain == Spec => []OneFetchServesAll
<1>1. IInv => OneFetchServesAll
  BY DEF IInv, FlightInv, WaitersHaveFetch, OneFetchServesAll
<1>2. QED BY <1>1, Invariance, PTL

-----------------------------------------------------------------------------
(* Media                                                                   *)

FetchAt == {"get", "writing", "written", "renamed"}
MediaFetch == [user : Faces, version : 1..MaxVersion, at : FetchAt]
Shown == [Faces -> Paths \cup {NoFile}]

\* Beside the types of MediaTypeOK, those of what a fetch and a scan begin from.
MediaTyped ==
    /\ DOMAIN files \subseteq Paths /\ avatars \in Shown
    /\ fetching \subseteq MediaFetch
    /\ profile \in [Faces -> 1..MaxVersion]
    /\ scanning \in [at : {"idle", "read"}, best : Shown]

\* A file under its own name is whole.
OwnNamesWhole == \A f \in DOMAIN files : ~ f.temp => files[f].whole

\* A map of faces names, besides temporary files, only files that are there.
Backed(faces) ==
    \A u \in Faces : faces[u] # NoFile /\ ~ faces[u].temp => faces[u] \in DOMAIN files

\* One fetch of a user at a time.
OneEach == \A x, y \in fetching : x.user = y.user => x = y

\* What a fetch has behind it is on disk.
Behind(x) ==
    /\ x.at = "written" => Temp(x) \in DOMAIN files /\ files[Temp(x)].whole
    /\ x.at = "renamed" => File(x.user, x.version) \in DOMAIN files
Progressed == \A x \in fetching : Behind(x)

FacesInv ==
    /\ MediaTyped /\ OwnNamesWhole /\ Backed(avatars) /\ Backed(scanning.best)
    /\ OneEach /\ Progressed

-----------------------------------------------------------------------------
(* Names                                                                   *)

LEMMA PathsTyped ==
    ASSUME NEW u \in Faces, NEW v \in 1..MaxVersion
    PROVE  File(u, v) \in Paths /\ TempFile(u, v) \in Paths
BY DEF File, TempFile, Paths

\* What a scan found is there.
LEMMA FoundIsBacked ==
    ASSUME MediaTyped, NEW best \in Found
    PROVE  best \in Shown /\ Backed(best)
BY DEF MediaTyped, Found, Shown, Backed

-----------------------------------------------------------------------------
(* Scans and starts                                                        *)

LEMMA ScanReadsKeeps ==
    ASSUME FacesInv, ScanReads
    PROVE  FacesInv'
<1>1. PICK best \in Found : scanning' = [at |-> "read", best |-> best]
    BY DEF ScanReads
<1>2. best \in Shown /\ Backed(best)
    BY <1>1, FoundIsBacked DEF FacesInv
<1> QED
    BY <1>1, <1>2 DEF ScanReads, FacesInv, MediaTyped, OwnNamesWhole, Backed, OneEach, Progressed,
       Behind, Temp

LEMMA ScanAssignsKeeps ==
    ASSUME FacesInv, ScanAssigns
    PROVE  FacesInv'
BY DEF ScanAssigns, FacesInv, MediaTyped, OwnNamesWhole, Backed, OneEach, Progressed, Behind, Temp

LEMMA RestartKeeps ==
    ASSUME FacesInv, MediaRestart
    PROVE  FacesInv'
<1>1. avatars' \in Shown /\ Backed(avatars')
    BY FoundIsBacked DEF MediaRestart, FacesInv
<1> QED
    BY <1>1 DEF MediaRestart, FacesInv, MediaTyped, OwnNamesWhole, Backed, OneEach, Progressed

-----------------------------------------------------------------------------
(* Fetches                                                                 *)

LEMMA BeginKeeps ==
    ASSUME FacesInv, NEW u \in Faces, AvatarFor(u) \/ ProfileChanges(u)
    PROVE  FacesInv'
<1>1. UNCHANGED <<files, avatars, scanning>> /\ profile' \in [Faces -> 1..MaxVersion]
    BY MediaAssumption DEF FacesInv, MediaTyped, AvatarFor, ProfileChanges
<1>2. CASE UNCHANGED fetching
    BY <1>1, <1>2 DEF FacesInv, MediaTyped, OwnNamesWhole, Backed, OneEach, Progressed, Behind
<1>3. CASE \E v \in 1..MaxVersion : MayBegin(u, v) /\ BeginFetch(u, v)
  <2>1. PICK v \in 1..MaxVersion : MayBegin(u, v) /\ BeginFetch(u, v)
      BY <1>3
  <2> DEFINE new == [user |-> u, version |-> v, at |-> "get"]
  <2>2. new \in MediaFetch /\ fetching' = fetching \cup {new} /\ \A x \in fetching : x.user # u
      BY <2>1 DEF MediaFetch, FetchAt, MayBegin, BeginFetch
  <2>3. new.user = u /\ new.at = "get"
      OBVIOUS
  <2> HIDE DEF new
  <2>4. MediaTyped' /\ OwnNamesWhole' /\ Backed(avatars)' /\ Backed(scanning.best)'
      BY <1>1, <2>2 DEF FacesInv, MediaTyped, OwnNamesWhole, Backed
  <2>5. OneEach'
      BY <2>2, <2>3 DEF FacesInv, OneEach
  <2>6. Progressed'
      BY <1>1, <2>2, <2>3 DEF FacesInv, Progressed, Behind
  <2> QED
      BY <2>4, <2>5, <2>6 DEF FacesInv
<1>4. UNCHANGED fetching \/ \E v \in 1..MaxVersion : MayBegin(u, v) /\ BeginFetch(u, v)
    BY MediaAssumption DEF FacesInv, MediaTyped, AvatarFor, ProfileChanges
<1> QED
    BY <1>2, <1>3, <1>4

\* A fetch that goes on or ends leaves one of its user at most.
LEMMA OneStays ==
    ASSUME OneEach, fetching \subseteq MediaFetch, NEW x \in fetching,
           \/ fetching' = fetching \ {x}
           \/ \E at \in FetchAt : Moved(x, at)
    PROVE  OneEach' /\ fetching' \subseteq MediaFetch
<1>1. CASE fetching' = fetching \ {x}
    BY <1>1 DEF OneEach
<1>2. CASE \E at \in FetchAt : Moved(x, at)
  <2>1. PICK at \in FetchAt : Moved(x, at)
      BY <1>2
  <2> DEFINE on == [x EXCEPT !.at = at]
  <2>2. on \in MediaFetch /\ on.user = x.user /\ fetching' = (fetching \ {x}) \cup {on}
      BY <2>1 DEF MediaFetch, Moved
  <2> HIDE DEF on
  <2> QED
      BY <2>2 DEF OneEach
<1> QED
    BY <1>1, <1>2

\* The temporary file of one fetch is written: the others' are others.
LEMMA WriteKeeps ==
    ASSUME FacesInv, NEW x \in fetching, WriteTemp(x) \/ AvatarWritten(x)
    PROVE  FacesInv'
<1>1. PICK at \in {"writing", "written"}, w \in BOOLEAN :
          /\ Moved(x, at) /\ files' = With(files, Temp(x), [whole |-> w, mod |-> now])
          /\ at = "written" => w
    BY DEF WriteTemp, AvatarWritten
<1>2. UNCHANGED <<avatars, profile, scanning>> /\ x \in MediaFetch
    BY DEF WriteTemp, AvatarWritten, FacesInv, MediaTyped
<1>3. Temp(x) \in Paths /\ Temp(x).temp
    BY <1>2, PathsTyped DEF Temp, TempFile, MediaFetch
<1>4. /\ DOMAIN files' = DOMAIN files \cup {Temp(x)}
      /\ files'[Temp(x)].whole = w
      /\ \A f \in DOMAIN files \ {Temp(x)} : files'[f] = files[f]
    BY <1>1 DEF With
<1>5. OneEach' /\ fetching' \subseteq MediaFetch
    BY <1>1, OneStays DEF FacesInv, MediaTyped, FetchAt
<1>6. MediaTyped' /\ OwnNamesWhole' /\ Backed(avatars)' /\ Backed(scanning.best)'
    BY <1>2, <1>3, <1>4, <1>5 DEF FacesInv, MediaTyped, OwnNamesWhole, Backed
<1>7. Progressed'
  <2> SUFFICES ASSUME NEW y \in fetching' PROVE Behind(y)'
      BY DEF Progressed
  <2>1. CASE y \in fetching \ {x}
    <3>1. Temp(y) # Temp(x) /\ Behind(y)
        BY <2>1 DEF FacesInv, OneEach, Progressed, Temp, TempFile
    <3>2. ~ File(y.user, y.version).temp /\ File(y.user, y.version) # Temp(x)
        BY <1>3 DEF File
    <3> QED
        BY <1>4, <3>1, <3>2 DEF Behind, Temp
  <2>2. CASE y = [x EXCEPT !.at = at]
    <3>1. y.at = at /\ Temp(y) = Temp(x)
        BY <1>2, <2>2 DEF MediaFetch, Temp
    <3> QED
        BY <1>1, <1>4, <3>1 DEF Behind, Temp
  <2> QED
      BY <1>1, <2>1, <2>2 DEF Moved
<1> QED
    BY <1>5, <1>6, <1>7 DEF FacesInv

\* A rename takes a temporary name away and gives the file its own.
LEMMA RenameKeeps ==
    ASSUME FacesInv, NEW x \in fetching, RenameAvatar(x)
    PROVE  FacesInv'
<1> DEFINE own == File(x.user, x.version)
<1>1. UNCHANGED <<avatars, profile, scanning>> /\ x \in MediaFetch /\ Moved(x, "renamed")
    BY DEF RenameAvatar, FacesInv, MediaTyped
<1>2. Temp(x).temp /\ ~ own.temp /\ own \in Paths
    BY <1>1, PathsTyped DEF Temp, TempFile, File, MediaFetch
<1>3. Temp(x) \in DOMAIN files /\ files[Temp(x)].whole
    BY DEF RenameAvatar, FacesInv, Progressed, Behind
<1> HIDE DEF own
<1>4. files' = With(Without(files, Temp(x)), own, files[Temp(x)])
    BY DEF RenameAvatar, own
<1>5. /\ DOMAIN files' = (DOMAIN files \ {Temp(x)}) \cup {own}
      /\ files'[own].whole
      /\ \A f \in DOMAIN files \ {Temp(x), own} : files'[f] = files[f]
    BY <1>3, <1>4 DEF With, Without
<1>6. OneEach' /\ fetching' \subseteq MediaFetch
    BY <1>1, OneStays DEF FacesInv, MediaTyped, FetchAt
<1>7. MediaTyped' /\ OwnNamesWhole' /\ Backed(avatars)' /\ Backed(scanning.best)'
    BY <1>1, <1>2, <1>5, <1>6 DEF FacesInv, MediaTyped, OwnNamesWhole, Backed
<1>8. Progressed'
  <2> SUFFICES ASSUME NEW y \in fetching' PROVE Behind(y)'
      BY DEF Progressed
  <2>1. CASE y \in fetching \ {x}
    <3>1. Temp(y) # Temp(x) /\ Behind(y) /\ Temp(y).temp
        BY <2>1 DEF FacesInv, OneEach, Progressed, Temp, TempFile
    <3>2. ~ File(y.user, y.version).temp
        BY DEF File
    <3> QED
        BY <1>2, <1>5, <3>1, <3>2 DEF Behind, Temp
  <2>2. CASE y = [x EXCEPT !.at = "renamed"]
    <3>1. y.at = "renamed" /\ File(y.user, y.version) = own
        BY <1>1, <2>2 DEF MediaFetch, own
    <3> QED
        BY <1>5, <3>1 DEF Behind
  <2> QED
      BY <1>1, <2>1, <2>2 DEF Moved
<1> QED
    BY <1>6, <1>7, <1>8 DEF FacesInv

\* What is shown at the end of a fetch is what it renamed.
LEMMA EndKeeps ==
    ASSUME FacesInv, NEW x \in fetching, Show(x) \/ GetFails(x)
    PROVE  FacesInv'
<1>1. UNCHANGED <<files, profile, scanning>> /\ fetching' = fetching \ {x} /\ x \in MediaFetch
    BY DEF Show, GetFails, FacesInv, MediaTyped
<1>2. OneEach' /\ fetching' \subseteq MediaFetch
    BY <1>1, OneStays DEF FacesInv, MediaTyped
<1>3. avatars' \in Shown /\ Backed(avatars)'
  <2>1. CASE GetFails(x)
      BY <2>1 DEF GetFails, FacesInv, MediaTyped, Backed
  <2>2. CASE Show(x)
    <3>1. File(x.user, x.version) \in DOMAIN files \cap Paths
        BY <1>1, <2>2, PathsTyped DEF Show, FacesInv, Progressed, Behind, MediaFetch
    <3>2. avatars' = [avatars EXCEPT ![x.user] = File(x.user, x.version)]
        BY <2>2 DEF Show
    <3> QED
        BY <1>1, <3>1, <3>2 DEF FacesInv, MediaTyped, Shown, Backed
  <2> QED
      BY <2>1, <2>2
<1>4. Progressed'
    BY <1>1 DEF FacesInv, Progressed, Behind, Temp
<1> QED
    BY <1>1, <1>2, <1>3, <1>4 DEF FacesInv, MediaTyped, OwnNamesWhole, Backed

LEMMA FacesStep ==
    FacesInv /\ [MediaNext]_mediaVars => FacesInv'
<1> SUFFICES ASSUME FacesInv, [MediaNext]_mediaVars PROVE FacesInv'
    OBVIOUS
<1>1. CASE ScanReads \/ ScanAssigns
    BY <1>1, ScanReadsKeeps, ScanAssignsKeeps
<1>2. CASE \E u \in Faces : AvatarFor(u) \/ ProfileChanges(u)
    BY <1>2, BeginKeeps
<1>3. CASE FetchAvatar
    BY <1>3, WriteKeeps, RenameKeeps, EndKeeps DEF FetchAvatar
<1>4. CASE UNCHANGED avatarVars
    BY <1>4 DEF avatarVars, FacesInv, MediaTyped, OwnNamesWhole, Backed, OneEach, Progressed, Behind
<1>5. CASE MediaRestart
    BY <1>5, RestartKeeps
<1> QED
    BY <1>1, <1>2, <1>3, <1>4, <1>5 DEF MediaNext, mediaVars

LEMMA FacesBegin == MediaInit => FacesInv
BY MediaAssumption DEF MediaInit, FacesInv, MediaTyped, OwnNamesWhole, Backed, OneEach, Progressed,
   Shown, MediaFetch

\* The face of a user, other than a temporary file a scan took for one, is on disk
\* and whole, for any users, pictures, fetches, scans and restarts (main.go:249-257).
THEOREM FacesStayWhole == MediaSpec => []FacesAreWhole
<1>1. FacesInv => FacesAreWhole
    BY DEF FacesInv, OwnNamesWhole, Backed, FacesAreWhole
<1> QED
    BY <1>1, FacesBegin, FacesStep, PTL DEF MediaSpec

-----------------------------------------------------------------------------
(* Custom emoji                                                            *)

EmojiInv ==
    /\ emojiFiles \subseteq Teams \X Names
    /\ emojiOpen \cup emojiTorn \cup into \cup emojiJson \cup emojiShown \subseteq emojiFiles
    /\ (into \cup emojiJson \cup emojiShown) \cap emojiOpen = {}
    /\ jobs \in [Teams -> {"idle", "busy", "writing", "done", "failed", "cut"}]
    /\ \A e \in emojiOpen : jobs[e[1]] = "busy"
    /\ jsonWhole \in BOOLEAN
    /\ (\A t \in Teams : jobs[t] \in {"idle", "done", "failed"}) /\ (\E t \in Teams : jobs[t] = "done") =>
           jsonWhole = TRUE /\ emojiJson = into

LEMMA EmojiBegin == MediaInit => EmojiInv
BY DEF MediaInit, EmojiInv

\* What a goroutine does with its file: its workspace is busy, so the list is not done.
LEMMA EmojiFetched ==
    ASSUME EmojiInv, NEW e \in Teams \X Names,
           FetchEmoji(e) \/ EmojiWritten(e) \/ EmojiWriteFails(e) \/ RecordEmoji(e)
    PROVE  EmojiInv'
<1>1. e[1] \in Teams
    OBVIOUS
<1>2. UNCHANGED <<jobs, emojiJson, jsonWhole, emojiShown>>
    BY DEF FetchEmoji, EmojiWritten, EmojiWriteFails, RecordEmoji, emojiList
<1>3. jobs[e[1]] = "busy"
    BY DEF FetchEmoji, EmojiWritten, EmojiWriteFails, RecordEmoji, EmojiInv
<1>4. ~ \A t \in Teams : jobs'[t] \in {"idle", "done", "failed"}
    BY <1>1, <1>2, <1>3
<1>5. CASE FetchEmoji(e)
    BY <1>2, <1>3, <1>4, <1>5 DEF FetchEmoji, EmojiInv
<1>6. CASE EmojiWritten(e)
    BY <1>2, <1>4, <1>6 DEF EmojiWritten, EmojiInv
<1>7. CASE EmojiWriteFails(e)
    BY <1>2, <1>4, <1>7 DEF EmojiWriteFails, EmojiInv
<1>8. CASE RecordEmoji(e)
    BY <1>2, <1>4, <1>8 DEF RecordEmoji, Records, EmojiInv
<1> QED
    BY <1>5, <1>6, <1>7, <1>8

\* A workspace that is not done rewrites the list later, with what the others found.
LEMMA EmojiListed ==
    ASSUME EmojiInv, NEW t \in Teams,
           ListEmoji(t) \/ ListFails(t) \/ TruncateEmojiJson(t) \/ WriteEmojiJson(t) \/ EmojiJsonFails(t)
    PROVE  EmojiInv'
<1>1. \A e \in emojiOpen : e[1] \in Teams /\ jobs[e[1]] = "busy"
    BY DEF EmojiInv
<1>2. CASE ListEmoji(t)
  <2>1. PICK em \in SUBSET Names : into' = into \cup {e \in EmojiOf(t, emojiFiles) : e[2] \in em}
      BY <1>2 DEF ListEmoji, Records
  <2>2. jobs[t] = "idle" /\ jobs' = [jobs EXCEPT ![t] = "busy"] /\ UNCHANGED <<emojiDisk, emojiList>>
      BY <1>2 DEF ListEmoji
  <2>3. into' \subseteq emojiFiles /\ into' \cap emojiOpen = {}
      BY <1>1, <2>1, <2>2 DEF EmojiOf, EmojiInv
  <2>4. jobs'[t] = "busy" /\ \A e \in emojiOpen : jobs'[e[1]] = "busy"
      BY <1>1, <2>2 DEF EmojiInv
  <2>5. jobs' \in [Teams -> {"idle", "busy", "writing", "done", "failed", "cut"}]
      BY <2>2 DEF EmojiInv
  <2> QED
      BY <2>2, <2>3, <2>4, <2>5 DEF emojiDisk, emojiList, EmojiInv
<1>3. CASE ListFails(t) \/ EmojiJsonFails(t)
    BY <1>1, <1>3 DEF ListFails, EmojiJsonFails, emojiDisk, emojiList, EmojiInv
<1>4. CASE TruncateEmojiJson(t)
  <2>1. /\ jobs' = [jobs EXCEPT ![t] = "writing"] /\ EmojiOf(t, emojiOpen) = {} /\ jsonWhole' = FALSE
        /\ UNCHANGED <<emojiDisk, into, emojiJson, emojiShown>>
      BY <1>4 DEF TruncateEmojiJson, Waited
  <2>2. \A e \in emojiOpen : e[1] # t
      BY <2>1 DEF EmojiOf
  <2>3. jobs'[t] = "writing" /\ \A e \in emojiOpen : jobs'[e[1]] = "busy"
      BY <1>1, <2>1, <2>2 DEF EmojiInv
  <2> QED
      BY <2>1, <2>3 DEF emojiDisk, EmojiInv
<1>5. CASE WriteEmojiJson(t)
    BY <1>1, <1>5 DEF WriteEmojiJson, emojiDisk, EmojiInv
<1> QED
    BY <1>2, <1>3, <1>4, <1>5

LEMMA EmojiStep ==
    EmojiInv /\ [MediaNext]_mediaVars => EmojiInv'
<1> SUFFICES ASSUME EmojiInv, [MediaNext]_mediaVars PROVE EmojiInv'
    OBVIOUS
<1>1. CASE CacheCustomEmoji
    BY <1>1, EmojiFetched, EmojiListed DEF CacheCustomEmoji
<1>2. CASE ReadEmojiJson
    BY <1>2 DEF ReadEmojiJson, emojiDisk, EmojiInv
<1>3. CASE UNCHANGED emojiVars
    BY <1>3 DEF emojiVars, emojiDisk, emojiList, EmojiInv
<1>4. CASE MediaRestart
    BY <1>4 DEF MediaRestart, emojiList, EmojiInv
<1> QED
    BY <1>1, <1>2, <1>3, <1>4 DEF MediaNext, mediaVars

\* The list is that of all workspaces once the last has written it, what the client has
\* read is a list and no part of one, and what it names is on disk and not being
\* written, for any workspaces in any order, with any writes cut short
\* (main.go:2441-2512).
THEOREM EmojiListStaysGood == MediaSpec => []EmojiListIsGood
<1>1. EmojiInv => EmojiListIsGood
    BY DEF EmojiInv, EmojiListIsGood, CutShort
<1> QED
    BY <1>1, EmojiBegin, EmojiStep, PTL DEF MediaSpec

\* The types, from both invariants.
THEOREM MediaTypeCorrect == MediaSpec => []MediaTypeOK
<1>1. FacesInv /\ EmojiInv => MediaTypeOK
    BY DEF FacesInv, MediaTyped, Shown, MediaFetch, FetchAt, EmojiInv, MediaTypeOK
<1> QED
    BY <1>1, FacesBegin, FacesStep, EmojiBegin, EmojiStep, PTL DEF MediaSpec

-----------------------------------------------------------------------------
(* ImageFetch: the bytes of a set of files, and sequences without repetition *)

\* The bytes of the things in S, w[x] of each.
Weighed(S, w) == UNION {{x} \X (1 .. w[x]) : x \in S}

LEMMA WeighedIn ==
    ASSUME NEW S, NEW w
    PROVE  \A p : p \in Weighed(S, w) <=> \E x \in S : p \in {x} \X (1 .. w[x])
BY DEF Weighed

LEMMA WeightFinite ==
    ASSUME NEW S, IsFiniteSet(S), NEW w, \A x \in S : w[x] \in Nat
    PROVE  /\ IsFiniteSet(Weighed(S, w)) /\ Weight(S, w) = Cardinality(Weighed(S, w))
           /\ Weight(S, w) \in Nat
<1> DEFINE part(x) == {x} \X (1 .. w[x])
           g == [x \in S |-> part(x)]
           T == {part(x) : x \in S}
<1>1. g \in Surjection(S, T)
  BY DEF Surjection
<1>3. IsFiniteSet(T)
  <2> HIDE DEF g, T
  <2> QED
    BY <1>1, FS_Surjection
<1>4. ASSUME NEW x \in S PROVE IsFiniteSet(part(x))
  <2>1. w[x] \in Nat /\ 1 \in Int /\ w[x] \in Int
    OBVIOUS
  <2>2. IsFiniteSet(1 .. w[x])
    BY <2>1, FS_Interval
  <2>3. IsFiniteSet({x})
    BY FS_Singleton
  <2> QED
    BY <2>2, <2>3, FS_Product
<1>5. \A X \in T : IsFiniteSet(X)
  BY <1>4
<1>6. IsFiniteSet(UNION T)
  <2> HIDE DEF T
  <2> QED
    BY <1>3, <1>5, FS_UNION
<1>7. Weighed(S, w) = UNION T
  BY DEF Weighed
<1>8. Weight(S, w) = Cardinality(Weighed(S, w))
  BY DEF Weight, Weighed
<1> QED
  BY <1>6, <1>7, <1>8, FS_CardinalityType

\* What a path's file weighs.
SizeOf == [p \in CachePaths |-> Size[PathKey[p]]]

LEMMA SizesAre ==
    /\ \A p \in CachePaths : PathKey[p] \in FetchKeys /\ SizeOf[p] = Size[PathKey[p]] /\ SizeOf[p] \in Nat
    /\ \A k \in FetchKeys : Size[k] \in Nat
BY ImageFetchAssumption DEF SizeOf

LEMMA BytesFinite ==
    ASSUME NEW S \in SUBSET CachePaths
    PROVE  /\ IsFiniteSet(Weighed(S, SizeOf)) /\ Bytes(S) = Cardinality(Weighed(S, SizeOf))
           /\ Bytes(S) \in Nat
<1>1. IsFiniteSet(S)
  BY ImageFetchAssumption, FS_Subset
<1>2. \A x \in S : SizeOf[x] \in Nat
  BY SizesAre
<1>3. Bytes(S) = Weight(S, SizeOf)
  BY DEF Bytes, SizeOf
<1> QED
  BY <1>1, <1>2, <1>3, WeightFinite

LEMMA BytesOfNone == Bytes({}) = 0
<1>1. Weighed({}, SizeOf) = {}
  BY DEF Weighed
<1> QED
  BY <1>1, BytesFinite, FS_EmptySet

\* n bytes of one file.
LEMMA BytesOfFile ==
    ASSUME NEW k, NEW n \in Nat
    PROVE  Cardinality({k} \X (1 .. n)) = n
<1> DEFINE bytes == 1 .. n
<1>1. IsFiniteSet(bytes) /\ Cardinality(bytes) = n
  <2>1. 1 \in Int /\ n \in Int /\ (1 > n => n = 0) /\ (1 <= n => n - 1 + 1 = n)
    OBVIOUS
  <2>2. IsFiniteSet(1 .. n) /\ Cardinality(1 .. n) = IF 1 > n THEN 0 ELSE n - 1 + 1
    BY <2>1, FS_Interval
  <2> QED
    BY <2>1, <2>2
<1> HIDE DEF bytes
<1>2. IsFiniteSet({k}) /\ Cardinality({k}) = 1
  BY FS_Singleton
<1>3. Cardinality({k} \X bytes) = 1 * n
  BY <1>1, <1>2, FS_Product
<1>4. 1 * n = n
  OBVIOUS
<1> QED
  BY <1>3, <1>4 DEF bytes

LEMMA BytesOfOne == ASSUME NEW p \in CachePaths PROVE Bytes({p}) = Size[PathKey[p]]
<1>1. SizeOf[p] \in Nat /\ SizeOf[p] = Size[PathKey[p]]
  BY SizesAre
<1>2. Cardinality({p} \X (1 .. SizeOf[p])) = SizeOf[p]
  BY <1>1, BytesOfFile
<1>3. Weighed({p}, SizeOf) = {p} \X (1 .. SizeOf[p])
  BY DEF Weighed
<1>4. {p} \in SUBSET CachePaths
  OBVIOUS
<1> QED
  BY <1>1, <1>2, <1>3, <1>4, BytesFinite

LEMMA BytesOfBoth ==
    ASSUME NEW S \in SUBSET CachePaths, NEW T \in SUBSET CachePaths, S \cap T = {}
    PROVE  Bytes(S \cup T) = Bytes(S) + Bytes(T)
<1> DEFINE B(X) == Weighed(X, SizeOf)
<1>1. B(S \cup T) = B(S) \cup B(T)
  BY DEF Weighed
<1>2. B(S) \cap B(T) = {}
  <2>1. \A p \in B(S) : p[1] \in S
    BY WeighedIn
  <2>2. \A p \in B(T) : p[1] \in T
    BY WeighedIn
  <2> QED
    BY <2>1, <2>2
<1>3. S \cup T \in SUBSET CachePaths
  OBVIOUS
<1>4. /\ IsFiniteSet(B(S)) /\ Bytes(S) = Cardinality(B(S)) /\ Bytes(S) \in Nat
      /\ IsFiniteSet(B(T)) /\ Bytes(T) = Cardinality(B(T)) /\ Bytes(T) \in Nat
      /\ Bytes(S \cup T) = Cardinality(B(S \cup T))
  BY <1>3, BytesFinite
<1> HIDE DEF B
<1>5. Cardinality(B(S) \cup B(T)) =
          Cardinality(B(S)) + Cardinality(B(T)) - Cardinality(B(S) \cap B(T))
  BY <1>4, FS_Union
<1>6. Cardinality(B(S) \cap B(T)) = 0
  BY <1>2, FS_EmptySet
<1>7. Bytes(S \cup T) = Cardinality(B(S) \cup B(T))
  BY <1>1, <1>4
<1>8. Bytes(S \cup T) = Bytes(S) + Bytes(T) - 0
  BY <1>4, <1>5, <1>6, <1>7
<1> QED
  BY <1>4, <1>8

\* A list cut in two, and put together again.
LEMMA CutRange ==
    ASSUME NEW s \in Seq(CachePaths), NEW a \in Int, NEW b \in Int, 1 <= a, b <= Len(s)
    PROVE  /\ SubSeq(s, a, b) \in Seq(CachePaths)
           /\ Range(SubSeq(s, a, b)) = {s[i] : i \in a .. b}
<1> DEFINE w == SubSeq(s, a, b)
<1>1. Len(s) \in Nat /\ DOMAIN s = 1 .. Len(s)
  BY LenProperties
<1>2. \A i \in a .. b : i \in 1 .. Len(s) /\ s[i] \in CachePaths
  BY <1>1, ElementOfSeq
<1>3. /\ w \in Seq(CachePaths) /\ Len(w) = IF a <= b THEN b - a + 1 ELSE 0
      /\ \A i \in 1 .. b - a + 1 : w[i] = s[a + i - 1]
  BY <1>2, SubSeqProperties
<1>4. DOMAIN w = 1 .. Len(w)
  BY <1>3, LenProperties
<1> HIDE DEF w
<1>5. \A i \in 1 .. Len(w) : a + i - 1 \in a .. b /\ w[i] = s[a + i - 1]
  BY <1>3
<1>6. Range(w) = {w[i] : i \in 1 .. Len(w)}
  BY <1>4 DEF Range
<1>7. \A x \in Range(w) : x \in {s[i] : i \in a .. b}
  BY <1>5, <1>6
<1>8. ASSUME NEW i \in a .. b PROVE s[i] \in Range(w)
  <2>1. i - a + 1 \in 1 .. Len(w) /\ w[i - a + 1] = s[i]
    BY <1>3
  <2> QED
    BY <1>6, <2>1
<1> QED
  BY <1>3, <1>7, <1>8 DEF w

LEMMA JoinRange ==
    ASSUME NEW s \in Seq(CachePaths), NEW t \in Seq(CachePaths)
    PROVE  s \o t \in Seq(CachePaths) /\ Range(s \o t) = Range(s) \cup Range(t)
<1> DEFINE m == Len(s)
           n == Len(t)
           w == s \o t
<1>2. m \in Nat /\ n \in Nat /\ DOMAIN s = 1 .. m /\ DOMAIN t = 1 .. n
  BY LenProperties
<1>3. /\ w \in Seq(CachePaths) /\ Len(w) = m + n
      /\ \A i \in 1 .. m + n : w[i] = IF i <= m THEN s[i] ELSE t[i - m]
  BY ConcatProperties
<1>4. DOMAIN w = 1 .. m + n
  BY <1>3, LenProperties
<1> HIDE DEF w, m, n
<1>5. \A i \in 1 .. m + n : \/ i <= m /\ i \in 1 .. m /\ w[i] = s[i]
                            \/ i > m /\ i - m \in 1 .. n /\ w[i] = t[i - m]
  BY <1>2, <1>3
<1>8. Range(w) = Range(s) \cup Range(t)
  <2>1. \A i \in 1 .. m : i \in 1 .. m + n /\ w[i] = s[i]
    BY <1>2, <1>3
  <2>2. \A j \in 1 .. n : j + m \in 1 .. m + n /\ w[j + m] = t[j]
    BY <1>2, <1>3
  <2>3. Range(w) = {w[i] : i \in 1 .. m + n}
    BY <1>4 DEF Range
  <2>4. Range(s) = {s[i] : i \in 1 .. m} /\ Range(t) = {t[i] : i \in 1 .. n}
    BY <1>2 DEF Range
  <2> QED
    BY <1>5, <2>1, <2>2, <2>3, <2>4
<1> QED
  BY <1>3, <1>8 DEF w

\* A queue: paths, each at most once.
Queues == {s \in Seq(CachePaths) : IsInjective(s)}

LEMMA JoinQueues ==
    ASSUME NEW s \in Queues, NEW t \in Queues, Range(s) \cap Range(t) = {}
    PROVE  s \o t \in Queues /\ Range(s \o t) = Range(s) \cup Range(t)
<1> DEFINE m == Len(s)
           n == Len(t)
           w == s \o t
<1>1. s \in Seq(CachePaths) /\ t \in Seq(CachePaths) /\ IsInjective(s) /\ IsInjective(t)
  BY DEF Queues
<1>2. m \in Nat /\ n \in Nat /\ DOMAIN s = 1 .. m /\ DOMAIN t = 1 .. n
  BY <1>1, LenProperties
<1>3. /\ w \in Seq(CachePaths) /\ Len(w) = m + n
      /\ \A i \in 1 .. m + n : w[i] = IF i <= m THEN s[i] ELSE t[i - m]
  BY <1>1, ConcatProperties
<1>4. DOMAIN w = 1 .. m + n
  BY <1>3, LenProperties
<1> HIDE DEF w, m, n
<1>5. \A i \in 1 .. m + n : \/ i <= m /\ i \in 1 .. m /\ w[i] = s[i]
                            \/ i > m /\ i - m \in 1 .. n /\ w[i] = t[i - m]
  BY <1>2, <1>3
<1>6. \A i \in 1 .. m, j \in 1 .. n : s[i] # t[j]
  BY <1>2 DEF Range
<1>7. IsInjective(w)
  <2> SUFFICES ASSUME NEW i \in 1 .. m + n, NEW j \in 1 .. m + n, w[i] = w[j] PROVE i = j
    BY <1>4 DEF IsInjective
  <2>1. CASE i <= m /\ j <= m
    BY <1>1, <1>2, <1>5, <2>1 DEF IsInjective
  <2>2. CASE i > m /\ j > m
    <3>1. /\ i - m \in 1 .. n /\ w[i] = t[i - m]
          /\ j - m \in 1 .. n /\ w[j] = t[j - m]
      BY <1>2, <1>5, <2>2
    <3>2. i - m = j - m
      BY <1>1, <1>2, <3>1 DEF IsInjective
    <3> QED
      BY <1>2, <3>2
  <2>3. CASE (i <= m /\ j > m) \/ (i > m /\ j <= m)
    BY <1>2, <1>5, <1>6, <2>3
  <2> QED
    BY <1>2, <2>1, <2>2, <2>3
<1>8. Range(w) = Range(s) \cup Range(t)
  BY <1>1, JoinRange DEF w
<1> QED
  BY <1>3, <1>7, <1>8 DEF Queues, w

LEMMA CutQueue ==
    ASSUME NEW s \in Queues, NEW a \in Int, NEW b \in Int, 1 <= a, b <= Len(s)
    PROVE  /\ SubSeq(s, a, b) \in Queues
           /\ Range(SubSeq(s, a, b)) = {s[i] : i \in a .. b}
<1> DEFINE w == SubSeq(s, a, b)
<1>1. s \in Seq(CachePaths) /\ IsInjective(s) /\ Len(s) \in Nat /\ DOMAIN s = 1 .. Len(s)
  BY LenProperties DEF Queues
<1>2. \A i \in a .. b : i \in 1 .. Len(s) /\ s[i] \in CachePaths
  BY <1>1, ElementOfSeq
<1>3. /\ w \in Seq(CachePaths) /\ Len(w) = IF a <= b THEN b - a + 1 ELSE 0
      /\ \A i \in 1 .. b - a + 1 : w[i] = s[a + i - 1]
  BY <1>2, SubSeqProperties
<1>4. DOMAIN w = 1 .. Len(w)
  BY <1>3, LenProperties
<1> HIDE DEF w
<1>5. \A i \in 1 .. Len(w) : a + i - 1 \in a .. b /\ w[i] = s[a + i - 1]
  BY <1>3
<1>6. IsInjective(w)
  <2> SUFFICES ASSUME NEW i \in 1 .. Len(w), NEW j \in 1 .. Len(w), w[i] = w[j] PROVE i = j
    BY <1>4 DEF IsInjective
  <2>1. a + i - 1 = a + j - 1
    BY <1>1, <1>2, <1>5 DEF IsInjective
  <2> QED
    BY <2>1
<1>7. Range(w) = {s[i] : i \in a .. b}
  BY <1>1, CutRange DEF w
<1> QED
  BY <1>3, <1>6, <1>7 DEF Queues, w

LEMMA OneQueue == ASSUME NEW k \in CachePaths PROVE <<k>> \in Queues /\ Range(<<k>>) = {k}
<1>1. <<k>> \in Seq(CachePaths) /\ Len(<<k>>) = 1 /\ <<k>>[1] = k
  OBVIOUS
<1>2. DOMAIN <<k>> = 1 .. 1
  BY <1>1, LenProperties
<1> QED
  BY <1>1, <1>2 DEF Queues, IsInjective, Range

LEMMA AppendQueue ==
    ASSUME NEW s \in Queues, NEW k \in CachePaths, k \notin Range(s)
    PROVE  Append(s, k) \in Queues /\ Range(Append(s, k)) = Range(s) \cup {k}
<1>1. Append(s, k) = s \o <<k>>
  BY AppendIsConcat DEF Queues
<1>2. <<k>> \in Queues /\ Range(<<k>>) = {k}
  BY OneQueue
<1> QED
  BY <1>1, <1>2, JoinQueues

\* A queue cut in two.
LEMMA SplitQueue ==
    ASSUME NEW s \in Queues, NEW i \in 0 .. Len(s)
    PROVE  /\ SubSeq(s, 1, i) \in Queues /\ SubSeq(s, i + 1, Len(s)) \in Queues
           /\ Range(s) = Range(SubSeq(s, 1, i)) \cup Range(SubSeq(s, i + 1, Len(s)))
           /\ Range(SubSeq(s, 1, i)) \cap Range(SubSeq(s, i + 1, Len(s))) = {}
<1>1. s \in Seq(CachePaths) /\ IsInjective(s) /\ Len(s) \in Nat /\ DOMAIN s = 1 .. Len(s)
  BY LenProperties DEF Queues
<1>2. /\ SubSeq(s, 1, i) \in Queues /\ Range(SubSeq(s, 1, i)) = {s[j] : j \in 1 .. i}
  BY <1>1, CutQueue
<1>3. /\ SubSeq(s, i + 1, Len(s)) \in Queues
      /\ Range(SubSeq(s, i + 1, Len(s))) = {s[j] : j \in i + 1 .. Len(s)}
  BY <1>1, CutQueue
<1>4. Range(s) = {s[j] : j \in 1 .. Len(s)}
  BY <1>1 DEF Range
<1>5. \A j \in 1 .. i, h \in i + 1 .. Len(s) : s[j] # s[h]
  BY <1>1 DEF IsInjective
<1>6. \A j \in 1 .. Len(s) : j \in 1 .. i \/ j \in i + 1 .. Len(s)
  BY <1>1
<1>7. (1 .. i) \subseteq 1 .. Len(s) /\ (i + 1 .. Len(s)) \subseteq 1 .. Len(s)
  BY <1>1
<1> QED
  BY <1>2, <1>3, <1>4, <1>5, <1>6, <1>7

\* The first entries of a list weigh what their files do, when no path is twice there.
LEMMA FirstWeighs ==
    ASSUME NEW s \in Seq(CachePaths), NEW i \in 0 .. Len(s)
    PROVE  LET w == [j \in DOMAIN s |-> Size[PathKey[s[j]]]] IN
           /\ Weight(1 .. i, w) \in Nat
           /\ IsInjective(s) => Weight(1 .. i, w) = Bytes({s[j] : j \in 1 .. i})
<1> DEFINE w == [j \in DOMAIN s |-> Size[PathKey[s[j]]]]
           I == 1 .. i
           S == {s[j] : j \in I}
           A == Weighed(I, w)
           B == Weighed(S, SizeOf)
<1>1. i \in Nat /\ \A j \in I : /\ j \in DOMAIN s /\ s[j] \in CachePaths
                                /\ w[j] = SizeOf[s[j]] /\ w[j] \in Nat
  <2>1. Len(s) \in Nat /\ DOMAIN s = 1 .. Len(s)
    BY LenProperties
  <2>2. i \in Nat /\ \A j \in I : j \in DOMAIN s
    BY <2>1
  <2>3. \A j \in I : s[j] \in CachePaths
    BY <2>1, <2>2, ElementOfSeq
  <2> QED
    BY <2>2, <2>3, SizesAre
<1> HIDE DEF w
<1>2. IsFiniteSet(I)
  <2>1. 1 \in Int /\ i \in Int
    BY <1>1
  <2> QED
    BY <2>1, FS_Interval
<1>3. IsFiniteSet(A) /\ Weight(I, w) = Cardinality(A) /\ Weight(I, w) \in Nat
  <2> HIDE DEF I
  <2> QED
    BY <1>1, <1>2, WeightFinite
<1>4. S \in SUBSET CachePaths
  BY <1>1
<1>5. Bytes(S) = Cardinality(B)
  <2> HIDE DEF S
  <2> QED
    BY <1>4, BytesFinite
<1>6. ASSUME IsInjective(s) PROVE Weight(I, w) = Bytes(S)
  <2> DEFINE f == [x \in A |-> <<s[x[1]], x[2]>>]
  <2>1. \A x \in A : /\ x = <<x[1], x[2]>> /\ x[1] \in I /\ x[2] \in 1 .. w[x[1]]
    BY WeighedIn
  <2>2. \A y \in B : /\ y = <<y[1], y[2]>> /\ y[1] \in S /\ y[2] \in 1 .. SizeOf[y[1]]
    BY WeighedIn
  <2>3. \A j \in I : \A b \in 1 .. w[j] : <<j, b>> \in A
    BY WeighedIn
  <2>4. \A p \in S : \A b \in 1 .. SizeOf[p] : <<p, b>> \in B
    BY WeighedIn
  <2>5. \A j, h \in I : s[j] = s[h] => j = h
    BY <1>1, <1>6 DEF IsInjective
  <2> HIDE DEF A, B, I
  <2>6. ASSUME NEW x \in A PROVE <<s[x[1]], x[2]>> \in B
    <3>1. s[x[1]] \in S /\ x[2] \in 1 .. SizeOf[s[x[1]]]
      BY <1>1, <2>1
    <3> QED
      BY <2>4, <3>1
  <2>7. ASSUME NEW x \in A, NEW y \in A, <<s[x[1]], x[2]>> = <<s[y[1]], y[2]>> PROVE x = y
    <3>1. x[1] \in I /\ y[1] \in I /\ s[x[1]] = s[y[1]] /\ x[2] = y[2]
      BY <2>1, <2>7
    <3>2. x[1] = y[1]
      BY <2>5, <3>1
    <3> QED
      BY <2>1, <3>1, <3>2
  <2>8. ASSUME NEW y \in B PROVE \E x \in A : <<s[x[1]], x[2]>> = y
    <3>1. PICK j \in I : s[j] = y[1]
      BY <2>2
    <3>2. y[2] \in 1 .. w[j]
      BY <1>1, <2>2, <3>1
    <3>3. <<j, y[2]>> \in A
      BY <2>3, <3>2
    <3>4. <<s[<<j, y[2]>>[1]], <<j, y[2]>>[2]>> = y
      BY <2>2, <3>1
    <3> QED
      BY <3>3, <3>4
  <2>9. f \in Bijection(A, B)
    <3>1. f \in Injection(A, B)
      BY <2>6, <2>7 DEF Injection, IsInjective
    <3>2. f \in Surjection(A, B)
      BY <2>6, <2>8 DEF Surjection
    <3> QED
      BY <3>1, <3>2 DEF Bijection
  <2> HIDE DEF f
  <2>10. ExistsBijection(A, B)
    BY <2>9 DEF ExistsBijection
  <2> QED
    BY <1>3, <1>5, <2>10, FS_Bijection
<1> QED
  BY <1>3, <1>6 DEF w

\* A path in a list has a last place there.
LEMMA LastPlace ==
    ASSUME NEW s \in Seq(CachePaths), NEW p \in Range(s)
    PROVE  \E i \in DOMAIN s : s[i] = p /\ \A j \in DOMAIN s : s[j] = p => j <= i
<1> DEFINE R == {ss \in Nat \X Nat : ss[1] < ss[2]}
           n == Len(s)
           T == {n - j : j \in {h \in 1 .. n : s[h] = p}}
<1>1. IsWellFoundedOn(R, Nat)
  <2>1. R = OpToRel(<, Nat)
    BY DEF OpToRel
  <2> QED
    BY <2>1, NatLessThanWellFounded
<1>2. n \in Nat /\ DOMAIN s = 1 .. n
  BY LenProperties
<1> HIDE DEF n
<1>3. T \subseteq Nat
  BY <1>2
<1>4. T # {}
  <2>1. PICK h \in 1 .. n : s[h] = p
    BY <1>2 DEF Range
  <2>2. n - h \in T
    BY <2>1
  <2> QED
    BY <2>2
<1>5. PICK x \in T : \A y \in T : ~ (<<y, x>> \in R)
  <2> HIDE DEF R, T
  <2> QED
    BY <1>1, <1>3, <1>4, WFMin
<1>6. PICK i \in 1 .. n : s[i] = p /\ x = n - i
  BY <1>5
<1>7. ASSUME NEW j \in 1 .. n, s[j] = p PROVE j <= i
  <2>1. n - j \in T /\ n - j \in Nat /\ x \in Nat
    BY <1>2, <1>7, <1>6
  <2>2. ~ (n - j < x)
    BY <1>5, <2>1
  <2> QED
    BY <1>2, <1>6, <2>2
<1> QED
  BY <1>2, <1>6, <1>7

LEMMA AppendRange ==
    ASSUME NEW s \in Seq(CachePaths), NEW p \in CachePaths
    PROVE  Append(s, p) \in Seq(CachePaths) /\ Range(Append(s, p)) = Range(s) \cup {p}
<1>1. Append(s, p) = s \o <<p>>
  BY AppendIsConcat
<1>2. <<p>> \in Seq(CachePaths) /\ Range(<<p>>) = {p}
  BY OneQueue DEF Queues
<1> QED
  BY <1>1, <1>2, JoinRange

-----------------------------------------------------------------------------
(* ImageFetch: the disk cache                                              *)

\* What holds in any case: a key's entry is one of the list's, and its path the key's.
CacheTyped ==
    /\ lru \in Seq(CachePaths) /\ items \in [FetchKeys -> CachePaths \cup {NoImage}]
    /\ \A k \in Indexed : PathKey[items[k]] = k /\ items[k] \in Range(lru)
    /\ total \in Int /\ cacheFile \in [CachePaths -> Content] /\ twice \subseteq FetchKeys

\* What holds unless a start found a key under two names.
Clean ==
    /\ IsInjective(lru) /\ Range(lru) = {items[k] : k \in Indexed}
    /\ total = Bytes(Range(lru))
    /\ \A k \in Indexed : cacheFile[items[k]] # "none"

CacheInv == CacheTyped /\ (twice = {} => Clean)

LEMMA IndexedPaths ==
    ASSUME CacheTyped
    PROVE  \A k \in FetchKeys : /\ k \in Indexed => items[k] \in CachePaths
                                /\ k \notin Indexed => items[k] = NoImage
BY DEF CacheTyped, Indexed

LEMMA CacheBegins == FetchInit => CacheInv
<1> SUFFICES ASSUME FetchInit PROVE CacheInv
  OBVIOUS
<1>1. lru = <<>> /\ lru \in Seq(CachePaths) /\ DOMAIN lru = {}
  BY DEF FetchInit
<1>2. Indexed = {} /\ Range(lru) = {}
  BY <1>1 DEF FetchInit, Indexed, Range
<1>3. Clean
  BY <1>1, <1>2, BytesOfNone DEF FetchInit, Clean, IsInjective
<1>4. CacheTyped
  BY <1>1, <1>2 DEF FetchInit, CacheTyped, Content
<1> QED
  BY <1>3, <1>4 DEF CacheInv

\* The places before and after one of a list.
LEMMA Around ==
    ASSUME NEW n \in Nat, NEW i \in 1 .. n
    PROVE  /\ \A j \in 1 .. n : j # i => j \in 1 .. i - 1 \/ j \in i + 1 .. n
           /\ \A j \in 1 .. i - 1 : j \in 1 .. n /\ j # i
           /\ \A j \in i + 1 .. n : j \in 1 .. n /\ j # i
           /\ \A j \in 1 .. i - 1, h \in i + 1 .. n : j # h
<1>1. i \in Nat /\ 1 <= i /\ i <= n
  OBVIOUS
<1>2. \A j \in 1 .. n : j # i => j \in 1 .. i - 1 \/ j \in i + 1 .. n
  BY <1>1
<1>3. \A j \in 1 .. i - 1 : j \in 1 .. n /\ j # i
  BY <1>1
<1>4. \A j \in i + 1 .. n : j \in 1 .. n /\ j # i
  BY <1>1
<1>5. \A j \in 1 .. i - 1, h \in i + 1 .. n : j # h
  BY <1>1
<1> QED
  BY <1>2, <1>3, <1>4, <1>5

\* The list without a key's entry.
LEMMA OthersAre ==
    ASSUME CacheTyped, NEW k \in FetchKeys
    PROVE  /\ Others(k) \in Seq(CachePaths) /\ Range(Others(k)) \subseteq Range(lru)
           /\ \A p \in Range(lru) : p \in Range(Others(k)) \/ (k \in Indexed /\ p = items[k])
           /\ k \notin Indexed => Others(k) = lru
           /\ IsInjective(lru) => /\ IsInjective(Others(k))
                                  /\ k \in Indexed => items[k] \notin Range(Others(k))
<1>1. lru \in Seq(CachePaths) /\ Len(lru) \in Nat /\ DOMAIN lru = 1 .. Len(lru)
  BY LenProperties DEF CacheTyped
<1>2. Range(lru) = {lru[j] : j \in 1 .. Len(lru)}
  BY <1>1 DEF Range
<1>3. CASE k \notin Indexed
  BY <1>1, <1>3 DEF Others
<1>4. CASE k \in Indexed
  <2> DEFINE i == CHOOSE i \in DOMAIN lru :
                      /\ lru[i] = items[k]
                      /\ \A j \in DOMAIN lru : lru[j] = items[k] => j <= i
             l == SubSeq(lru, 1, i - 1)
             r == SubSeq(lru, i + 1, Len(lru))
  <2>1. items[k] \in Range(lru)
    BY <1>4 DEF CacheTyped
  <2>2. i \in 1 .. Len(lru) /\ lru[i] = items[k]
    <3>1. \E h \in DOMAIN lru : lru[h] = items[k] /\ \A j \in DOMAIN lru : lru[j] = items[k] => j <= h
      BY <1>1, <2>1, LastPlace
    <3> QED
      BY <1>1, <3>1
  <2>3. Others(k) = l \o r
    BY <1>4 DEF Others, RemoveAt
  <2> HIDE DEF i
  <2>4. /\ l \in Seq(CachePaths) /\ Range(l) = {lru[j] : j \in 1 .. i - 1}
        /\ r \in Seq(CachePaths) /\ Range(r) = {lru[j] : j \in i + 1 .. Len(lru)}
    <3>1. /\ 1 \in Int /\ i - 1 \in Int /\ 1 <= 1 /\ i - 1 <= Len(lru)
          /\ i + 1 \in Int /\ Len(lru) \in Int /\ 1 <= i + 1 /\ Len(lru) <= Len(lru)
      BY <1>1, <2>2
    <3>2. l \in Seq(CachePaths) /\ Range(l) = {lru[j] : j \in 1 .. i - 1}
      BY ONLY <1>1, <3>1, CutRange
    <3>3. r \in Seq(CachePaths) /\ Range(r) = {lru[j] : j \in i + 1 .. Len(lru)}
      BY ONLY <1>1, <3>1, CutRange
    <3> QED
      BY <3>2, <3>3
  <2>5. /\ \A j \in 1 .. Len(lru) : j # i => j \in 1 .. i - 1 \/ j \in i + 1 .. Len(lru)
        /\ \A j \in 1 .. i - 1 : j \in 1 .. Len(lru) /\ j # i
        /\ \A j \in i + 1 .. Len(lru) : j \in 1 .. Len(lru) /\ j # i
        /\ \A j \in 1 .. i - 1, h \in i + 1 .. Len(lru) : j # h
    <3>1. Len(lru) \in Nat /\ i \in 1 .. Len(lru)
      BY <1>1, <2>2
    <3> HIDE DEF l, r
    <3> QED
      BY ONLY <3>1, Around
  <2>6. Others(k) \in Seq(CachePaths) /\ Range(Others(k)) = Range(l) \cup Range(r)
    <3> HIDE DEF l, r
    <3> QED
      BY <2>3, <2>4, JoinRange
  <2>7. /\ Range(Others(k)) \subseteq Range(lru)
        /\ \A p \in Range(lru) : p \in Range(Others(k)) \/ p = items[k]
    BY <1>2, <2>2, <2>4, <2>5, <2>6
  <2>8. ASSUME IsInjective(lru)
        PROVE  IsInjective(Others(k)) /\ items[k] \notin Range(Others(k))
    <3>1. lru \in Queues
      BY <1>1, <2>8 DEF Queues
    <3>2. l \in Queues /\ r \in Queues
      <4>1. /\ 1 \in Int /\ i - 1 \in Int /\ 1 <= 1 /\ i - 1 <= Len(lru)
            /\ i + 1 \in Int /\ Len(lru) \in Int /\ 1 <= i + 1 /\ Len(lru) <= Len(lru)
        BY <1>1, <2>2
      <4>2. l \in Queues
        BY ONLY <3>1, <4>1, CutQueue
      <4>3. r \in Queues
        BY ONLY <3>1, <4>1, CutQueue
      <4> QED
        BY <4>2, <4>3
    <3>3. \A j, h \in 1 .. Len(lru) : lru[j] = lru[h] => j = h
      BY <1>1, <2>8 DEF IsInjective
    <3>4. Range(l) \cap Range(r) = {}
      BY <2>4, <2>5, <3>3
    <3>5. Others(k) \in Queues
      <4> HIDE DEF l, r
      <4> QED
        BY <2>3, <3>2, <3>4, JoinQueues
    <3>6. items[k] \notin Range(Others(k))
      BY <2>2, <2>4, <2>6, <3>3
    <3> QED
      BY <3>5, <3>6 DEF Queues
  <2> QED
    BY <1>4, <2>6, <2>7, <2>8
<1> QED
  BY <1>3, <1>4

LEMMA TouchKeeps ==
    ASSUME CacheInv, NEW k \in Indexed, lru' = Touched(k),
           UNCHANGED <<items, total, cacheFile, twice>>
    PROVE  CacheInv' /\ Indexed' = Indexed
<1>1. k \in FetchKeys /\ items[k] \in CachePaths /\ CacheTyped
  BY IndexedPaths DEF CacheInv, Indexed
<1>2. Indexed' = Indexed
  BY DEF Indexed
<1>3. /\ Others(k) \in Seq(CachePaths) /\ Range(Others(k)) \subseteq Range(lru)
      /\ \A p \in Range(lru) : p \in Range(Others(k)) \/ p = items[k]
  BY <1>1, OthersAre
<1>4. lru' \in Seq(CachePaths) /\ Range(lru') = Range(Others(k)) \cup {items[k]}
  BY <1>1, <1>3, AppendRange DEF Touched
<1>5. Range(lru') = Range(lru)
  BY <1>1, <1>3, <1>4 DEF CacheTyped
<1>6. CacheTyped'
  BY <1>1, <1>2, <1>4, <1>5 DEF CacheTyped
<1>7. ASSUME twice' = {} PROVE Clean'
  <2>1. Clean
    BY <1>7 DEF CacheInv
  <2>2. Others(k) \in Queues /\ items[k] \notin Range(Others(k))
    BY <1>1, <1>3, <2>1, OthersAre DEF Clean, Queues
  <2>3. IsInjective(lru')
    BY <1>1, <2>2, AppendQueue DEF Touched, Queues
  <2> QED
    BY <1>2, <1>5, <2>1, <2>3 DEF Clean
<1> QED
  BY <1>2, <1>6, <1>7 DEF CacheInv

\* In a clean index, other paths of the list are other keys'.
LEMMA CleanOthers ==
    ASSUME CacheTyped, Clean, NEW k \in FetchKeys
    PROVE  /\ Range(Others(k)) = {items[x] : x \in Indexed \ {k}}
           /\ total = Bytes(Range(Others(k))) + (IF k \in Indexed THEN Size[k] ELSE 0)
<1>1. /\ Range(Others(k)) \subseteq Range(lru)
      /\ \A p \in Range(lru) : p \in Range(Others(k)) \/ (k \in Indexed /\ p = items[k])
      /\ k \in Indexed => items[k] \notin Range(Others(k))
      /\ k \notin Indexed => Others(k) = lru
  BY OthersAre DEF Clean
<1>2. \A x \in Indexed : items[x] \in Range(lru) /\ PathKey[items[x]] = x
  BY DEF CacheTyped
<1>3. Range(Others(k)) = {items[x] : x \in Indexed \ {k}}
  BY <1>1, <1>2 DEF Clean
<1>4. \A x \in Indexed : items[x] \in CachePaths
  BY IndexedPaths DEF Indexed
<1> DEFINE S == Range(Others(k))
<1>5. S \in SUBSET CachePaths
  BY <1>3, <1>4
<1>6. CASE k \notin Indexed
  <2>1. total = Bytes(S)
    BY <1>1, <1>6 DEF Clean
  <2> HIDE DEF S
  <2>2. Bytes(S) \in Nat
    BY <1>5, BytesFinite
  <2> QED
    BY <1>3, <1>6, <2>1, <2>2 DEF S
<1>7. CASE k \in Indexed
  <2>1. Range(lru) = S \cup {items[k]} /\ S \cap {items[k]} = {}
    BY <1>1, <1>2, <1>7
  <2>2. items[k] \in CachePaths /\ PathKey[items[k]] = k /\ {items[k]} \in SUBSET CachePaths
    BY <1>2, <1>4, <1>7
  <2>3. total = Bytes(Range(lru))
    BY DEF Clean
  <2> HIDE DEF S
  <2>4. Bytes(S \cup {items[k]}) = Bytes(S) + Bytes({items[k]})
    BY <1>5, <2>1, <2>2, BytesOfBoth
  <2>5. Bytes({items[k]}) = Size[k]
    BY <2>2, BytesOfOne
  <2> QED
    BY <1>3, <1>7, <2>1, <2>3, <2>4, <2>5 DEF S
<1> QED
  BY <1>6, <1>7

LEMMA EvictKeeps ==
    ASSUME CacheInv, NEW k \in FetchKeys, Evict(k)
    PROVE  /\ CacheInv' /\ twice' = twice /\ Indexed' \subseteq Indexed
           /\ \A p \in CachePaths : PathKey[p] # k => cacheFile'[p] = cacheFile[p]
<1>0. CacheTyped
  BY DEF CacheInv
<1>1. CASE k \notin Indexed
  <2>1. UNCHANGED <<lru, items, total, cacheFile, twice>>
    BY <1>1 DEF Evict, cacheVars
  <2> QED
    BY <2>1 DEF CacheInv, CacheTyped, Clean, Indexed
<1>2. CASE k \in Indexed
  <2>1. /\ lru' = Others(k) /\ items' = [items EXCEPT ![k] = NoImage]
        /\ total' = total - Size[k] /\ twice' = twice
        /\ cacheFile' = [cacheFile EXCEPT ![items[k]] = "none"]
    BY <1>2 DEF Evict
  <2>2. /\ lru' \in Seq(CachePaths) /\ Range(lru') \subseteq Range(lru)
        /\ \A p \in Range(lru) : p \in Range(lru') \/ p = items[k]
    BY <1>0, <2>1, OthersAre
  <2>3. items[k] \in CachePaths /\ PathKey[items[k]] = k
    BY <1>0, <1>2, IndexedPaths DEF CacheTyped
  <2>4. Indexed' = Indexed \ {k} /\ \A x \in FetchKeys : x # k => items'[x] = items[x]
    BY <1>0, <2>1 DEF CacheTyped, Indexed
  <2>5. \A x \in Indexed' : /\ x \in Indexed /\ items'[x] = items[x] /\ items[x] # items[k]
                            /\ items[x] \in CachePaths
    BY <1>0, <1>2, <2>4, IndexedPaths DEF CacheTyped, Indexed
  <2>6. /\ items' \in [FetchKeys -> CachePaths \cup {NoImage}]
        /\ cacheFile' \in [CachePaths -> Content] /\ total' \in Int
        /\ \A p \in CachePaths : p # items[k] => cacheFile'[p] = cacheFile[p]
    BY <1>0, <2>1, <2>3, SizesAre DEF CacheTyped, Content
  <2>7. CacheTyped'
    BY <1>0, <2>1, <2>2, <2>5, <2>6 DEF CacheTyped
  <2>8. ASSUME twice' = {} PROVE Clean'
    <3>1. Clean
      BY <2>1, <2>8 DEF CacheInv
    <3>2. Range(lru') = {items[x] : x \in Indexed \ {k}} /\ total = Bytes(Range(lru')) + Size[k]
      BY <1>0, <1>2, <2>1, <3>1, CleanOthers
    <3>3. Range(lru') = {items'[x] : x \in Indexed'}
      BY <2>4, <2>5, <3>2
    <3>4. IsInjective(lru')
      BY <1>0, <2>1, <3>1, OthersAre DEF Clean
    <3>5. total' = Bytes(Range(lru'))
      <4> DEFINE S == Range(lru')
      <4>1. S \in SUBSET CachePaths
        BY <2>5, <3>3
      <4>2. total' = (Bytes(S) + Size[k]) - Size[k]
        BY <2>1, <3>2
      <4> HIDE DEF S
      <4>3. Bytes(S) \in Nat /\ Size[k] \in Nat
        BY <4>1, BytesFinite, SizesAre
      <4> QED
        BY <4>2, <4>3 DEF S
    <3>6. \A x \in Indexed' : cacheFile'[items'[x]] # "none"
      BY <2>5, <2>6, <3>1 DEF Clean
    <3> QED
      BY <3>3, <3>4, <3>5, <3>6 DEF Clean
  <2>9. \A p \in CachePaths : PathKey[p] # k => cacheFile'[p] = cacheFile[p]
    BY <2>3, <2>6
  <2> QED
    BY <2>1, <2>4, <2>7, <2>8, <2>9 DEF CacheInv
<1> QED
  BY <1>1, <1>2

\* What is admitted is in the list, with the key's entry; nothing else has come.
LEMMA AdmitTyped ==
    ASSUME CacheTyped, NEW p \in CachePaths, Admit(p)
    PROVE  CacheTyped' /\ twice' = twice
<1> DEFINE k == PathKey[p]
           s == Others(k)
           before == IF k \in Indexed THEN total - Size[k] ELSE total
           w == [j \in DOMAIN s |-> Size[PathKey[s[j]]]]
<1>1. PICK i \in 0 .. Len(s) :
        /\ lru' = Append(SubSeq(s, i + 1, Len(s)), p)
        /\ items' = [x \in FetchKeys |->
                        IF x = k THEN p
                        ELSE IF \E g \in Range(SubSeq(s, 1, i)) : PathKey[g] = x THEN NoImage
                        ELSE items[x]]
        /\ total' = (before - Weight(1 .. i, w)) + Size[k]
        /\ cacheFile' = [x \in CachePaths |->
                            IF x \in Range(SubSeq(s, 1, i)) THEN "none" ELSE cacheFile[x]]
        /\ twice' = twice
  BY DEF Admit
<1> DEFINE gone == Range(SubSeq(s, 1, i))
           kept == SubSeq(s, i + 1, Len(s))
<1>2. k \in FetchKeys /\ Size[k] \in Nat
  BY SizesAre
<1>3. /\ s \in Seq(CachePaths) /\ Range(s) \subseteq Range(lru)
      /\ \A q \in Range(lru) : q \in Range(s) \/ (k \in Indexed /\ q = items[k])
  BY <1>2, OthersAre
<1>4. Len(s) \in Nat /\ i \in Nat /\ i \in 0 .. Len(s)
  BY <1>3, LenProperties
<1>5. Weight(1 .. i, w) \in Nat
  BY <1>3, <1>4, FirstWeighs
<1>6. /\ kept \in Seq(CachePaths) /\ Range(s) = gone \cup Range(kept)
  <2> HIDE DEF s
  <2>1. /\ SubSeq(s, 1, i) \in Seq(CachePaths) /\ gone = {s[j] : j \in 1 .. i}
        /\ kept \in Seq(CachePaths) /\ Range(kept) = {s[j] : j \in i + 1 .. Len(s)}
    BY <1>3, <1>4, CutRange
  <2>2. Range(s) = {s[j] : j \in 1 .. Len(s)}
    BY <1>3, LenProperties DEF Range
  <2>3. /\ \A j \in 1 .. Len(s) : j \in 1 .. i \/ j \in i + 1 .. Len(s)
        /\ \A j \in 1 .. i : j \in 1 .. Len(s)
        /\ \A j \in i + 1 .. Len(s) : j \in 1 .. Len(s)
    BY <1>4
  <2> QED
    BY <2>1, <2>2, <2>3
<1>7. /\ lru' = Append(kept, p)
      /\ items' = [x \in FetchKeys |-> IF x = k THEN p
                                       ELSE IF \E g \in gone : PathKey[g] = x THEN NoImage
                                       ELSE items[x]]
      /\ total' = (before - Weight(1 .. i, w)) + Size[k]
      /\ cacheFile' = [x \in CachePaths |-> IF x \in gone THEN "none" ELSE cacheFile[x]]
      /\ twice' = twice
  BY <1>1
<1>8. before \in Int
  BY <1>2 DEF CacheTyped
<1> HIDE DEF gone, kept, s, w, before
<1>9. lru' \in Seq(CachePaths) /\ Range(lru') = Range(kept) \cup {p}
  BY <1>6, <1>7, AppendRange
<1>10. total' \in Int
  BY <1>2, <1>5, <1>7, <1>8
<1>11. /\ items' \in [FetchKeys -> CachePaths \cup {NoImage}] /\ cacheFile' \in [CachePaths -> Content]
  BY <1>7 DEF CacheTyped, Content
<1>12. ASSUME NEW x \in Indexed' PROVE PathKey[items'[x]] = x /\ items'[x] \in Range(lru')
  <2>1. x \in FetchKeys /\ items'[x] # NoImage
    BY DEF Indexed
  <2>2. CASE x = k
    BY <1>7, <1>9, <2>1, <2>2
  <2>3. CASE x # k
    <3>1. items'[x] = items[x] /\ x \in Indexed /\ \A g \in gone : PathKey[g] # x
      BY <1>7, <2>1, <2>3 DEF Indexed
    <3>2. PathKey[items[x]] = x /\ items[x] \in Range(lru)
      BY <3>1 DEF CacheTyped
    <3>3. k \in Indexed => PathKey[items[k]] = k
      BY DEF CacheTyped
    <3>4. items[x] \in Range(s)
      BY <1>3, <2>3, <3>2, <3>3
    <3>5. items[x] \in Range(kept)
      BY <1>6, <3>1, <3>2, <3>4
    <3> QED
      BY <1>9, <3>1, <3>2, <3>5
  <2> QED
    BY <2>2, <2>3
<1> QED
  BY <1>7, <1>9, <1>10, <1>11, <1>12 DEF CacheTyped

\* An admission to a clean index of a key that is not there, with its file.
LEMMA AdmitKeeps ==
    ASSUME CacheTyped, Clean, NEW p \in CachePaths, PathKey[p] \notin Indexed,
           cacheFile[p] # "none", Admit(p)
    PROVE  /\ Clean' /\ Indexed' \subseteq Indexed \cup {PathKey[p]}
           /\ \A q \in CachePaths : PathKey[q] \notin Indexed => cacheFile'[q] = cacheFile[q]
<1> DEFINE k == PathKey[p]
           s == Others(k)
           before == IF k \in Indexed THEN total - Size[k] ELSE total
           w == [j \in DOMAIN s |-> Size[PathKey[s[j]]]]
<1>0. k \in FetchKeys /\ Size[k] \in Nat /\ s = lru /\ before = total
  BY SizesAre DEF Others
<1>1. PICK i \in 0 .. Len(s) :
        /\ lru' = Append(SubSeq(s, i + 1, Len(s)), p)
        /\ items' = [x \in FetchKeys |->
                        IF x = k THEN p
                        ELSE IF \E g \in Range(SubSeq(s, 1, i)) : PathKey[g] = x THEN NoImage
                        ELSE items[x]]
        /\ total' = (before - Weight(1 .. i, w)) + Size[k]
        /\ cacheFile' = [x \in CachePaths |->
                            IF x \in Range(SubSeq(s, 1, i)) THEN "none" ELSE cacheFile[x]]
  BY DEF Admit
<1> DEFINE gone == Range(SubSeq(s, 1, i))
           kept == SubSeq(s, i + 1, Len(s))
<1>2. s \in Queues /\ s \in Seq(CachePaths) /\ IsInjective(s) /\ Len(s) \in Nat /\ i \in 0 .. Len(s)
  <2> HIDE DEF s
  <2> QED
    BY <1>0, LenProperties DEF CacheTyped, Clean, Queues
<1>3. /\ kept \in Queues /\ SubSeq(lru, 1, i) \in Queues
      /\ Range(lru) = gone \cup Range(kept) /\ gone \cap Range(kept) = {}
  <2> HIDE DEF s
  <2> QED
    BY <1>0, <1>2, SplitQueue
<1>4. Weight(1 .. i, w) = Bytes(gone)
  <2> HIDE DEF s
  <2>1. Weight(1 .. i, w) = Bytes({s[j] : j \in 1 .. i})
    BY <1>2, FirstWeighs
  <2>2. gone = {s[j] : j \in 1 .. i}
    BY <1>2, CutRange
  <2> QED
    BY <2>1, <2>2
<1>5. /\ lru' = Append(kept, p)
      /\ items' = [x \in FetchKeys |-> IF x = k THEN p
                                       ELSE IF \E g \in gone : PathKey[g] = x THEN NoImage
                                       ELSE items[x]]
      /\ total' = (total - Bytes(gone)) + Size[k]
      /\ cacheFile' = [x \in CachePaths |-> IF x \in gone THEN "none" ELSE cacheFile[x]]
  <2> HIDE DEF s, w, before
  <2> QED
    BY <1>0, <1>1, <1>4
<1> HIDE DEF gone, kept, s, w, before
<1>6. /\ gone \in SUBSET CachePaths /\ Range(kept) \in SUBSET CachePaths
      /\ \A q \in Range(lru) : q \in CachePaths /\ PathKey[q] \in Indexed /\ items[PathKey[q]] = q
  <2>1. \A x \in Indexed : items[x] \in CachePaths /\ PathKey[items[x]] = x
    BY IndexedPaths DEF CacheTyped, Indexed
  <2>2. \A q \in Range(lru) : q \in CachePaths /\ PathKey[q] \in Indexed /\ items[PathKey[q]] = q
    BY <2>1 DEF Clean
  <2> QED
    BY <1>3, <2>2
<1>7. p \notin Range(kept) /\ p \notin gone
  BY <1>3, <1>6
<1>8. lru' \in Queues /\ Range(lru') = Range(kept) \cup {p}
  BY <1>3, <1>5, <1>7, AppendQueue
<1>9. \A x \in Indexed : items[x] \in gone \/ items[x] \in Range(kept)
  BY <1>3 DEF Clean
<1>10. \A x \in FetchKeys \ {k} : x \in Indexed' <=> x \in Indexed /\ items[x] \in Range(kept)
  <2> SUFFICES ASSUME NEW x \in FetchKeys \ {k}
               PROVE  x \in Indexed' <=> x \in Indexed /\ items[x] \in Range(kept)
    OBVIOUS
  <2>1. x \in Indexed' <=> ~(\E g \in gone : PathKey[g] = x) /\ x \in Indexed
    BY <1>5 DEF Indexed
  <2>2. ASSUME NEW g \in gone, PathKey[g] = x PROVE x \in Indexed /\ items[x] \in gone
    BY <1>3, <1>6, <2>2
  <2>3. x \in Indexed => PathKey[items[x]] = x
    BY DEF CacheTyped
  <2> QED
    BY <1>3, <1>9, <2>1, <2>2, <2>3
<1>11. k \in Indexed' /\ items'[k] = p
  <2>1. NoImage \notin CachePaths
    BY ImageFetchAssumption
  <2> QED
    BY <1>0, <1>5, <2>1 DEF Indexed
<1>12. \A x \in Indexed' : /\ x \in FetchKeys
                           /\ x # k => x \in Indexed /\ items'[x] = items[x]
                                       /\ items[x] \in Range(kept)
  <2>1. \A x \in Indexed' : x \in FetchKeys /\ items'[x] # NoImage
    BY DEF Indexed
  <2> QED
    BY <1>5, <1>10, <2>1
<1>13. Range(lru') = {items'[x] : x \in Indexed'}
  <2>1. \A x \in Indexed' : items'[x] \in Range(lru')
    BY <1>8, <1>11, <1>12
  <2>2. ASSUME NEW q \in Range(kept) PROVE \E x \in Indexed' : items'[x] = q
    <3>1. PathKey[q] \in Indexed /\ items[PathKey[q]] = q /\ PathKey[q] \in FetchKeys
      BY <1>3, <1>6 DEF Indexed
    <3>2. PathKey[q] \in FetchKeys \ {k}
      BY <3>1
    <3>3. PathKey[q] \in Indexed'
      BY <1>10, <3>1, <3>2
    <3> QED
      BY <1>12, <3>1, <3>2, <3>3
  <2> QED
    BY <1>8, <1>11, <2>1, <2>2
<1>14. total' = Bytes(Range(lru'))
  <2>1. Bytes(gone \cup Range(kept)) = Bytes(gone) + Bytes(Range(kept))
    BY <1>3, <1>6, BytesOfBoth
  <2>2. {p} \in SUBSET CachePaths /\ Range(kept) \cap {p} = {}
    BY <1>7
  <2>3. Bytes(Range(kept) \cup {p}) = Bytes(Range(kept)) + Bytes({p})
    BY <1>6, <2>2, BytesOfBoth
  <2>4. Bytes(gone) \in Nat /\ Bytes(Range(kept)) \in Nat /\ Bytes({p}) = Size[k]
    BY <1>6, BytesFinite, BytesOfOne
  <2>5. total = Bytes(gone) + Bytes(Range(kept))
    BY <1>3, <2>1 DEF Clean
  <2>6. Bytes(Range(lru')) = Bytes(Range(kept)) + Size[k]
    BY <1>8, <2>3, <2>4
  <2> QED
    BY <1>0, <1>5, <2>4, <2>5, <2>6
<1>15. \A q \in CachePaths : PathKey[q] \notin Indexed => cacheFile'[q] = cacheFile[q]
  BY <1>3, <1>5, <1>6
<1>16. \A x \in Indexed' : cacheFile'[items'[x]] # "none"
  <2>1. cacheFile'[p] # "none"
    BY <1>15
  <2>2. ASSUME NEW x \in Indexed', x # k PROVE cacheFile'[items'[x]] # "none"
    <3>1. items'[x] = items[x] /\ items[x] \notin gone /\ items[x] \in CachePaths /\ x \in Indexed
      BY <1>3, <1>6, <1>12, <2>2
    <3>2. cacheFile'[items[x]] = cacheFile[items[x]]
      BY <1>5, <3>1
    <3> QED
      BY <3>1, <3>2 DEF Clean
  <2> QED
    BY <1>11, <2>1, <2>2
<1> QED
  BY <1>8, <1>12, <1>13, <1>14, <1>15, <1>16 DEF Clean, Queues

\* A start indexes what is on disk; if no key has two files, each key has its own.
LEMMA RestartKeepsCache == ASSUME CacheInv, Restart PROVE CacheInv'
<1> DEFINE found == {p \in CachePaths : cacheFile[p] # "none"}
           Of(order, k) == {i \in DOMAIN order : PathKey[order[i]] = k}
<1>1. /\ \E order \in SetToSeqs(found), newest \in [FetchKeys -> CachePaths \cup {NoImage}] :
            /\ \A k \in FetchKeys :
                 IF Of(order, k) = {} THEN newest[k] = NoImage
                 ELSE \E i \in Of(order, k) : /\ newest[k] = order[i]
                                              /\ \A j \in Of(order, k) : j <= i
            /\ lru' = order /\ items' = newest
      /\ total' = Bytes(found) /\ cacheFile' = cacheFile
      /\ twice' = {k \in FetchKeys :
                      \E p, q \in found : p # q /\ PathKey[p] = k /\ PathKey[q] = k}
  BY DEF Restart
<1>2. /\ lru' \in SetToSeqs(found) /\ items' \in [FetchKeys -> CachePaths \cup {NoImage}]
      /\ \A k \in FetchKeys :
            IF Of(lru', k) = {} THEN items'[k] = NoImage
            ELSE \E i \in Of(lru', k) : items'[k] = lru'[i]
  BY <1>1
<1> HIDE DEF found
<1>3. found \in SUBSET CachePaths /\ \A p \in found : cacheFile[p] # "none"
  BY DEF found
<1>4. IsFiniteSet(found) /\ Cardinality(found) \in Nat
  BY <1>3, ImageFetchAssumption, FS_Subset, FS_CardinalityType
<1>5. lru' \in [1 .. Cardinality(found) -> found] /\ IsInjective(lru')
  BY <1>2 DEF SetToSeqs, IsInjective
<1>6. lru' \in Seq(CachePaths)
  <2>1. lru' \in [1 .. Cardinality(found) -> CachePaths]
    BY <1>3, <1>5
  <2> QED
    BY <1>4, <2>1, SeqDef
<1>7. Range(lru') = found /\ DOMAIN lru' = 1 .. Cardinality(found)
  <2>1. 1 \in Int /\ Cardinality(found) \in Int
    BY <1>4
  <2>2. /\ IsFiniteSet(1 .. Cardinality(found))
        /\ Cardinality(1 .. Cardinality(found)) = Cardinality(found)
    BY <1>4, <2>1, FS_Interval
  <2>3. lru' \in Injection(1 .. Cardinality(found), found)
    BY <1>5 DEF Injection
  <2>4. lru' \in Surjection(1 .. Cardinality(found), found)
    BY <1>4, <2>2, <2>3, FS_Injection
  <2> QED
    BY <1>5, <2>4 DEF Surjection, Range
<1>8. ASSUME NEW k \in Indexed'
      PROVE  items'[k] \in found /\ PathKey[items'[k]] = k
  <2>1. k \in FetchKeys /\ items'[k] # NoImage
    BY DEF Indexed
  <2>2. PICK i \in DOMAIN lru' : PathKey[lru'[i]] = k /\ items'[k] = lru'[i]
    BY <1>2, <2>1
  <2> QED
    BY <1>7, <2>2 DEF Range
<1>9. ASSUME NEW p \in found
      PROVE  \E k \in Indexed' : PathKey[p] = k
  <2>1. PathKey[p] \in FetchKeys /\ NoImage \notin CachePaths
    BY <1>3, ImageFetchAssumption
  <2>2. PICK h \in DOMAIN lru' : lru'[h] = p
    BY <1>7 DEF Range
  <2>3. h \in Of(lru', PathKey[p])
    BY <2>2
  <2>4. PICK i \in DOMAIN lru' : items'[PathKey[p]] = lru'[i]
    BY <1>2, <2>1, <2>3
  <2>5. items'[PathKey[p]] # NoImage
    BY <1>3, <1>7, <2>1, <2>4 DEF Range
  <2> QED
    BY <2>1, <2>5 DEF Indexed
<1>10. total' \in Int /\ twice' \subseteq FetchKeys
  BY <1>1, <1>3, BytesFinite
<1>11. CacheTyped'
  BY <1>1, <1>2, <1>6, <1>7, <1>8, <1>10 DEF CacheTyped, CacheInv
<1>12. ASSUME twice' = {} PROVE Clean'
  <2>1. ASSUME NEW p \in found PROVE \E k \in Indexed' : items'[k] = p
    <3>1. PICK k \in Indexed' : PathKey[p] = k
      BY <1>9
    <3>2. items'[k] \in found /\ PathKey[items'[k]] = k /\ k \in FetchKeys
      BY <1>8 DEF Indexed
    <3>3. items'[k] # p => k \in twice'
      BY <1>1, <3>1, <3>2
    <3> QED
      BY <1>12, <3>3
  <2>2. Range(lru') = {items'[k] : k \in Indexed'}
    BY <1>7, <1>8, <2>1
  <2>3. \A k \in Indexed' : cacheFile'[items'[k]] # "none"
    BY <1>1, <1>3, <1>8
  <2> QED
    BY <1>1, <1>5, <1>7, <2>2, <2>3 DEF Clean
<1> QED
  BY <1>11, <1>12 DEF CacheInv

-----------------------------------------------------------------------------
(* ImageFetch: the callers                                                 *)

Auths == Seq(FetchTeams \cup {NoTeam}) \ {<<>>}
Waiting == [at : {"join", "slot", "look", "ok", "error"}, k : FetchKeys, t : FetchTargets]
Hitting == [at : {"open"}, k : FetchKeys, t : FetchTargets, path : CachePaths]
Asking == [at : {"http"}, k : FetchKeys, t : FetchTargets, auths : Auths, tries : Nat]
Writing == [at : {"write", "writing", "put", "open"}, k : FetchKeys, t : FetchTargets,
            body : {"image", "junk"}, path : CachePaths]
Calls == {Idle} \cup Waiting \cup Hitting \cup Asking \cup Writing

LeadSteps == {"slot", "look", "http", "write", "writing", "put", "open"}
NewSteps == {"http", "write", "writing", "put"}

\* A leader is the one of its key's flight, and a path it has is the key's.  From the
\* miss in the cache to Put it is the only one who could index the key, so the key is
\* not indexed and, in a clean index, nobody removes the file it writes.
Sound(r, c) ==
    /\ r.at \in LeadSteps => flight[r.k] = c
    /\ r.at \in {"write", "writing", "put"} => PathKey[r.path] = r.k
    /\ twice = {} /\ r.at \in NewSteps => r.k \notin Indexed
    /\ twice = {} /\ r.at \in {"writing", "put"} => cacheFile[r.path] # "none"

CallsInv ==
    /\ call \in [FetchCallers -> Calls]
    /\ flight \in [FetchKeys -> FetchCallers \cup {NoImage}]
    /\ \A c \in FetchCallers : Sound(call[c], c)

OtherInv ==
    /\ decoded \subseteq FetchKeys \X FetchTargets
    /\ fetchSlots \subseteq FetchCallers
    /\ learned \in [Foreign -> FetchTeams \cup {NoImage}]
    /\ starts \in 1 .. MaxStarts

FetchInv == CacheInv /\ CallsInv /\ OtherInv

LEMMA CallShape ==
    ASSUME NEW r \in Calls
    PROVE  /\ r.at # "idle" => r.k \in FetchKeys /\ r.t \in FetchTargets /\ r # Idle
           /\ r.at = "http" => r \in Asking
           /\ r.at \in {"join", "slot", "look"} => r \in Waiting
           /\ r.at = "open" => r \in Hitting \/ r \in Writing
           /\ r.at \in {"write", "writing", "put"} => r \in Writing
           /\ r.at \in {"write", "writing", "put", "open"} => r.path \in CachePaths
           /\ r.at \in {"idle", "join", "ok", "error"} \cup LeadSteps
BY DEF Calls, Idle, Waiting, Hitting, Asking, Writing, LeadSteps

\* A caller goes on; the others are where they were.
LEMMA CallMoves ==
    ASSUME CallsInv, NEW c \in FetchCallers, NEW r \in Calls,
           call' = [call EXCEPT ![c] = r],
           flight' \in [FetchKeys -> FetchCallers \cup {NoImage}],
           Sound(r, c)',
           \A d \in FetchCallers : \A q \in Calls : d # c /\ Sound(q, d) => Sound(q, d)'
    PROVE  CallsInv'
<1>1. /\ call' \in [FetchCallers -> Calls] /\ call'[c] = r
      /\ \A d \in FetchCallers : d # c => call'[d] = call[d] /\ call[d] \in Calls
  BY DEF CallsInv
<1>2. ASSUME NEW d \in FetchCallers PROVE Sound(call[d], d)'
  <2>1. CASE d = c
    BY <1>1, <2>1 DEF Sound
  <2>2. CASE d # c
    <3>1. Sound(call[d], d) /\ call[d] \in Calls /\ call'[d] = call[d]
      BY <1>1, <2>2 DEF CallsInv
    <3> DEFINE q == call[d]
    <3> HIDE DEF q
    <3>2. \A p \in Calls : Sound(p, d) => Sound(p, d)'
      BY <2>2
    <3> QED
      BY <3>1, <3>2 DEF Sound
  <2> QED
    BY <2>1, <2>2
<1> QED
  BY <1>1, <1>2 DEF CallsInv

\* What keeps the other callers: the files and flights of their keys stay, and a key
\* is indexed by the leader of its flight only, in a clean index.
LEMMA OthersSound ==
    ASSUME NEW c \in FetchCallers, NEW k \in FetchKeys,
           \A x \in FetchKeys : x # k => flight'[x] = flight[x],
           flight[k] \in {c, NoImage},
           twice' = twice,
           twice = {} => /\ Indexed' \subseteq Indexed \cup {k}
                         /\ \A p \in CachePaths : PathKey[p] \notin Indexed /\ PathKey[p] # k =>
                                                 cacheFile'[p] = cacheFile[p]
    PROVE  \A d \in FetchCallers : \A q \in Calls : d # c /\ Sound(q, d) => Sound(q, d)'
<1> SUFFICES ASSUME NEW d \in FetchCallers, NEW q \in Calls, d # c, Sound(q, d)
             PROVE  Sound(q, d)'
  OBVIOUS
<1>1. q.at \in LeadSteps => q.k \in FetchKeys
  BY CallShape DEF LeadSteps
<1>2. d # NoImage
  BY ImageFetchAssumption
<1>3. q.at \in LeadSteps => q.k # k /\ flight'[q.k] = flight[q.k]
  BY <1>1, <1>2 DEF Sound
<1>4. q.at \in NewSteps => q.at \in LeadSteps
  BY DEF NewSteps, LeadSteps
<1>5. q.at \in {"writing", "put"} =>
          q.at \in NewSteps /\ q.path \in CachePaths /\ PathKey[q.path] = q.k
  BY CallShape DEF NewSteps, Sound
<1>6. q.at \in LeadSteps => flight'[q.k] = d
  BY <1>3 DEF Sound
<1>7. twice = {} /\ q.at \in NewSteps => q.k \notin Indexed'
  BY <1>3, <1>4 DEF Sound
<1>8. twice = {} /\ q.at \in {"writing", "put"} => cacheFile'[q.path] # "none"
  <2> SUFFICES ASSUME twice = {}, q.at \in {"writing", "put"} PROVE cacheFile'[q.path] # "none"
    OBVIOUS
  <2>1. q.k \notin Indexed /\ q.k # k /\ cacheFile[q.path] # "none"
    BY <1>3, <1>4, <1>5 DEF Sound
  <2> QED
    BY <1>5, <2>1
<1>9. q.at \in {"write", "writing", "put"} => PathKey[q.path] = q.k
  BY DEF Sound
<1> QED
  BY <1>6, <1>7, <1>8, <1>9 DEF Sound

\* The flight is over: the leader and those who joined have their result.
LEMMA LandKeeps ==
    ASSUME CallsInv, NEW c \in FetchCallers, NEW how \in {"ok", "error"},
           call[c].at \in LeadSteps, Land(c, how), twice' = twice, Indexed' \subseteq Indexed,
           \A p \in CachePaths : PathKey[p] # call[c].k => cacheFile'[p] = cacheFile[p]
    PROVE  CallsInv'
<1> DEFINE k == call[c].k
<1>1. k \in FetchKeys /\ flight[k] = c /\ call[c].t \in FetchTargets /\ call[c] \in Calls
  <2>1. call[c] \in Calls /\ Sound(call[c], c)
    BY DEF CallsInv
  <2>2. call[c].at # "idle"
    BY DEF LeadSteps
  <2> QED
    BY <2>1, <2>2, CallShape DEF Sound
<1>2. flight' = [flight EXCEPT ![k] = NoImage]
  BY DEF Land
<1>3. \A d \in FetchCallers :
        \/ /\ call'[d] = [at |-> how, k |-> call[d].k, t |-> call[d].t]
           /\ d = c \/ call[d].at = "join"
        \/ call'[d] = call[d] /\ d # c
  BY DEF Land, At
<1>4. \A d \in FetchCallers : call[d] \in Calls
  BY DEF CallsInv
<1> HIDE DEF k
<1>5. \A d \in FetchCallers : d # c /\ Sound(call[d], d) /\ call[d].at \in LeadSteps =>
          call[d].k \in FetchKeys /\ call[d].k # k
  BY <1>1, <1>4, CallShape DEF Sound, LeadSteps
<1>6. ASSUME NEW d \in FetchCallers PROVE call'[d] \in Calls /\ Sound(call[d], d)'
  <2>1. CASE /\ call'[d] = [at |-> how, k |-> call[d].k, t |-> call[d].t]
             /\ d = c \/ call[d].at = "join"
    <3>1. call[d].k \in FetchKeys /\ call[d].t \in FetchTargets
      BY <1>1, <1>4, <2>1, CallShape DEF k
    <3>2. call'[d] \in Waiting
      BY <2>1, <3>1 DEF Waiting
    <3>3. call'[d].at = how /\ how \notin LeadSteps /\ how \notin NewSteps
          /\ how \notin {"writing", "put"} /\ how \notin {"write", "writing", "put"}
      BY <2>1 DEF LeadSteps, NewSteps
    <3> QED
      BY <3>2, <3>3 DEF Calls, Sound
  <2>2. CASE call'[d] = call[d] /\ d # c
    <3>1. Sound(call[d], d)
      BY DEF CallsInv
    <3>2. call[d].at \in LeadSteps => flight'[call[d].k] = d
      BY <1>2, <1>5, <2>2, <3>1 DEF CallsInv, Sound
    <3>3. twice = {} /\ call[d].at \in NewSteps => call[d].k \notin Indexed'
      BY <3>1 DEF Sound
    <3>4. twice = {} /\ call[d].at \in {"writing", "put"} => cacheFile'[call[d].path] # "none"
      <4>1. call[d].at \in {"writing", "put"} =>
                call[d].at \in LeadSteps /\ call[d].path \in CachePaths /\ PathKey[call[d].path] = call[d].k
        BY <1>4, <3>1, CallShape DEF LeadSteps, Sound
      <4>2. \A p \in CachePaths : PathKey[p] # k => cacheFile'[p] = cacheFile[p]
        BY DEF k
      <4>3. call[d].at \in LeadSteps => call[d].k # k
        BY <1>5, <2>2, <3>1
      <4> SUFFICES ASSUME twice = {}, call[d].at \in {"writing", "put"}
                   PROVE  cacheFile'[call[d].path] # "none"
        OBVIOUS
      <4>4. cacheFile[call[d].path] # "none"
        BY <3>1 DEF Sound
      <4> QED
        BY <4>1, <4>2, <4>3, <4>4
    <3>5. call[d].at \in {"write", "writing", "put"} => PathKey[call[d].path] = call[d].k
      BY <3>1 DEF Sound
    <3>6. call'[d] = call[d] /\ call[d] \in Calls /\ twice' = twice
      BY <1>4, <2>2
    <3> QED
      BY <3>2, <3>3, <3>4, <3>5, <3>6 DEF Sound
  <2> QED
    BY <1>3, <2>1, <2>2
<1>7. call' \in [FetchCallers -> Calls]
  <2>1. DOMAIN call' = FetchCallers /\ call' = [d \in FetchCallers |-> call'[d]]
    BY DEF Land
  <2> QED
    BY <1>6, <2>1
<1>8. flight' \in [FetchKeys -> FetchCallers \cup {NoImage}]
  BY <1>1, <1>2 DEF CallsInv
<1> QED
  BY <1>6, <1>7, <1>8 DEF CallsInv

\* Become changes a caller's step, and nothing else of its record.
LEMMA Becomes ==
    ASSUME CallsInv, NEW c \in FetchCallers, NEW step, Become(c, step),
           \/ call[c] \in Waiting /\ step = "look"
           \/ call[c] \in Writing /\ step \in {"writing", "put", "open"}
    PROVE  \E r \in Calls : /\ call' = [call EXCEPT ![c] = r]
                            /\ r.at = step /\ r.k = call[c].k
                            /\ call[c] \in Writing => r.path = call[c].path
<1> DEFINE r == [call[c] EXCEPT !.at = step]
<1>1. call' = [call EXCEPT ![c] = r]
  BY DEF Become, CallsInv
<1>2. /\ r \in Calls /\ r.at = step /\ r.k = call[c].k
      /\ call[c] \in Writing => r.path = call[c].path
  <2>1. CASE call[c] \in Waiting /\ step = "look"
    BY <2>1 DEF Waiting, Writing, Calls
  <2>2. CASE call[c] \in Writing /\ step \in {"writing", "put", "open"}
    BY <2>2 DEF Writing, Calls
  <2> QED
    BY <2>1, <2>2
<1> HIDE DEF r
<1> QED
  BY <1>1, <1>2

LEMMA AuthsTyped ==
    ASSUME OtherInv, NEW k \in FetchKeys PROVE AuthsFor(k) \in Auths
<1>1. Fallbacks \in Seq(FetchTeams)
  BY ImageFetchAssumption DEF FetchTeams
<1>2. \A x \in FetchTeams \cup {NoTeam} : <<x>> \in Auths
  BY DEF Auths
<1>3. Fallbacks # <<>> => Fallbacks \in Auths
  BY <1>1, SeqMonotonic DEF Auths
<1>4. TeamOf[k] \notin FetchTeams \cup {NoTeam} => TeamOf[k] \in Foreign
  BY DEF Foreign
<1>5. \A t \in Foreign : learned[t] # NoImage => learned[t] \in FetchTeams
  BY DEF OtherInv
<1>6. CASE TeamOf[k] \in FetchTeams \cup {NoTeam}
  BY <1>2, <1>6 DEF AuthsFor
<1>7. CASE TeamOf[k] \notin FetchTeams \cup {NoTeam}
  BY <1>2, <1>3, <1>4, <1>5, <1>7 DEF AuthsFor
<1> QED
  BY <1>6, <1>7

LEMMA FetchBegins == FetchInit => FetchInv
<1> SUFFICES ASSUME FetchInit PROVE FetchInv
  OBVIOUS
<1>1. CallsInv
  BY DEF FetchInit, CallsInv, Sound, Calls, Idle, LeadSteps, NewSteps
<1>2. OtherInv
  BY ImageFetchAssumption DEF FetchInit, OtherInv
<1> QED
  BY <1>1, <1>2, CacheBegins DEF FetchInv

\* A caller's step that leaves the cache's files and its index as they are.
LEMMA QuietMove ==
    ASSUME FetchInv, NEW c \in FetchCallers, NEW r \in Calls,
           call' = [call EXCEPT ![c] = r], CacheInv', Indexed' = Indexed,
           UNCHANGED <<cacheFile, twice, flight>>, Sound(r, c)
    PROVE  CallsInv'
<1>1. Sound(r, c)'
  BY DEF Sound
<1>2. \A d \in FetchCallers : \A q \in Calls : d # c /\ Sound(q, d) => Sound(q, d)'
  BY DEF Sound
<1>3. flight' \in [FetchKeys -> FetchCallers \cup {NoImage}]
  BY DEF FetchInv, CallsInv
<1> QED
  BY <1>1, <1>2, <1>3, CallMoves DEF FetchInv

LEMMA SameCache ==
    ASSUME CacheInv, UNCHANGED cacheVars PROVE CacheInv' /\ Indexed' = Indexed
BY DEF cacheVars, CacheInv, CacheTyped, Clean, Indexed

LEMMA AsksForImage ==
    ASSUME FetchInv, NEW c \in FetchCallers, NEW k \in FetchKeys, NEW t \in FetchTargets,
           FetchImage(c, k, t)
    PROVE  FetchInv'
<1> DEFINE r(step) == [at |-> step, k |-> k, t |-> t]
<1>1. \A step \in {"join", "look", "slot"} : r(step) \in Calls
  BY DEF Calls, Waiting
<1>2. UNCHANGED <<items, total, cacheFile, twice, decoded, fetchSlots, learned, starts>>
  BY DEF FetchImage
<1>3. OtherInv'
  BY <1>2 DEF FetchInv, OtherInv
<1>4. CASE InFlight(k)
  <2>1. call' = [call EXCEPT ![c] = r("join")] /\ UNCHANGED <<lru, flight>>
    BY <1>4 DEF FetchImage
  <2>2. CacheInv' /\ Indexed' = Indexed
    BY <1>2, <2>1, SameCache DEF FetchInv, cacheVars
  <2>3. Sound(r("join"), c)
    BY DEF Sound, LeadSteps, NewSteps
  <2>4. CallsInv'
    BY <1>1, <1>2, <2>1, <2>2, <2>3, QuietMove
  <2> QED
    BY <1>3, <2>2, <2>4 DEF FetchInv
<1>5. CASE ~InFlight(k)
  <2>1. /\ flight' = [flight EXCEPT ![k] = c]
        /\ \/ k \in Indexed /\ lru' = Touched(k) /\ call' = [call EXCEPT ![c] = r("look")]
           \/ lru' = lru /\ call' = [call EXCEPT ![c] = r("slot")]
    BY <1>5 DEF FetchImage
  <2>2. CacheInv' /\ Indexed' = Indexed
    BY <1>2, <2>1, TouchKeeps, SameCache DEF FetchInv, cacheVars
  <2>3. flight[k] = NoImage
    BY <1>5 DEF InFlight
  <2>4. /\ flight'[k] = c /\ \A x \in FetchKeys : x # k => flight'[x] = flight[x]
        /\ flight' \in [FetchKeys -> FetchCallers \cup {NoImage}]
    BY <2>1 DEF FetchInv, CallsInv
  <2>5. \A d \in FetchCallers : \A q \in Calls : d # c /\ Sound(q, d) => Sound(q, d)'
    BY <1>2, <2>2, <2>3, <2>4, OthersSound
  <2>6. \A step \in {"look", "slot"} : Sound(r(step), c)'
    BY <2>4 DEF Sound, LeadSteps, NewSteps
  <2>7. CallsInv'
    <3>1. PICK step \in {"look", "slot"} : call' = [call EXCEPT ![c] = r(step)]
      BY <2>1
    <3>2. r(step) \in Calls /\ Sound(r(step), c)'
      BY <1>1, <2>6
    <3> HIDE DEF r
    <3> QED
      BY <2>4, <2>5, <3>1, <3>2, CallMoves DEF FetchInv
  <2> QED
    BY <1>3, <2>2, <2>7 DEF FetchInv
<1> QED
  BY <1>4, <1>5

\* What a caller's record is, by its step.
LEMMA Where ==
    ASSUME FetchInv, NEW c \in FetchCallers
    PROVE  /\ call[c] \in Calls /\ Sound(call[c], c)
           /\ call[c].at # "idle" => call[c].k \in FetchKeys /\ call[c].t \in FetchTargets
           /\ call[c].at = "http" => call[c] \in Asking
           /\ call[c].at \in {"slot", "look"} => call[c] \in Waiting
           /\ call[c].at \in {"write", "writing", "put"} => call[c] \in Writing
           /\ call[c].at \in {"write", "writing", "put", "open"} => call[c].path \in CachePaths
BY CallShape DEF FetchInv, CallsInv

LEMMA TakesSlot ==
    ASSUME FetchInv, NEW c \in FetchCallers, TakeSlot(c) PROVE FetchInv'
<1>1. /\ call[c].at = "slot" /\ Become(c, "look") /\ fetchSlots' = fetchSlots \cup {c}
      /\ UNCHANGED <<cacheVars, decoded, flight, learned, starts>>
  BY DEF TakeSlot, At
<1>2. call[c] \in Waiting /\ Sound(call[c], c)
  BY <1>1, Where
<1>3. PICK r \in Calls : call' = [call EXCEPT ![c] = r] /\ r.at = "look" /\ r.k = call[c].k
  BY <1>1, <1>2, Becomes DEF FetchInv
<1>4. Sound(r, c)
  BY <1>1, <1>2, <1>3 DEF Sound, LeadSteps, NewSteps
<1>5. CacheInv' /\ Indexed' = Indexed
  BY <1>1, SameCache DEF FetchInv
<1>6. CallsInv'
  BY <1>1, <1>3, <1>4, <1>5, QuietMove DEF cacheVars
<1>7. OtherInv'
  BY <1>1 DEF FetchInv, OtherInv
<1> QED
  BY <1>5, <1>6, <1>7 DEF FetchInv

LEMMA Looks ==
    ASSUME FetchInv, NEW c \in FetchCallers, Look(c) PROVE FetchInv'
<1> DEFINE k == call[c].k
           hits == [at |-> "open", k |-> k, t |-> call[c].t, path |-> items[k]]
           asks == [at |-> "http", k |-> k, t |-> call[c].t, auths |-> AuthsFor(k), tries |-> 0]
<1>1. /\ call[c].at = "look"
      /\ UNCHANGED <<items, total, cacheFile, twice, decoded, flight, fetchSlots, learned, starts>>
      /\ \/ k \in Indexed /\ lru' = Touched(k) /\ call' = [call EXCEPT ![c] = hits]
         \/ k \notin Indexed /\ call' = [call EXCEPT ![c] = asks] /\ lru' = lru
  BY DEF Look, At
<1>2. /\ call[c] \in Waiting /\ Sound(call[c], c) /\ k \in FetchKeys /\ call[c].t \in FetchTargets
  BY <1>1, Where
<1>3. CacheInv' /\ Indexed' = Indexed
  BY <1>1, TouchKeeps, SameCache DEF FetchInv, cacheVars
<1>4. OtherInv'
  BY <1>1 DEF FetchInv, OtherInv
<1>5. CASE k \in Indexed /\ call' = [call EXCEPT ![c] = hits]
  <2>1. items[k] \in CachePaths
    BY <1>2, <1>5, IndexedPaths DEF FetchInv, CacheInv
  <2>2. hits \in Calls
    BY <1>2, <2>1 DEF Calls, Hitting
  <2>3. Sound(hits, c)
    BY <1>1, <1>2 DEF Sound, LeadSteps, NewSteps
  <2> HIDE DEF hits
  <2>4. CallsInv'
    BY <1>1, <1>3, <1>5, <2>2, <2>3, QuietMove
  <2> QED
    BY <1>3, <1>4, <2>4 DEF FetchInv
<1>6. CASE k \notin Indexed /\ call' = [call EXCEPT ![c] = asks]
  <2>1. AuthsFor(k) \in Auths
    BY <1>2, AuthsTyped DEF FetchInv
  <2>2. asks \in Calls
    BY <1>2, <2>1 DEF Calls, Asking
  <2>3. Sound(asks, c)
    BY <1>1, <1>2, <1>6 DEF Sound, LeadSteps, NewSteps
  <2> HIDE DEF asks
  <2>4. CallsInv'
    BY <1>1, <1>3, <1>6, <2>2, <2>3, QuietMove
  <2> QED
    BY <1>3, <1>4, <2>4 DEF FetchInv
<1> QED
  BY <1>1, <1>5, <1>6

LEMMA BringsBody ==
    ASSUME FetchInv, NEW c \in FetchCallers, NEW content \in {"image", "junk"}, NEW p \in CachePaths,
           Body(c, content, p)
    PROVE  FetchInv'
<1> DEFINE k == call[c].k
           r == [at |-> "write", k |-> k, t |-> call[c].t, body |-> content, path |-> p]
<1>1. /\ call[c].at = "http" /\ PathKey[p] = k /\ call' = [call EXCEPT ![c] = r]
      /\ UNCHANGED <<cacheVars, decoded, flight, fetchSlots, starts>>
      /\ learned' = IF TeamOf[k] \in Foreign /\ Head(call[c].auths) # NoTeam
                    THEN [learned EXCEPT ![TeamOf[k]] = Head(call[c].auths)] ELSE learned
  BY DEF Body, At
<1>2. /\ call[c] \in Asking /\ Sound(call[c], c) /\ k \in FetchKeys /\ call[c].t \in FetchTargets
  BY <1>1, Where
<1>3. Head(call[c].auths) \in FetchTeams \cup {NoTeam}
  <2>1. call[c].auths \in Seq(FetchTeams \cup {NoTeam}) /\ call[c].auths # <<>>
    BY <1>2 DEF Asking, Auths
  <2> QED
    BY <2>1, HeadTailProperties
<1>4. r \in Calls
  BY <1>2 DEF Calls, Writing
<1>5. Sound(r, c)
  BY <1>1, <1>2 DEF Sound, LeadSteps, NewSteps
<1>6. CacheInv' /\ Indexed' = Indexed
  BY <1>1, SameCache DEF FetchInv
<1>7. OtherInv'
  BY <1>1, <1>3 DEF FetchInv, OtherInv
<1> HIDE DEF r
<1>8. CallsInv'
  BY <1>1, <1>4, <1>5, <1>6, QuietMove DEF cacheVars
<1> QED
  BY <1>6, <1>7, <1>8 DEF FetchInv

\* The leader's flight ends with the cache as it was.
LEMMA Lands ==
    ASSUME FetchInv, NEW c \in FetchCallers, NEW how \in {"ok", "error"},
           call[c].at \in LeadSteps, Land(c, how), CacheInv', twice' = twice,
           Indexed' \subseteq Indexed,
           \A p \in CachePaths : PathKey[p] # call[c].k => cacheFile'[p] = cacheFile[p],
           decoded' \subseteq FetchKeys \X FetchTargets, UNCHANGED <<learned, starts>>
    PROVE  FetchInv'
<1>1. CallsInv'
  BY LandKeeps DEF FetchInv
<1>2. OtherInv'
  BY DEF Land, FetchInv, OtherInv
<1> QED
  BY <1>1, <1>2 DEF FetchInv

LEMMA AsksAgain ==
    ASSUME FetchInv, NEW c \in FetchCallers, Busy(c) \/ Refused(c) \/ Cancelled(c)
    PROVE  FetchInv'
<1>0. UNCHANGED <<cacheVars, decoded, learned, starts>> /\ call[c].at \in {"http", "slot"}
  BY DEF Busy, Refused, Cancelled, At
<1>1. CacheInv' /\ Indexed' = Indexed /\ cacheFile' = cacheFile /\ twice' = twice
  BY <1>0, SameCache DEF FetchInv, cacheVars
<1>2. CASE Land(c, "error")
  BY <1>0, <1>1, <1>2, Lands DEF LeadSteps, FetchInv, OtherInv
<1>3. ASSUME NEW r \in Calls, call' = [call EXCEPT ![c] = r], r.at = "http", r.k = call[c].k,
             call[c].at = "http", UNCHANGED <<flight, fetchSlots>>
      PROVE  FetchInv'
  <2>1. Sound(call[c], c)
    BY Where
  <2>2. Sound(r, c)
    BY <1>3, <2>1 DEF Sound, LeadSteps, NewSteps
  <2>3. CallsInv'
    BY <1>1, <1>3, <2>2, QuietMove
  <2>4. OtherInv'
    BY <1>0, <1>3 DEF FetchInv, OtherInv
  <2> QED
    BY <1>1, <2>3, <2>4 DEF FetchInv
<1>4. CASE Busy(c)
  <2> DEFINE r == [call[c] EXCEPT !.tries = @ + 1]
  <2>1. call[c].at = "http" /\ call[c] \in Asking
    BY <1>4, Where DEF Busy, At
  <2>2. call' = [call EXCEPT ![c] = r] /\ UNCHANGED <<flight, fetchSlots>>
    BY <1>4 DEF Busy, FetchInv, CallsInv
  <2>3. call[c].tries + 1 \in Nat
    BY <2>1 DEF Asking
  <2>4. r \in Calls /\ r.at = "http" /\ r.k = call[c].k
    BY <2>1, <2>3 DEF Asking, Calls
  <2> HIDE DEF r
  <2> QED
    BY <1>3, <2>1, <2>2, <2>4
<1>5. CASE Refused(c)
  <2>1. call[c].at = "http" /\ call[c] \in Asking
    BY <1>5, Where DEF Refused, At
  <2>2. CASE Len(call[c].auths) > 1
    <3> DEFINE r == [call[c] EXCEPT !.auths = Tail(@), !.tries = 0]
    <3>1. call' = [call EXCEPT ![c] = r] /\ UNCHANGED <<flight, fetchSlots>>
      BY <1>5, <2>2 DEF Refused, FetchInv, CallsInv
    <3>2. Tail(call[c].auths) \in Auths
      <4>1. call[c].auths \in Seq(FetchTeams \cup {NoTeam}) /\ call[c].auths # <<>>
        BY <2>1 DEF Asking, Auths
      <4>2. /\ Tail(call[c].auths) \in Seq(FetchTeams \cup {NoTeam})
            /\ Len(Tail(call[c].auths)) = Len(call[c].auths) - 1
            /\ Len(call[c].auths) \in Nat
        BY <4>1, HeadTailProperties, LenProperties
      <4>3. Len(Tail(call[c].auths)) # 0
        <5>1. \A n \in Nat : n > 1 => n - 1 # 0
          OBVIOUS
        <5> QED
          BY <2>2, <4>2, <5>1, Zenon
      <4> QED
        BY <4>2, <4>3, EmptySeq DEF Auths
    <3>3. r \in Calls /\ r.at = "http" /\ r.k = call[c].k
      BY <2>1, <3>2 DEF Asking, Calls
    <3> HIDE DEF r
    <3> QED
      BY <1>3, <2>1, <3>1, <3>3
  <2>3. CASE ~(Len(call[c].auths) > 1)
    BY <1>2, <1>5, <2>3 DEF Refused
  <2> QED
    BY <2>2, <2>3
<1>6. CASE Cancelled(c)
  BY <1>2, <1>6 DEF Cancelled
<1> QED
  BY <1>4, <1>5, <1>6

\* The leader writes its file, which is not indexed, and nobody else's.
LEMMA WritesFile ==
    ASSUME FetchInv, NEW c \in FetchCallers, Truncate(c) \/ ImageWritten(c) PROVE FetchInv'
<1> DEFINE k == call[c].k
           p == call[c].path
<1>1. /\ UNCHANGED <<lru, items, total, twice, decoded, flight, fetchSlots, learned, starts>>
      /\ call[c].at \in {"write", "writing"}
      /\ \/ /\ call[c].at = "write" /\ Become(c, "writing")
            /\ cacheFile' = [cacheFile EXCEPT ![p] = "junk"]
         \/ /\ call[c].at = "writing" /\ Become(c, "put")
            /\ \/ cacheFile[p] = "none" /\ cacheFile' = cacheFile
               \/ cacheFile' = [cacheFile EXCEPT ![p] = call[c].body]
  BY DEF Truncate, ImageWritten, At
<1>2. call[c] \in Writing /\ Sound(call[c], c) /\ k \in FetchKeys /\ p \in CachePaths
  BY <1>1, Where
<1>3. /\ flight[k] = c /\ PathKey[p] = k
      /\ twice = {} => k \notin Indexed
      /\ twice = {} /\ call[c].at = "writing" => cacheFile[p] # "none"
  BY <1>1, <1>2 DEF Sound, LeadSteps, NewSteps
<1>4. /\ \A q \in CachePaths : q # p => cacheFile'[q] = cacheFile[q]
      /\ twice = {} => cacheFile'[p] # "none"
      /\ cacheFile' \in [CachePaths -> Content]
  <2>1. call[c].body \in {"image", "junk"} /\ cacheFile \in [CachePaths -> Content]
    BY <1>2 DEF Writing, FetchInv, CacheInv, CacheTyped
  <2> QED
    BY <1>1, <1>2, <1>3, <2>1 DEF Content
<1>5. Indexed' = Indexed
  BY <1>1 DEF Indexed
<1>6. CacheTyped'
  BY <1>1, <1>4, <1>5 DEF FetchInv, CacheInv, CacheTyped
<1>7. ASSUME twice' = {} PROVE Clean'
  <2>1. Clean /\ CacheTyped /\ k \notin Indexed
    BY <1>1, <1>3, <1>7 DEF FetchInv, CacheInv
  <2>2. \A x \in Indexed : items[x] \in CachePaths /\ items[x] # p
    BY <1>3, <2>1, IndexedPaths DEF CacheTyped, Indexed
  <2> QED
    BY <1>1, <1>4, <1>5, <2>1, <2>2 DEF Clean
<1>8. PICK step \in {"writing", "put"} : Become(c, step)
  BY <1>1
<1>9. PICK r \in Calls : call' = [call EXCEPT ![c] = r] /\ r.at = step /\ r.k = k /\ r.path = p
  BY <1>2, <1>8, Becomes DEF FetchInv
<1>10. Sound(r, c)'
  BY <1>1, <1>3, <1>4, <1>5, <1>9 DEF Sound
<1>11. \A d \in FetchCallers : \A q \in Calls : d # c /\ Sound(q, d) => Sound(q, d)'
  <2>1. \A q \in CachePaths : PathKey[q] # k => cacheFile'[q] = cacheFile[q]
    BY <1>3, <1>4
  <2> QED
    BY <1>1, <1>2, <1>3, <1>5, <2>1, OthersSound
<1>12. flight' \in [FetchKeys -> FetchCallers \cup {NoImage}]
  BY <1>1 DEF FetchInv, CallsInv
<1>13. CallsInv'
  BY <1>9, <1>10, <1>11, <1>12, CallMoves DEF FetchInv
<1>14. OtherInv'
  BY <1>1 DEF FetchInv, OtherInv
<1> QED
  BY <1>6, <1>7, <1>13, <1>14 DEF FetchInv, CacheInv

LEMMA PutsImage ==
    ASSUME FetchInv, NEW c \in FetchCallers, Put(c) PROVE FetchInv'
<1> DEFINE k == call[c].k
           p == call[c].path
<1>1. /\ UNCHANGED <<decoded, flight, fetchSlots, learned, starts>>
      /\ call[c].at = "put" /\ Admit(p) /\ Become(c, "open")
  BY DEF Put, At
<1>2. call[c] \in Writing /\ Sound(call[c], c) /\ k \in FetchKeys /\ p \in CachePaths
  BY <1>1, Where
<1>3. /\ flight[k] = c /\ PathKey[p] = k
      /\ twice = {} => k \notin Indexed /\ cacheFile[p] # "none"
  BY <1>1, <1>2 DEF Sound, LeadSteps, NewSteps
<1>4. CacheTyped' /\ twice' = twice
  BY <1>1, <1>2, AdmitTyped DEF FetchInv, CacheInv
<1>5. twice = {} => /\ Clean' /\ Indexed' \subseteq Indexed \cup {k}
                    /\ \A q \in CachePaths : PathKey[q] \notin Indexed => cacheFile'[q] = cacheFile[q]
  <2> SUFFICES ASSUME twice = {}
               PROVE  /\ Clean' /\ Indexed' \subseteq Indexed \cup {k}
                      /\ \A q \in CachePaths : PathKey[q] \notin Indexed =>
                                              cacheFile'[q] = cacheFile[q]
    OBVIOUS
  <2>1. CacheTyped /\ Clean
    BY DEF FetchInv, CacheInv
  <2> HIDE DEF k, p
  <2> QED
    BY <1>1, <1>2, <1>3, <2>1, AdmitKeeps
<1>6. PICK r \in Calls : call' = [call EXCEPT ![c] = r] /\ r.at = "open" /\ r.k = k
  BY <1>1, <1>2, Becomes DEF FetchInv
<1>7. Sound(r, c)'
  BY <1>1, <1>3, <1>6 DEF Sound, NewSteps
<1>8. \A d \in FetchCallers : \A q \in Calls : d # c /\ Sound(q, d) => Sound(q, d)'
  BY <1>1, <1>2, <1>3, <1>4, <1>5, OthersSound
<1>9. flight' \in [FetchKeys -> FetchCallers \cup {NoImage}]
  BY <1>1 DEF FetchInv, CallsInv
<1>10. CallsInv'
  BY <1>6, <1>7, <1>8, <1>9, CallMoves DEF FetchInv
<1>11. OtherInv'
  BY <1>1 DEF FetchInv, OtherInv
<1> QED
  BY <1>4, <1>5, <1>10, <1>11 DEF FetchInv, CacheInv

LEMMA OpensImage ==
    ASSUME FetchInv, NEW c \in FetchCallers, Open(c) PROVE FetchInv'
<1> DEFINE k == call[c].k
<1>1. call[c].at = "open" /\ UNCHANGED <<learned, starts>>
  BY DEF Open, At
<1>2. /\ k \in FetchKeys /\ call[c].t \in FetchTargets /\ call[c].at \in LeadSteps
      /\ call[c].path \in CachePaths
  BY <1>1, Where DEF LeadSteps
<1>3. cacheFile[call[c].path] \in Content
  BY <1>2 DEF FetchInv, CacheInv, CacheTyped
<1>4. \/ \E how \in {"ok", "error"} :
           /\ Land(c, how) /\ UNCHANGED cacheVars
           /\ decoded' = decoded \/ decoded' = decoded \cup {<<k, call[c].t>>}
      \/ Land(c, "error") /\ Evict(k) /\ UNCHANGED decoded
  BY <1>3 DEF Open, Content
<1>5. decoded' \subseteq FetchKeys \X FetchTargets
  BY <1>2, <1>4 DEF FetchInv, OtherInv
<1>6. ASSUME NEW how \in {"ok", "error"}, Land(c, how), UNCHANGED cacheVars PROVE FetchInv'
  <2>1. CacheInv' /\ Indexed' = Indexed /\ cacheFile' = cacheFile /\ twice' = twice
    BY <1>6, SameCache DEF FetchInv, cacheVars
  <2> QED
    BY <1>1, <1>2, <1>5, <1>6, <2>1, Lands
<1>7. ASSUME Land(c, "error"), Evict(k) PROVE FetchInv'
  <2>1. /\ CacheInv' /\ twice' = twice /\ Indexed' \subseteq Indexed
        /\ \A p \in CachePaths : PathKey[p] # k => cacheFile'[p] = cacheFile[p]
    BY <1>2, <1>7, EvictKeeps DEF FetchInv
  <2> QED
    BY <1>1, <1>2, <1>5, <1>7, <2>1, Lands
<1> QED
  BY <1>4, <1>6, <1>7

LEMMA FailsOrReturns ==
    ASSUME FetchInv, NEW c \in FetchCallers, WriteFails(c) \/ Return(c) PROVE FetchInv'
<1>1. UNCHANGED <<cacheVars, decoded, learned, starts>>
  BY DEF WriteFails, Return
<1>2. CacheInv' /\ Indexed' = Indexed /\ cacheFile' = cacheFile /\ twice' = twice
  BY <1>1, SameCache DEF FetchInv, cacheVars
<1>3. CASE WriteFails(c)
  <2>1. call[c].at \in LeadSteps /\ Land(c, "error")
    BY <1>3 DEF WriteFails, At, LeadSteps
  <2>2. decoded' \subseteq FetchKeys \X FetchTargets
    BY <1>1 DEF FetchInv, OtherInv
  <2> QED
    BY <1>1, <1>2, <2>1, <2>2, Lands
<1>4. CASE Return(c)
  <2>1. call' = [call EXCEPT ![c] = Idle] /\ UNCHANGED <<flight, fetchSlots>>
    BY <1>4 DEF Return
  <2>2. Idle \in Calls /\ Sound(Idle, c)
    BY DEF Calls, Sound, Idle, LeadSteps, NewSteps
  <2>3. CallsInv'
    BY <1>2, <2>1, <2>2, QuietMove
  <2>4. OtherInv'
    BY <1>1, <2>1 DEF FetchInv, OtherInv
  <2> QED
    BY <1>2, <2>3, <2>4 DEF FetchInv
<1> QED
  BY <1>3, <1>4

LEMMA RestartKeepsFetch ==
    ASSUME FetchInv, Restart PROVE FetchInv'
<1>1. CacheInv'
  BY RestartKeepsCache DEF FetchInv
<1>2. CallsInv'
  BY DEF Restart, CallsInv, Sound, Calls, Idle, LeadSteps, NewSteps
<1>3. OtherInv'
  BY ImageFetchAssumption DEF Restart, FetchInv, OtherInv
<1> QED
  BY <1>1, <1>2, <1>3 DEF FetchInv

LEMMA FetchSteps == FetchInv /\ [FetchNext]_fetchVars => FetchInv'
<1> SUFFICES ASSUME FetchInv, [FetchNext]_fetchVars PROVE FetchInv'
  OBVIOUS
<1>1. CASE \E c \in FetchCallers, k \in FetchKeys, t \in FetchTargets : FetchImage(c, k, t)
  BY <1>1, AsksForImage
<1>2. CASE \E c \in FetchCallers : Step(c) \/ Busy(c) \/ Cancelled(c)
  <2>1. PICK c \in FetchCallers : Step(c) \/ Busy(c) \/ Cancelled(c)
    BY <1>2
  <2> QED
    BY <2>1, TakesSlot, Looks, BringsBody, AsksAgain, WritesFile, PutsImage, OpensImage,
       FailsOrReturns DEF Step
<1>3. CASE Restart
  BY <1>3, RestartKeepsFetch
<1>4. CASE UNCHANGED fetchVars
  <2>1. CacheInv' /\ Indexed' = Indexed
    BY <1>4, SameCache DEF fetchVars, FetchInv
  <2>2. CallsInv' /\ OtherInv'
    BY <1>4, <2>1 DEF fetchVars, cacheVars, FetchInv, CallsInv, OtherInv, Sound
  <2> QED
    BY <2>1, <2>2 DEF FetchInv
<1> QED
  BY <1>1, <1>2, <1>3, <1>4 DEF FetchNext

\* The index, its byte count and the directory agree, for any keys, names, sizes, cap,
\* callers, failures and restarts, unless a start found a key under two names
\* (cache.go:54-181, fetcher.go:255-328).
THEOREM CacheStaysRight == FetchSpec => []CacheAgrees
<1>1. FetchInv => CacheAgrees
  BY DEF FetchInv, CacheInv, Clean, CacheAgrees, IndexedIsOnDisk, CountsWhatItHolds
<1> QED
  BY <1>1, FetchBegins, FetchSteps, PTL DEF FetchSpec

\* The types, from the same invariant.
THEOREM FetchTypeCorrect == FetchSpec => []FetchTypeOK
<1>1. FetchInv => FetchTypeOK
  <2> SUFFICES ASSUME FetchInv PROVE FetchTypeOK
    OBVIOUS
  <2>1. \A c \in FetchCallers :
            call[c].at = "idle" \/ (call[c].k \in FetchKeys /\ call[c].t \in FetchTargets)
    BY Where
  <2> QED
    BY <2>1 DEF FetchInv, CacheInv, CacheTyped, CallsInv, OtherInv, FetchTypeOK
<1> QED
  BY <1>1, FetchBegins, FetchSteps, PTL DEF FetchSpec

-----------------------------------------------------------------------------
(* EmojiPlace                                                              *)

\* The registry: ids are minted in order, one per slot, and nothing is kept under
\* an id that is still to be minted.
Minted == {p \in Slots : ids[p] # 0}

RegistryInv ==
    /\ source \in [PlaceKeys -> Pictures \cup {NoPlace}]
    /\ ids \in [Slots -> {0} \cup Ids]
    /\ next = Cardinality(Minted) + 2
    /\ uploaded \subseteq Ids
    /\ payload \in [Ids -> Pictures \cup {NoPlace}]
    /\ terminal \in [Ids -> Pictures \cup {NoPlace}]
    /\ \A p \in Slots : ids[p] < next
    /\ \A p, q \in Minted : ids[p] = ids[q] => p = q
    /\ \A i \in Ids : i >= next => i \notin uploaded /\ payload[i] = NoPlace

\* The id of a url's slot stands for that picture, encoded and on the terminal.
OwnPicture ==
    \A u \in Urls, n \in Sizes : ids[<<u, n>>] # 0 =>
        /\ payload[ids[<<u, n>>]] \in {NoPlace, u}
        /\ ids[<<u, n>>] \in uploaded => terminal[ids[<<u, n>>]] = u

\* A rendering kept for a slot names the slot's id; it brings the bytes, or they
\* are on the terminal, and once it has brought them they are, unless a write failed.
Kept(u, n) ==
    LET r == rendered[<<u, n>>] IN
    /\ r.id = ids[<<u, n>>] /\ r.id # 0
    /\ r.flush => r.pic = u
    /\ ~r.flush => r.id \in uploaded
    /\ (r.flush /\ r.fired /\ fails = 0) => r.id \in uploaded
RenderedInv ==
    /\ rendered \in [Urls \X Sizes -> [id : {0} \cup Ids, flush : BOOLEAN, fired : BOOLEAN,
                                       pic : Pictures \cup {NoPlace}]]
    /\ \A u \in Urls, n \in Sizes : rendered[<<u, n>>] # NoRender => Kept(u, n)

\* A surface that shows the picture has a rendering, whose bytes went out.
ShownInv ==
    \A s \in Surfaces : shown[s] = "picture" =>
        /\ rendered[<<UrlOf[s], CellsOf[s]>>] # NoRender
        /\ fails = 0 => ids[<<UrlOf[s], CellsOf[s]>>] \in uploaded

RestTyped ==
    /\ inflight \subseteq Urls /\ failed \subseteq Urls
    /\ emojiJob \in [Urls -> [at : {"none", "fetching", "tell", "leave"}, cells : {0} \cup Sizes]]
    /\ \A u \in Urls : emojiJob[u].at = "fetching" => emojiJob[u].cells \in Sizes
    /\ queue \in Seq(Urls)
    /\ shown \in [Surfaces -> {"stale", "blank", "picture", "text"}]
    /\ preview \in [pic : Previews \cup {NoPlace}, id : {0} \cup Ids]
    /\ fails \in 0 .. MaxFails /\ draws \in 0 .. MaxDraws

PlaceInv == RegistryInv /\ OwnPicture /\ RenderedInv /\ ShownInv /\ RestTyped

LEMMA SlotsFinite ==
    IsFiniteSet(Slots) /\ Cardinality(Slots) \in Nat /\ IdBound \in Nat
<1> DEFINE g == [s \in Surfaces |-> CellsOf[s]]
           h == [v \in Previews |-> KeyOf[v]]
<1>1. g \in Surjection(Surfaces, Sizes)
  BY DEF Surjection, Sizes
<1>2. h \in Surjection(Previews, {KeyOf[v] : v \in Previews})
  BY DEF Surjection
<1> HIDE DEF g, h
<1>3. IsFiniteSet(Sizes)
  BY <1>1, FS_Surjection, EmojiPlaceAssumption
<1>4. IsFiniteSet({KeyOf[v] : v \in Previews})
  BY <1>2, FS_Surjection, EmojiPlaceAssumption
<1>5. IsFiniteSet(PlaceKeys)
  BY <1>4, FS_Union, EmojiPlaceAssumption DEF PlaceKeys
<1>6. IsFiniteSet(PlaceKeys \X Sizes)
  BY <1>3, <1>5, FS_Product
<1> QED
  BY <1>6, FS_CardinalityType DEF Slots, IdBound

LEMMA SlotOf ==
    /\ \A u \in Urls, n \in Sizes : <<u, n>> \in Slots /\ <<u, n>> \in Urls \X Sizes
    /\ \A s \in Surfaces : UrlOf[s] \in Urls /\ CellsOf[s] \in Sizes
    /\ \A v \in Previews, n \in Sizes : KeyOf[v] \in PlaceKeys \ Urls /\ <<KeyOf[v], n>> \in Slots
BY EmojiPlaceAssumption DEF Slots, PlaceKeys, Sizes

LEMMA NextInRange ==
    ASSUME RegistryInv
    PROVE  /\ next \in 2 .. IdBound + 1 /\ next \in Nat
           /\ \A p \in Slots : ids[p] = 0 => next \in Ids
<1>1. Minted \in SUBSET Slots
  BY DEF Minted
<1>2. /\ IsFiniteSet(Minted) /\ Cardinality(Minted) <= Cardinality(Slots)
      /\ Cardinality(Slots) = Cardinality(Minted) => Slots = Minted
  BY <1>1, SlotsFinite, FS_Subset
<1>3. Cardinality(Minted) \in Nat
  BY <1>2, FS_CardinalityType
<1>4. \A p \in Slots : ids[p] = 0 => Slots # Minted
  BY DEF Minted
<1> QED
  BY <1>2, <1>3, <1>4, SlotsFinite DEF RegistryInv, IdBound, Ids

\* What a slot's id is, whether it is known or minted.
LEMMA IdOfSlot ==
    ASSUME RegistryInv, NEW slot \in Slots
    PROVE  /\ IdOf(slot) \in Ids /\ IdOf(slot) # 0
           /\ \A p \in Minted : p # slot => ids[p] # IdOf(slot)
<1>1. CASE ids[slot] = 0
  BY <1>1, NextInRange DEF IdOf, RegistryInv, Minted, Ids
<1>2. CASE ids[slot] # 0
  BY <1>2 DEF IdOf, RegistryInv, Minted, Ids
<1> QED
  BY <1>1, <1>2

\* Rendering a slot, with or without a write to the terminal.
LEMMA RenderKeepsRegistry ==
    ASSUME RegistryInv, OwnPicture, NEW key \in PlaceKeys, NEW n \in Sizes, NEW pic \in Pictures,
           key \in Urls => pic = key,
           SetSourceAndRender(key, <<key, n>>, pic),
           \/ UNCHANGED <<uploaded, terminal>>
           \/ /\ key \notin Urls
              /\ terminal' = [terminal EXCEPT ![IdOf(<<key, n>>)] = Encoded(<<key, n>>, pic)]
              /\ uploaded' = uploaded \cup {IdOf(<<key, n>>)}
    PROVE  /\ RegistryInv' /\ OwnPicture'
           /\ ids'[<<key, n>>] = IdOf(<<key, n>>)
           /\ \A p \in Slots : ids[p] # 0 => ids'[p] = ids[p]
           /\ key \in Urls => /\ Encoded(<<key, n>>, pic) = key
<1> DEFINE slot == <<key, n>>
           id == IdOf(slot)
<1>0. slot \in Slots
  BY DEF Slots
<1>1. /\ id \in Ids /\ id # 0
      /\ \A p \in Minted : p # slot => ids[p] # id
  BY <1>0, IdOfSlot
<1>2. Encoded(slot, pic) \in Pictures
  BY <1>1 DEF Encoded, RegistryInv
<1>3. /\ source' = [source EXCEPT ![key] = pic]
      /\ ids' = [ids EXCEPT ![slot] = id]
      /\ next' = IF ids[slot] = 0 THEN next + 1 ELSE next
      /\ payload' = IF Fresh(slot) THEN [payload EXCEPT ![id] = Encoded(slot, pic)] ELSE payload
  BY DEF SetSourceAndRender
<1>4. /\ terminal' = terminal \/ terminal' = [terminal EXCEPT ![id] = Encoded(slot, pic)]
      /\ uploaded' = uploaded \/ uploaded' = uploaded \cup {id}
      /\ key \in Urls => UNCHANGED <<uploaded, terminal>>
  OBVIOUS
<1>5. /\ ids'[slot] = id /\ \A p \in Slots : p # slot => ids'[p] = ids[p]
  BY <1>0, <1>3 DEF RegistryInv
<1>6. \A p \in Slots : ids[p] # 0 => ids'[p] = ids[p]
  BY <1>5 DEF IdOf
<1>7. Minted' = Minted \cup {slot}
  BY <1>0, <1>1, <1>5 DEF Minted
<1>8. next' = Cardinality(Minted') + 2
  <2>1. Minted \in SUBSET Slots
    BY DEF Minted
  <2>2. IsFiniteSet(Minted) /\ Cardinality(Minted) \in Nat
    BY <2>1, SlotsFinite, FS_Subset, FS_CardinalityType
  <2>3. slot \in Minted <=> ids[slot] # 0
    BY <1>0 DEF Minted
  <2>4. Cardinality(Minted \cup {slot}) =
            IF slot \in Minted THEN Cardinality(Minted) ELSE Cardinality(Minted) + 1
    BY <2>2, FS_AddElement
  <2>5. next = Cardinality(Minted) + 2
    BY DEF RegistryInv
  <2> HIDE DEF slot
  <2> QED
    BY <1>3, <1>7, <2>2, <2>3, <2>4, <2>5
<1>9. next \in Nat /\ next' \in Nat /\ next <= next' /\ id < next'
  BY <1>0, <1>3, NextInRange DEF IdOf, RegistryInv
<1>10. \A p, q \in Minted' : ids'[p] = ids'[q] => p = q
  <2>1. \A p \in Minted' : p = slot \/ (p \in Minted /\ p # slot /\ p \in Slots)
    BY <1>7 DEF Minted
  <2> QED
    BY <1>1, <1>5, <2>1 DEF RegistryInv
<1> HIDE DEF slot, id
<1>11. /\ source' \in [PlaceKeys -> Pictures \cup {NoPlace}]
       /\ ids' \in [Slots -> {0} \cup Ids]
       /\ uploaded' \subseteq Ids
       /\ payload' \in [Ids -> Pictures \cup {NoPlace}]
       /\ terminal' \in [Ids -> Pictures \cup {NoPlace}]
  <2> DEFINE e == Encoded(slot, pic)
  <2> HIDE DEF e
  <2>0. e \in Pictures
    BY <1>2 DEF e
  <2>1. source' \in [PlaceKeys -> Pictures \cup {NoPlace}]
    BY <1>3 DEF RegistryInv
  <2>2. ids' \in [Slots -> {0} \cup Ids] /\ uploaded' \subseteq Ids
    BY <1>1, <1>3, <1>4 DEF RegistryInv
  <2>3. payload' \in [Ids -> Pictures \cup {NoPlace}]
    BY <1>3, <2>0 DEF RegistryInv, e
  <2>4. terminal' \in [Ids -> Pictures \cup {NoPlace}]
    BY <1>4, <2>0 DEF RegistryInv, e
  <2> QED
    BY <2>1, <2>2, <2>3, <2>4
<1>12. \A p \in Slots : ids'[p] < next'
  BY <1>5, <1>9 DEF RegistryInv, Ids
<1>13. \A i \in Ids : i >= next' => i \notin uploaded' /\ payload'[i] = NoPlace
  <2>1. \A i \in Ids : i >= next' => i >= next /\ i # id
    BY <1>1, <1>9 DEF Ids
  <2> QED
    BY <1>3, <1>4, <2>1 DEF RegistryInv
<1>14. RegistryInv'
  BY <1>8, <1>10, <1>11, <1>12, <1>13 DEF RegistryInv
<1>15. key \in Urls => Encoded(slot, pic) = key
  <2>1. CASE ids[slot] = 0
    BY <1>0, <2>1, NextInRange DEF Encoded, IdOf, RegistryInv, Ids, slot
  <2>2. CASE ids[slot] # 0
    BY <2>2 DEF Encoded, IdOf, OwnPicture, slot
  <2> QED
    BY <2>1, <2>2
<1>16. OwnPicture'
  <2> SUFFICES ASSUME NEW u \in Urls, NEW m \in Sizes, ids'[<<u, m>>] # 0
               PROVE  /\ payload'[ids'[<<u, m>>]] \in {NoPlace, u}
                      /\ ids'[<<u, m>>] \in uploaded' => terminal'[ids'[<<u, m>>]] = u
    BY DEF OwnPicture
  <2>0. <<u, m>> \in Slots
    BY SlotOf
  <2>1. CASE <<u, m>> = slot
    <3>1. u = key /\ ids'[<<u, m>>] = id
      BY <1>5, <2>1 DEF slot
    <3>2. uploaded' = uploaded /\ terminal' = terminal /\ Encoded(slot, pic) = u
      BY <1>4, <1>15, <3>1
    <3>3. payload'[id] \in {NoPlace, u}
      <4>1. CASE Fresh(slot)
        BY <1>1, <1>3, <3>2, <4>1 DEF RegistryInv
      <4>2. CASE ~Fresh(slot)
        <5>1. ids[slot] # 0
          BY <1>0, <4>2, NextInRange DEF Fresh, IdOf, RegistryInv, Ids
        <5>2. id = ids[slot]
          BY <5>1 DEF id, IdOf
        <5> QED
          BY <1>3, <2>1, <4>2, <5>1, <5>2 DEF OwnPicture
      <4> QED
        BY <4>1, <4>2
    <3>4. id \in uploaded => terminal[id] = u
      <4>1. id \in uploaded => ids[slot] # 0
        BY <1>0, NextInRange DEF id, IdOf, RegistryInv, Ids
      <4>2. ids[slot] # 0 => id = ids[slot]
        BY DEF id, IdOf
      <4> QED
        BY <2>1, <4>1, <4>2 DEF OwnPicture
    <3> QED
      BY <3>1, <3>2, <3>3, <3>4
  <2>2. CASE <<u, m>> # slot
    <3>1. ids'[<<u, m>>] = ids[<<u, m>>] /\ ids[<<u, m>>] \in Ids
      BY <1>5, <2>0, <2>2 DEF RegistryInv
    <3>2. ids[<<u, m>>] # id
      BY <1>1, <2>0, <2>2, <3>1 DEF Minted
    <3>3. payload'[ids[<<u, m>>]] = payload[ids[<<u, m>>]]
      BY <1>3, <3>1, <3>2 DEF RegistryInv
    <3>4. /\ terminal'[ids[<<u, m>>]] = terminal[ids[<<u, m>>]]
          /\ ids[<<u, m>>] \in uploaded' => ids[<<u, m>>] \in uploaded
      BY <1>4, <3>1, <3>2 DEF RegistryInv
    <3> QED
      BY <3>1, <3>3, <3>4 DEF OwnPicture
  <2> QED
    BY <2>1, <2>2
<1> QED
  BY <1>5, <1>6, <1>14, <1>15, <1>16 DEF slot, id

LEMMA PlaceBegins == PlaceInit => PlaceInv
<1> SUFFICES ASSUME PlaceInit PROVE PlaceInv
  OBVIOUS
<1>0. Minted = {} /\ next = 2
  BY DEF PlaceInit, Minted
<1>1. Minted = {} /\ next = Cardinality(Minted) + 2
  BY <1>0, FS_EmptySet
<1>2. RegistryInv
  BY <1>1 DEF PlaceInit, RegistryInv
<1>3. OwnPicture
  BY SlotOf DEF PlaceInit, OwnPicture
<1>4. RenderedInv
  BY DEF PlaceInit, RenderedInv, NoRender
<1>5. ShownInv
  BY DEF PlaceInit, ShownInv
<1>6. RestTyped
  <2>1. preview \in [pic : Previews \cup {NoPlace}, id : {0} \cup Ids]
    BY DEF PlaceInit
  <2>2. emojiJob \in [Urls -> [at : {"none", "fetching", "tell", "leave"}, cells : {0} \cup Sizes]]
    BY DEF PlaceInit
  <2>3. MaxFails \in Nat /\ MaxDraws \in Nat
    BY EmojiPlaceAssumption
  <2> QED
    BY <2>1, <2>2, <2>3 DEF PlaceInit, RestTyped
<1> QED
  BY <1>2, <1>3, <1>4, <1>5, <1>6 DEF PlaceInv

\* A rendering stays right while ids and deliveries only grow.
LEMMA KeptStays ==
    ASSUME NEW u \in Urls, NEW n \in Sizes, Kept(u, n), RestTyped,
           rendered'[<<u, n>>] = rendered[<<u, n>>],
           ids[<<u, n>>] # 0 => ids'[<<u, n>>] = ids[<<u, n>>],
           uploaded \subseteq uploaded', fails \in Nat, fails' \in Nat, fails <= fails'
    PROVE  Kept(u, n)'
BY DEF Kept

\* The steps that render nothing and write nothing.
LEMMA JobSteps ==
    ASSUME PlaceInv, NEW u \in Urls, FetchFails(u) \/ Tell(u) \/ Leave(u) PROVE PlaceInv'
<1>1. UNCHANGED <<registry, terminal, rendered, shown, preview, fails, draws>>
  BY DEF FetchFails, Tell, Leave
<1>2. RegistryInv' /\ OwnPicture' /\ RenderedInv' /\ ShownInv'
  BY <1>1 DEF PlaceInv, registry, RegistryInv, Minted, OwnPicture, RenderedInv, Kept, ShownInv
<1>3. RestTyped'
  <2>1. CASE FetchFails(u)
    BY <2>1 DEF FetchFails, MarkFailed, PlaceInv, RestTyped
  <2>2. CASE Tell(u)
    BY <2>2 DEF Tell, PlaceInv, RestTyped
  <2>3. CASE Leave(u)
    BY <2>3 DEF Leave, PlaceInv, RestTyped
  <2> QED
    BY <2>1, <2>2, <2>3
<1> QED
  BY <1>2, <1>3 DEF PlaceInv

LEMMA SurfaceSteps ==
    ASSUME PlaceInv, Ready \/ \E s \in Surfaces : Redraw(s) PROVE PlaceInv'
<1>1. UNCHANGED <<registry, terminal, rendered, inflight, failed, emojiJob, preview, fails>>
  BY DEF Ready, Redraw
<1>2. /\ shown' \in [Surfaces -> {"stale", "blank", "picture", "text"}]
      /\ \A s \in Surfaces : shown'[s] = "picture" => shown[s] = "picture"
  BY DEF Ready, Redraw, PlaceInv, RestTyped
<1>3. RegistryInv' /\ OwnPicture' /\ RenderedInv'
  BY <1>1 DEF PlaceInv, registry, RegistryInv, Minted, OwnPicture, RenderedInv, Kept
<1>4. ShownInv'
  BY <1>1, <1>2 DEF PlaceInv, registry, ShownInv
<1>5. queue' \in Seq(Urls) /\ draws' \in 0 .. MaxDraws
  <2>1. MaxDraws \in Nat /\ queue \in Seq(Urls) /\ draws \in 0 .. MaxDraws
    BY EmojiPlaceAssumption DEF PlaceInv, RestTyped
  <2>2. CASE Ready
    BY <2>1, <2>2 DEF Ready
  <2>3. CASE \E s \in Surfaces : Redraw(s)
    BY <2>1, <2>3 DEF Redraw
  <2> QED
    BY <2>2, <2>3
<1>6. RestTyped'
  BY <1>1, <1>2, <1>5 DEF PlaceInv, RestTyped
<1> QED
  BY <1>3, <1>4, <1>6 DEF PlaceInv

LEMMA FetchedKeeps ==
    ASSUME PlaceInv, NEW u \in Urls, Fetched(u) PROVE PlaceInv'
<1> DEFINE n == emojiJob[u].cells
           r == RenderKey(<<u, n>>, u)
<1>1. n \in Sizes /\ u \in PlaceKeys /\ u \in Pictures /\ <<u, n>> \in Slots
  BY DEF Fetched, PlaceInv, RestTyped, PlaceKeys, Pictures, Slots
<1>2. /\ SetSourceAndRender(u, <<u, n>>, u)
      /\ rendered' = [rendered EXCEPT ![<<u, n>>] = r]
      /\ emojiJob' = [emojiJob EXCEPT ![u].at = "tell"]
      /\ UNCHANGED <<uploaded, terminal, inflight, failed, queue, shown, preview, fails, draws>>
  BY DEF Fetched, Slot
<1> HIDE DEF n
<1>3. /\ RegistryInv' /\ OwnPicture'
      /\ ids'[<<u, n>>] = IdOf(<<u, n>>)
      /\ \A p \in Slots : ids[p] # 0 => ids'[p] = ids[p]
      /\ Encoded(<<u, n>>, u) = u
  BY <1>1, <1>2, RenderKeepsRegistry DEF PlaceInv
<1>4. /\ IdOf(<<u, n>>) \in Ids /\ IdOf(<<u, n>>) # 0
  BY <1>1, IdOfSlot DEF PlaceInv
<1>5. /\ r \in [id : {0} \cup Ids, flush : BOOLEAN, fired : BOOLEAN, pic : Pictures \cup {NoPlace}]
      /\ r.id = IdOf(<<u, n>>) /\ ~r.fired
      /\ r.flush => r.pic = u
      /\ ~r.flush => r.id \in uploaded
  BY <1>1, <1>3, <1>4 DEF RenderKey, Fresh
<1> HIDE DEF r
<1>6. /\ rendered'[<<u, n>>] = r
      /\ \A q \in Urls \X Sizes : q # <<u, n>> => rendered'[q] = rendered[q]
      /\ rendered' \in [Urls \X Sizes -> [id : {0} \cup Ids, flush : BOOLEAN, fired : BOOLEAN,
                                          pic : Pictures \cup {NoPlace}]]
  BY <1>1, <1>2, <1>5 DEF PlaceInv, RenderedInv
<1>7. RenderedInv'
  <2> SUFFICES ASSUME NEW w \in Urls, NEW m \in Sizes, rendered'[<<w, m>>] # NoRender
               PROVE  Kept(w, m)'
    BY <1>6 DEF RenderedInv
  <2>1. CASE <<w, m>> = <<u, n>>
    BY <1>2, <1>3, <1>4, <1>5, <1>6, <2>1 DEF Kept
  <2>2. CASE <<w, m>> # <<u, n>>
    <3>1. <<w, m>> \in Slots /\ <<w, m>> \in Urls \X Sizes
      BY SlotOf
    <3>2. rendered'[<<w, m>>] = rendered[<<w, m>>] /\ Kept(w, m)
      BY <1>6, <2>2, <3>1 DEF PlaceInv, RenderedInv
    <3> QED
      BY <1>2, <1>3, <3>1, <3>2, KeptStays DEF PlaceInv, RestTyped
  <2> QED
    BY <2>1, <2>2
<1>8. r # NoRender
  BY <1>4, <1>5 DEF NoRender
<1>9. ShownInv'
  <2> SUFFICES ASSUME NEW s \in Surfaces, shown'[s] = "picture"
               PROVE  /\ rendered'[<<UrlOf[s], CellsOf[s]>>] # NoRender
                      /\ fails' = 0 => ids'[<<UrlOf[s], CellsOf[s]>>] \in uploaded'
    BY DEF ShownInv
  <2> DEFINE p == <<UrlOf[s], CellsOf[s]>>
  <2>1. p \in Slots /\ p \in Urls \X Sizes
    BY SlotOf
  <2>2. rendered[p] # NoRender /\ (fails = 0 => ids[p] \in uploaded)
    BY <1>2 DEF PlaceInv, ShownInv
  <2>3. ids[p] # 0
    BY <2>2, SlotOf DEF PlaceInv, RenderedInv, Kept
  <2> HIDE DEF p
  <2>4. rendered'[p] # NoRender
    BY <1>6, <1>8, <2>1, <2>2
  <2>5. fails' = 0 => ids'[p] \in uploaded'
    BY <1>2, <1>3, <2>1, <2>2, <2>3
  <2> QED
    BY <2>4, <2>5 DEF p
<1>10. RestTyped'
  BY <1>2 DEF PlaceInv, RestTyped
<1> QED
  BY <1>3, <1>7, <1>9, <1>10 DEF PlaceInv

\* A write, of a rendering of that slot, succeeds or fails.
LEMMA PlaceKeeps ==
    ASSUME PlaceInv, NEW s \in Surfaces, Place(s) PROVE PlaceInv'
<1> DEFINE u == UrlOf[s]
           n == CellsOf[s]
           slot == <<u, n>>
           r == rendered[slot]
<1>0. u \in Urls /\ n \in Sizes /\ slot \in Slots /\ slot \in Urls \X Sizes
  BY SlotOf
<1>1. /\ UNCHANGED <<source, ids, next, payload, failed, queue, preview, draws>>
      /\ \E what \in {"text", "picture", "blank"} : shown' = [shown EXCEPT ![s] = what]
  BY DEF Place
<1>2. /\ shown' \in [Surfaces -> {"stale", "blank", "picture", "text"}]
      /\ \A t \in Surfaces : t # s => shown'[t] = shown[t]
  BY <1>1 DEF PlaceInv, RestTyped
<1>3. \/ /\ UNCHANGED <<terminal, uploaded, rendered, fails>>
         /\ shown'[s] # "picture"
         /\ \/ UNCHANGED <<inflight, emojiJob>>
            \/ /\ inflight' = inflight \cup {u}
               /\ emojiJob' = [emojiJob EXCEPT ![u] = [at |-> "fetching", cells |-> n]]
      \/ /\ r # NoRender /\ Flush(slot, r) /\ UNCHANGED <<inflight, emojiJob>>
  BY DEF Place, PlaceInv, RestTyped
<1>4. CASE /\ UNCHANGED <<terminal, uploaded, rendered, fails>>
           /\ shown'[s] # "picture"
           /\ \/ UNCHANGED <<inflight, emojiJob>>
              \/ /\ inflight' = inflight \cup {u}
                 /\ emojiJob' = [emojiJob EXCEPT ![u] = [at |-> "fetching", cells |-> n]]
  <2>1. RegistryInv' /\ OwnPicture' /\ RenderedInv'
    BY <1>1, <1>4 DEF PlaceInv, RegistryInv, Minted, OwnPicture, RenderedInv, Kept
  <2>2. ShownInv'
    BY <1>1, <1>2, <1>4 DEF PlaceInv, ShownInv
  <2>3. inflight' \subseteq Urls
    BY <1>0, <1>4 DEF PlaceInv, RestTyped
  <2>4. /\ emojiJob' \in [Urls -> [at : {"none", "fetching", "tell", "leave"},
                               cells : {0} \cup Sizes]]
        /\ \A w \in Urls : emojiJob'[w].at = "fetching" => emojiJob'[w].cells \in Sizes
    <3> HIDE DEF u, n
    <3> QED
      BY <1>0, <1>4 DEF PlaceInv, RestTyped
  <2>5. RestTyped'
    BY <1>1, <1>2, <1>4, <2>3, <2>4 DEF PlaceInv, RestTyped
  <2> QED
    BY <2>1, <2>2, <2>5 DEF PlaceInv
<1>5. CASE r # NoRender /\ Flush(slot, r) /\ UNCHANGED <<inflight, emojiJob>>
  <2>1. Kept(u, n) /\ ids[slot] \in Ids
    BY <1>0, <1>5 DEF PlaceInv, RenderedInv, Kept, RegistryInv
  <2>2. /\ r.id = ids[slot] /\ r.id # 0
        /\ r.flush => r.pic = u
        /\ ~r.flush => r.id \in uploaded
        /\ (r.flush /\ r.fired /\ fails = 0) => r.id \in uploaded
    BY <2>1 DEF Kept
  <2>3. r \in [id : {0} \cup Ids, flush : BOOLEAN, fired : BOOLEAN, pic : Pictures \cup {NoPlace}]
    BY <1>0 DEF PlaceInv, RenderedInv
  <2>4. fails \in Nat /\ fails \in 0 .. MaxFails /\ MaxFails \in Nat
    BY EmojiPlaceAssumption DEF PlaceInv, RestTyped
  <2> HIDE DEF u, n, slot, r
  <2>5. /\ rendered' = rendered \/ rendered' = [rendered EXCEPT ![slot].fired = TRUE]
        /\ fails' \in 0 .. MaxFails /\ fails <= fails' /\ fails' \in Nat
        /\ uploaded \subseteq uploaded' /\ uploaded' \subseteq uploaded \cup {r.id}
        /\ \/ UNCHANGED <<terminal, uploaded>>
           \/ /\ r.flush /\ terminal' = [terminal EXCEPT ![r.id] = r.pic]
              /\ uploaded' = uploaded \cup {r.id}
        /\ fails' = 0 => r.id \in uploaded'
    <3>1. CASE ~r.flush \/ r.fired
      BY <1>5, <2>2, <2>3, <2>4, <3>1 DEF Flush
    <3>2. CASE r.flush /\ ~r.fired
      BY <1>5, <2>2, <2>3, <2>4, <3>2 DEF Flush, UploadWritten
    <3> QED
      BY <2>3, <3>1, <3>2
  <2>6. RegistryInv'
    <3>1. r.id \in Ids /\ r.id < next
      BY <1>0, <2>1, <2>2 DEF PlaceInv, RegistryInv
    <3>2. uploaded' \subseteq Ids /\ \A i \in Ids : i >= next => i \notin uploaded'
      BY <2>5, <3>1, NextInRange DEF PlaceInv, RegistryInv, Ids
    <3>3. terminal' \in [Ids -> Pictures \cup {NoPlace}]
      BY <2>3, <2>5, <3>1 DEF PlaceInv, RegistryInv
    <3> QED
      BY <1>1, <3>2, <3>3 DEF PlaceInv, RegistryInv, Minted
  <2>7. OwnPicture'
    <3> SUFFICES ASSUME NEW w \in Urls, NEW m \in Sizes, ids[<<w, m>>] # 0
                 PROVE  /\ payload[ids[<<w, m>>]] \in {NoPlace, w}
                        /\ ids[<<w, m>>] \in uploaded' => terminal'[ids[<<w, m>>]] = w
      BY <1>1 DEF OwnPicture
    <3>1. <<w, m>> \in Slots /\ <<w, m>> \in Minted /\ slot \in Minted /\ r.id \in Ids
      BY <1>0, <2>1, <2>2, SlotOf DEF Minted
    <3>2. /\ payload[ids[<<w, m>>]] \in {NoPlace, w}
          /\ ids[<<w, m>>] \in uploaded => terminal[ids[<<w, m>>]] = w
      BY DEF PlaceInv, OwnPicture
    <3>3. CASE <<w, m>> = slot
      <4>1. w = u
        BY <3>3 DEF slot
      <4> QED
        BY <2>2, <2>5, <3>1, <3>2, <3>3, <4>1 DEF PlaceInv, RegistryInv
    <3>4. CASE <<w, m>> # slot
      <4>1. ids[<<w, m>>] # r.id
        BY <2>2, <3>1, <3>4 DEF PlaceInv, RegistryInv
      <4>2. /\ ids[<<w, m>>] \in uploaded' => ids[<<w, m>>] \in uploaded
            /\ terminal'[ids[<<w, m>>]] = terminal[ids[<<w, m>>]]
        BY <2>5, <3>1, <4>1 DEF PlaceInv, RegistryInv
      <4> QED
        BY <3>2, <4>2
    <3> QED
      BY <3>3, <3>4
  <2>8. /\ rendered' \in [Urls \X Sizes -> [id : {0} \cup Ids, flush : BOOLEAN, fired : BOOLEAN,
                                          pic : Pictures \cup {NoPlace}]]
        /\ \A q \in Urls \X Sizes : q # slot => rendered'[q] = rendered[q]
        /\ rendered'[slot].id = r.id /\ rendered'[slot].flush = r.flush
        /\ rendered'[slot].pic = r.pic
    <3>0. r = rendered[slot]
      BY DEF r
    <3>1. CASE rendered' = rendered
      BY <3>0, <3>1 DEF PlaceInv, RenderedInv
    <3>2. CASE rendered' = [rendered EXCEPT ![slot].fired = TRUE]
      <4>1. rendered'[slot] = [r EXCEPT !.fired = TRUE]
        BY <1>0, <3>0, <3>2 DEF PlaceInv, RenderedInv
      <4>2. /\ rendered'[slot] \in [id : {0} \cup Ids, flush : BOOLEAN, fired : BOOLEAN,
                                    pic : Pictures \cup {NoPlace}]
            /\ rendered'[slot].id = r.id /\ rendered'[slot].flush = r.flush
            /\ rendered'[slot].pic = r.pic
        BY <2>3, <4>1
      <4>3. \A q \in Urls \X Sizes : q # slot => rendered'[q] = rendered[q]
        BY <3>2 DEF PlaceInv, RenderedInv
      <4>4. DOMAIN rendered' = Urls \X Sizes
        BY <3>2 DEF PlaceInv, RenderedInv
      <4>5. rendered' = [q \in Urls \X Sizes |-> rendered'[q]]
        BY <3>2, <4>4 DEF PlaceInv, RenderedInv
      <4> QED
        BY <1>0, <4>2, <4>3, <4>5 DEF PlaceInv, RenderedInv
    <3> QED
      BY <2>5, <3>1, <3>2
  <2>9. RenderedInv'
    <3> SUFFICES ASSUME NEW w \in Urls, NEW m \in Sizes, rendered'[<<w, m>>] # NoRender
                 PROVE  Kept(w, m)'
      BY <2>8 DEF RenderedInv
    <3>0. <<w, m>> \in Urls \X Sizes
      BY SlotOf
    <3>1. CASE <<w, m>> = slot
      <4>1. w = u
        BY <3>1 DEF slot
      <4>2. fails' = 0 => r.id \in uploaded'
        BY <2>5
      <4> QED
        BY <1>1, <2>2, <2>5, <2>8, <3>1, <4>1, <4>2 DEF Kept
    <3>2. CASE <<w, m>> # slot
      <4>1. rendered'[<<w, m>>] = rendered[<<w, m>>] /\ Kept(w, m)
        BY <2>8, <3>0, <3>2 DEF PlaceInv, RenderedInv
      <4>2. ids'[<<w, m>>] = ids[<<w, m>>]
        BY <1>1
      <4> QED
        BY <2>4, <2>5, <4>1, <4>2, KeptStays DEF PlaceInv
    <3> QED
      BY <3>1, <3>2
  <2>10. ShownInv'
    <3> SUFFICES ASSUME NEW t \in Surfaces, shown'[t] = "picture"
                 PROVE  /\ rendered'[<<UrlOf[t], CellsOf[t]>>] # NoRender
                        /\ fails' = 0 => ids'[<<UrlOf[t], CellsOf[t]>>] \in uploaded'
      BY DEF ShownInv
    <3> DEFINE p == <<UrlOf[t], CellsOf[t]>>
    <3>1. p \in Slots /\ p \in Urls \X Sizes
      BY SlotOf
    <3>2. CASE p = slot
      <4>1. rendered'[p].id # 0
        BY <2>2, <2>8, <3>2
      <4>2. rendered'[p] # NoRender
        BY <4>1 DEF NoRender
      <4>3. fails' = 0 => ids'[p] \in uploaded'
        BY <1>1, <2>2, <2>5, <3>2
      <4> QED
        BY <4>2, <4>3
    <3>3. CASE p # slot
      <4>1. t # s
        BY <3>3 DEF slot, u, n
      <4>2. rendered[p] # NoRender /\ (fails = 0 => ids[p] \in uploaded)
        BY <1>2, <4>1 DEF PlaceInv, ShownInv
      <4> HIDE DEF p
      <4>3. rendered'[p] # NoRender
        BY <2>8, <3>1, <3>3, <4>2
      <4>4. fails' = 0 => ids'[p] \in uploaded'
        BY <1>1, <2>4, <2>5, <4>2
      <4> QED
        BY <4>3, <4>4 DEF p
    <3> QED
      BY <3>2, <3>3
  <2>11. RestTyped'
    BY <1>1, <1>2, <1>5, <2>5 DEF PlaceInv, RestTyped
  <2> QED
    BY <2>6, <2>7, <2>9, <2>10, <2>11 DEF PlaceInv
<1> HIDE DEF u, n, slot, r
<1> QED
  BY <1>3, <1>4, <1>5

LEMMA DrawKeeps ==
    ASSUME PlaceInv, NEW v \in Previews, Draw(v) PROVE PlaceInv'
<1>1. PICK n \in Sizes :
        /\ SetSourceAndRender(KeyOf[v], <<KeyOf[v], n>>, v)
        /\ preview' = [pic |-> v, id |-> IdOf(<<KeyOf[v], n>>)]
        /\ UploadWritten(RenderKey(<<KeyOf[v], n>>, v))
  BY DEF Draw, Slot
<1> DEFINE slot == <<KeyOf[v], n>>
<1>2. /\ KeyOf[v] \in PlaceKeys /\ KeyOf[v] \notin Urls /\ slot \in Slots /\ v \in Pictures
  BY SlotOf DEF Pictures
<1>3. draws < MaxDraws /\ draws' = draws + 1 /\ UNCHANGED place
  BY DEF Draw
<1>4. fails \in Nat /\ fails \in 0 .. MaxFails /\ MaxFails \in Nat /\ MaxDraws \in Nat
  BY EmojiPlaceAssumption DEF PlaceInv, RestTyped
<1>5. /\ RenderKey(slot, v).id = IdOf(slot) /\ RenderKey(slot, v).flush = Fresh(slot)
      /\ Fresh(slot) => RenderKey(slot, v).pic = Encoded(slot, v)
  BY DEF RenderKey
<1> HIDE DEF slot
<1>6. /\ \/ UNCHANGED <<uploaded, terminal>>
         \/ /\ terminal' = [terminal EXCEPT ![IdOf(slot)] = Encoded(slot, v)]
            /\ uploaded' = uploaded \cup {IdOf(slot)}
      /\ fails' \in 0 .. MaxFails /\ fails' \in Nat /\ fails <= fails'
  <2>1. UploadWritten(RenderKey(slot, v))
    BY <1>1 DEF slot
  <2> QED
    BY <1>4, <1>5, <2>1 DEF UploadWritten
<1>7. /\ RegistryInv' /\ OwnPicture'
      /\ \A p \in Slots : ids[p] # 0 => ids'[p] = ids[p]
  BY <1>1, <1>2, <1>6, RenderKeepsRegistry DEF PlaceInv, slot
<1>8. uploaded \subseteq uploaded'
  BY <1>6
<1>9. RenderedInv'
  <2>1. rendered' = rendered
    BY <1>3 DEF place
  <2> SUFFICES ASSUME NEW w \in Urls, NEW m \in Sizes, rendered'[<<w, m>>] # NoRender
               PROVE  Kept(w, m)'
    BY <2>1 DEF PlaceInv, RenderedInv
  <2>2. Kept(w, m) /\ <<w, m>> \in Slots
    BY <2>1, SlotOf DEF PlaceInv, RenderedInv
  <2> QED
    BY <1>4, <1>6, <1>7, <1>8, <2>1, <2>2, KeptStays DEF PlaceInv
<1>10. ShownInv'
  <2> SUFFICES ASSUME NEW s \in Surfaces, shown'[s] = "picture"
               PROVE  /\ rendered'[<<UrlOf[s], CellsOf[s]>>] # NoRender
                      /\ fails' = 0 => ids'[<<UrlOf[s], CellsOf[s]>>] \in uploaded'
    BY DEF ShownInv
  <2>1. /\ rendered[<<UrlOf[s], CellsOf[s]>>] # NoRender
        /\ fails = 0 => ids[<<UrlOf[s], CellsOf[s]>>] \in uploaded
    BY <1>3 DEF place, PlaceInv, ShownInv
  <2>2. ids[<<UrlOf[s], CellsOf[s]>>] # 0 /\ <<UrlOf[s], CellsOf[s]>> \in Slots
    BY <2>1, SlotOf DEF PlaceInv, RenderedInv, Kept
  <2> QED
    BY <1>3, <1>4, <1>6, <1>7, <1>8, <2>1, <2>2 DEF place
<1>11. RestTyped'
  <2>1. IdOf(slot) \in Ids
    BY <1>2, IdOfSlot DEF PlaceInv
  <2>2. preview' \in [pic : Previews \cup {NoPlace}, id : {0} \cup Ids]
    BY <1>1, <2>1 DEF slot
  <2>3. draws' \in 0 .. MaxDraws
    BY <1>3, <1>4 DEF PlaceInv, RestTyped
  <2> QED
    BY <1>3, <1>6, <2>2, <2>3 DEF place, PlaceInv, RestTyped
<1> QED
  BY <1>7, <1>9, <1>10, <1>11 DEF PlaceInv

LEMMA PlaceSteps == PlaceInv /\ [PlaceNext]_placeVars => PlaceInv'
<1> SUFFICES ASSUME PlaceInv, [PlaceNext]_placeVars PROVE PlaceInv'
  OBVIOUS
<1>1. CASE \E u \in Urls : Goroutine(u)
  BY <1>1, FetchedKeeps, JobSteps DEF Goroutine
<1>2. CASE Ready \/ \E s \in Surfaces : Redraw(s)
  BY <1>2, SurfaceSteps
<1>3. CASE \E s \in Surfaces : Place(s)
  BY <1>3, PlaceKeeps
<1>4. CASE \E v \in Previews : Draw(v)
  BY <1>4, DrawKeeps
<1>5. CASE UNCHANGED placeVars
  BY <1>5 DEF placeVars, registry, place, PlaceInv, RegistryInv, Minted, OwnPicture, RenderedInv,
              Kept, ShownInv, RestTyped
<1> QED
  BY <1>1, <1>2, <1>3, <1>4, <1>5 DEF PlaceNext

\* A surface that shows the picture draws cells of an id that has that picture on
\* the terminal, as long as no write failed, for any pictures, surfaces and sizes
\* (kitty.go:259-278, registry.go:9-19).
THEOREM ScreenShowsThePicture == PlaceSpec => []ScreenIsOnTerminal
<1>1. PlaceInv => ScreenIsOnTerminal
  BY SlotOf DEF PlaceInv, ShownInv, RenderedInv, Kept, OwnPicture, ScreenIsOnTerminal
<1> QED
  BY <1>1, PlaceBegins, PlaceSteps, PTL DEF PlaceSpec

\* The types, from the same invariant.
THEOREM PlaceTypeCorrect == PlaceSpec => []PlaceTypeOK
<1>1. PlaceInv => PlaceTypeOK
  BY NextInRange DEF PlaceInv, RegistryInv, RenderedInv, RestTyped, PlaceTypeOK
<1> QED
  BY <1>1, PlaceBegins, PlaceSteps, PTL DEF PlaceSpec

-----------------------------------------------------------------------------
(* InlineImages                                                            *)

Downloads == {r \in Fetches : r[2] \notin Posters}

\* A download that runs writes a temporary file of its own, which no other fetch
\* renames, removes or truncates; when it is not running there is none.
OwnTempFile ==
    \A r \in Downloads :
        /\ run[r] = "idle" => temp[r] = "none"
        /\ run[r] # "idle" => hardLink[r] = "temp"
        /\ run[r] = "written" => temp[r] = "whole"

FilesTyped ==
    /\ disk \in [Files -> {"none", "torn", "whole"}]
    /\ temp \in [Temps -> {"none", "torn", "whole"}]
    /\ run \in [Fetches -> {"idle", "open", "written"}]
    /\ hardLink \in [Fetches -> {"temp", "disk", "gone"}]
    /\ told \subseteq ViewFiles

FilesInv == FilesTyped /\ OwnTempFile /\ DownloadsAreWhole

\* The temporary name of a download is not that of another fetch.
LEMMA TempNames ==
    /\ \A r \in Fetches : TempOf(r) \in Temps
    /\ \A r \in Downloads :
           r \in Fetches /\ r \in Temps /\ TempOf(r) = r /\ r[2] \in Files \ Posters
    /\ \A r \in Downloads, q \in Fetches : TempOf(q) = r => q = r
<1>1. \A r \in Fetches : r = <<r[1], r[2]>> /\ r[1] \in Jobs /\ r[2] \in Files
  BY DEF Fetches
<1>2. \A f, j, g : <<f>> # <<j, g>>
  OBVIOUS
<1>3. \A r \in Downloads, q \in Fetches : <<q[2]>> # r
  BY <1>1, <1>2 DEF Downloads
<1>4. \A r \in Fetches : TempOf(r) \in Temps
  BY <1>1 DEF TempOf, Temps
<1>5. \A r \in Downloads : r \in Fetches /\ r \in Temps /\ TempOf(r) = r /\ r[2] \in Files \ Posters
  BY <1>1 DEF TempOf, Temps, Downloads
<1>6. \A r \in Downloads, q \in Fetches : TempOf(q) = r => q = r
  BY <1>3 DEF TempOf
<1> QED
  BY <1>4, <1>5, <1>6

LEMMA FilesBegin == InlineInit => FilesInv
BY InlineAssumption, TempNames
   DEF InlineInit, FilesInv, FilesTyped, OwnTempFile, DownloadsAreWhole

LEMMA FetchFileKeeps ==
    ASSUME FilesInv, NEW j \in Jobs, NEW f \in Files, FetchFile(j, f) PROVE FilesInv'
<1> DEFINE q == <<j, f>>
<1>0. q \in Fetches /\ q[2] = f
  BY DEF Fetches
<1>1. CASE disk[f] # "none"
  BY <1>1 DEF FetchFile, runVars, clientSide, FilesInv, FilesTyped, OwnTempFile, DownloadsAreWhole
<1>2. CASE disk[f] = "none"
  <2>1. /\ run' = [run EXCEPT ![q] = "open"]
        /\ temp' = [temp EXCEPT ![TempOf(q)] = "torn"]
        /\ hardLink' = [hardLink EXCEPT ![q] = "temp"]
        /\ disk' = disk /\ told' = told
    BY <1>2 DEF FetchFile, clientSide
  <2> HIDE DEF q
  <2>2. FilesTyped'
    BY <1>0, <2>1, TempNames DEF FilesInv, FilesTyped
  <2>3. OwnTempFile'
    BY <1>0, <2>1, TempNames DEF FilesInv, FilesTyped, OwnTempFile
  <2>4. DownloadsAreWhole'
    BY <2>1 DEF FilesInv, DownloadsAreWhole
  <2> QED
    BY <2>2, <2>3, <2>4 DEF FilesInv
<1> QED
  BY <1>1, <1>2

LEMMA WriteAllKeeps ==
    ASSUME FilesInv, NEW r \in Fetches, WriteAll(r) PROVE FilesInv'
<1>0. TempOf(r) \in Temps /\ r[2] \in Files /\ (r \in Downloads <=> r[2] \notin Posters)
  BY TempNames DEF Fetches, Downloads
<1>1. /\ run[r] = "open" /\ run' = [run EXCEPT ![r] = "written"]
      /\ temp' = IF hardLink[r] = "temp" THEN [temp EXCEPT ![TempOf(r)] = "whole"] ELSE temp
      /\ disk' = IF hardLink[r] = "disk" THEN [disk EXCEPT ![r[2]] = "whole"] ELSE disk
      /\ hardLink' = hardLink /\ told' = told
  BY DEF WriteAll, clientSide
<1>2. FilesTyped'
  BY <1>0, <1>1 DEF FilesInv, FilesTyped
<1>3. OwnTempFile'
  BY <1>0, <1>1, TempNames DEF FilesInv, FilesTyped, OwnTempFile
<1>4. DownloadsAreWhole'
  BY <1>0, <1>1, InlineAssumption DEF FilesInv, FilesTyped, DownloadsAreWhole
<1> QED
  BY <1>2, <1>3, <1>4 DEF FilesInv

\* Only the fetches that write the same temporary name lose or move their link.
LEMMA RelinkedElsewhere ==
    ASSUME FilesInv, NEW r \in Fetches, NEW from, NEW to, NEW q \in Downloads, q # r,
           run[q] # "idle", from \in {"temp", "disk"}
    PROVE  Relinked(r, from, to)[q] = hardLink[q]
BY TempNames DEF Relinked, FilesInv, OwnTempFile

LEMMA RenameKeepsFiles ==
    ASSUME FilesInv, NEW r \in Fetches, RenameDownload(r) PROVE FilesInv'
<1>0. TempOf(r) \in Temps /\ r[2] \in Files /\ (r \in Downloads <=> r[2] \notin Posters)
  BY TempNames DEF Fetches, Downloads
<1>1. run[r] = "written" /\ run' = [run EXCEPT ![r] = "idle"] /\ told' = told
  BY DEF RenameDownload, clientSide
<1>2. CASE temp[TempOf(r)] = "none"
  <2>1. UNCHANGED <<disk, temp, hardLink>>
    BY <1>2 DEF RenameDownload
  <2>2. r \notin Downloads
    BY <1>1, <1>2, TempNames DEF FilesInv, OwnTempFile
  <2> QED
    BY <1>1, <2>1, <2>2, TempNames DEF FilesInv, FilesTyped, OwnTempFile, DownloadsAreWhole
<1>3. CASE temp[TempOf(r)] # "none"
  <2>1. /\ disk' = [disk EXCEPT ![r[2]] = temp[TempOf(r)]]
        /\ temp' = [temp EXCEPT ![TempOf(r)] = "none"]
        /\ hardLink' = [q \in Fetches |->
                          IF Relinked(r, "temp", "disk")[q] # hardLink[q] THEN "disk"
                          ELSE Relinked(r, "disk", "gone")[q]]
    BY <1>3 DEF RenameDownload
  <2>2. FilesTyped'
    BY <1>0, <1>1, <2>1, TempNames DEF FilesInv, FilesTyped, Relinked
  <2>3. \A q \in Downloads : (q # r /\ run[q] # "idle") => hardLink'[q] = hardLink[q]
    BY <2>1, RelinkedElsewhere, TempNames
  <2>4. OwnTempFile'
    <3> SUFFICES ASSUME NEW q \in Downloads
                 PROVE  /\ run'[q] = "idle" => temp'[q] = "none"
                        /\ run'[q] # "idle" => hardLink'[q] = "temp"
                        /\ run'[q] = "written" => temp'[q] = "whole"
      BY DEF OwnTempFile
    <3>1. /\ run[q] = "idle" => temp[q] = "none"
          /\ run[q] # "idle" => hardLink[q] = "temp"
          /\ run[q] = "written" => temp[q] = "whole"
          /\ q \in Fetches /\ q \in Temps /\ (TempOf(r) = q => r = q)
      BY TempNames DEF FilesInv, OwnTempFile
    <3>2. run'[q] = (IF q = r THEN "idle" ELSE run[q])
      BY <1>1, <3>1 DEF FilesInv, FilesTyped
    <3>3. temp'[q] = (IF q = TempOf(r) THEN "none" ELSE temp[q])
      BY <2>1, <3>1 DEF FilesInv, FilesTyped
    <3>4. CASE q = r
      <4>1. TempOf(r) = q
        BY <3>4, TempNames
      <4> QED
        BY <3>2, <3>3, <3>4, <4>1
    <3>5. CASE q # r
      BY <2>3, <3>1, <3>2, <3>3, <3>5
    <3> QED
      BY <3>4, <3>5
  <2>5. DownloadsAreWhole'
    <3>1. r \in Downloads => temp[TempOf(r)] = "whole"
      BY <1>1, TempNames DEF FilesInv, OwnTempFile
    <3> QED
      BY <1>0, <1>1, <2>1, <3>1, InlineAssumption DEF FilesInv, FilesTyped, DownloadsAreWhole
  <2> QED
    BY <2>2, <2>4, <2>5 DEF FilesInv
<1> QED
  BY <1>2, <1>3

LEMMA FetchFailedKeeps ==
    ASSUME FilesInv, NEW r \in Fetches, FetchFailed(r) PROVE FilesInv'
<1>0. TempOf(r) \in Temps /\ r[2] \in Files /\ (r \in Downloads <=> r[2] \notin Posters)
  BY TempNames DEF Fetches, Downloads
<1>1. /\ run[r] = "open" /\ run' = [run EXCEPT ![r] = "idle"]
      /\ temp' = [temp EXCEPT ![TempOf(r)] = "none"]
      /\ hardLink' = Relinked(r, "temp", "gone")
      /\ disk' = disk /\ told' = told
  BY DEF FetchFailed, clientSide
<1>2. FilesTyped'
  BY <1>0, <1>1 DEF FilesInv, FilesTyped, Relinked
<1>3. \A q \in Downloads : (q # r /\ run[q] # "idle") => hardLink'[q] = hardLink[q]
  BY <1>1, RelinkedElsewhere, TempNames
<1>4. OwnTempFile'
  BY <1>0, <1>1, <1>3, TempNames DEF FilesInv, FilesTyped, OwnTempFile
<1>5. DownloadsAreWhole'
  BY <1>1 DEF FilesInv, DownloadsAreWhole
<1> QED
  BY <1>2, <1>4, <1>5 DEF FilesInv

LEMMA ViewReadyKeeps ==
    ASSUME FilesInv, NEW j \in Jobs, ViewReady(j) PROVE FilesInv'
BY InlineAssumption
   DEF ViewReady, runVars, FilesInv, FilesTyped, OwnTempFile, DownloadsAreWhole

\* The steps that touch no file.
LEMMA NoFileTouched ==
    ASSUME FilesInv, UNCHANGED <<runVars, told>> PROVE FilesInv'
BY DEF runVars, FilesInv, FilesTyped, OwnTempFile, DownloadsAreWhole

LEMMA FilesStep == FilesInv /\ [InlineNext]_inlineVars => FilesInv'
<1> SUFFICES ASSUME FilesInv, [InlineNext]_inlineVars PROVE FilesInv'
  OBVIOUS
<1>1. CASE \E j \in Jobs, m \in Msgs : RenderImages(j, m)
  BY <1>1, NoFileTouched DEF RenderImages
<1>2. CASE \E j \in Jobs : View(j)
  BY <1>2, NoFileTouched DEF View, clientSide
<1>3. CASE \E m \in Msgs : Deliver(m)
  BY <1>3, NoFileTouched DEF Deliver
<1>4. CASE \E j \in Jobs : NextPass(j)
  BY <1>4, NoFileTouched DEF NextPass, clientSide
<1>5. CASE \E j \in Jobs : RebroadcastImages(j)
  BY <1>5, NoFileTouched DEF RebroadcastImages
<1>6. CASE \E j \in Jobs : ViewReady(j)
  BY <1>6, ViewReadyKeeps
<1>7. CASE \E j \in Jobs, f \in Files : FetchFile(j, f)
  BY <1>7, FetchFileKeeps
<1>8. CASE \E r \in Fetches : WriteAll(r) \/ RenameDownload(r) \/ FetchFailed(r)
  BY <1>8, WriteAllKeeps, RenameKeepsFiles, FetchFailedKeeps
<1>9. CASE UNCHANGED inlineVars
  BY <1>9, NoFileTouched DEF inlineVars, runVars
<1> QED
  BY <1>1, <1>2, <1>3, <1>4, <1>5, <1>6, <1>7, <1>8, <1>9 DEF InlineNext, Progress

\* A file that was downloaded, and a copy the client was told to open, is whole, for
\* any files, messages, goroutines and failed fetches (main.go:764-829).
THEOREM DownloadsStayWhole == InlineSpec => []DownloadsAreWhole
<1>1. FilesInv => DownloadsAreWhole
  BY DEF FilesInv
<1> QED
  BY <1>1, FilesBegin, FilesStep, PTL DEF InlineSpec

Tasks == [for : Msgs \cup {"view"}, todo : SUBSET Files, all : SUBSET Files,
          failed : SUBSET Files, pass : Nat]

\* A goroutine runs fetches of the files it was started for, while it is there.
TasksInv ==
    /\ imageJob \in [Jobs -> Tasks \cup {NoJob}]
    /\ \A j \in Jobs : imageJob[j] # NoJob =>
           imageJob[j].todo \cup imageJob[j].failed \subseteq imageJob[j].all
    /\ \A r \in Fetches : run[r] # "idle" =>
           imageJob[r[1]] # NoJob /\ r[2] \in imageJob[r[1]].all

Cards(m) == {NoLine} \cup [FilesOf[m] -> {"pending", "shown", "absent"}]
CardsTyped == /\ DOMAIN line = Msgs /\ DOMAIN card = Msgs
              /\ \A m \in Msgs : line[m] \in Cards(m) /\ card[m] \in Cards(m)

LEMMA InlineTyped == FilesInv /\ TasksInv /\ CardsTyped => InlineTypeOK
<1> SUFFICES ASSUME FilesInv, TasksInv, CardsTyped PROVE InlineTypeOK
  OBVIOUS
<1>1. \A m \in Msgs : {line[m], card[m]} \subseteq
          {NoLine} \cup [FilesOf[m] -> {"pending", "shown", "absent"}]
  BY DEF CardsTyped, Cards
<1> QED
  BY <1>1 DEF FilesInv, FilesTyped, TasksInv, InlineTypeOK

\* What EXCEPT makes of a goroutine's record.
LEMMA NoTask == NoJob \notin Tasks
BY InlineAssumption DEF NoJob, Tasks

LEMMA TaskParts ==
    ASSUME NEW k \in Tasks, NEW S \in SUBSET Files, NEW T \in SUBSET Files
    PROVE  [k EXCEPT !.todo = S, !.failed = T, !.pass = @ + 1] \in Tasks
<1>1. k.pass + 1 \in Nat
  BY DEF Tasks
<1> QED
  BY <1>1 DEF Tasks

\* One goroutine's record changes to another one that kept its files.
LEMMA TaskStep ==
    ASSUME TasksInv, NEW j \in Jobs, NEW k \in Tasks, imageJob[j] # NoJob,
           imageJob' = [imageJob EXCEPT ![j] = k],
           k.all = imageJob[j].all, k.todo \cup k.failed \subseteq k.all,
           \A r \in Fetches : run'[r] # "idle" =>
               run[r] # "idle" \/ (r[1] = j /\ r[2] \in imageJob[j].all)
    PROVE  TasksInv'
<1>1. k # NoJob
  BY NoTask
<1>2. \A r \in Fetches : r[1] \in Jobs
  BY DEF Fetches
<1>3. imageJob' \in [Jobs -> Tasks \cup {NoJob}]
  BY DEF TasksInv
<1>4. imageJob'[j] = k /\ \A i \in Jobs : i # j => imageJob'[i] = imageJob[i]
  BY DEF TasksInv
<1> QED
  BY <1>1, <1>2, <1>3, <1>4 DEF TasksInv

\* A goroutine ends, or starts with nothing running.
LEMMA TaskBounds ==
    ASSUME TasksInv, NEW j \in Jobs, NEW k \in Tasks \cup {NoJob}, UNCHANGED run,
           imageJob' = [imageJob EXCEPT ![j] = k], ~Working(j) \/ imageJob[j] = NoJob,
           k # NoJob => k.todo \cup k.failed \subseteq k.all
    PROVE  TasksInv'
<1>1. \A r \in Fetches : r[1] \in Jobs /\ r[2] \in Files /\ r = <<r[1], r[2]>>
  BY DEF Fetches
<1>2. \A r \in Fetches : r[1] = j => run[r] = "idle"
  BY <1>1 DEF TasksInv, Working
<1>3. imageJob' \in [Jobs -> Tasks \cup {NoJob}]
  BY DEF TasksInv
<1>4. imageJob'[j] = k /\ \A i \in Jobs : i # j => imageJob'[i] = imageJob[i]
  BY DEF TasksInv
<1> QED
  BY <1>1, <1>2, <1>3, <1>4 DEF TasksInv

LEMMA TaskMade ==
    ASSUME NEW o \in Msgs \cup {"view"}, NEW S \in SUBSET Files
    PROVE  /\ Task(o, S) \in Tasks
           /\ Task(o, S).todo \cup Task(o, S).failed \subseteq Task(o, S).all
BY DEF Task, Tasks

LEMMA InlineBegin == InlineInit => TasksInv /\ CardsTyped
BY DEF InlineInit, TasksInv, CardsTyped, Cards

LEMMA CardsStep == CardsTyped /\ [InlineNext]_inlineVars => CardsTyped'
<1> SUFFICES ASSUME CardsTyped, [InlineNext]_inlineVars PROVE CardsTyped'
  OBVIOUS
<1>1. \A m \in Msgs, again \in BOOLEAN : ImagesJSON(m, again) \in Cards(m)
  BY DEF ImagesJSON, Status, Cards
<1>2. ASSUME NEW j \in Jobs, NEW m \in Msgs, RenderImages(j, m) PROVE CardsTyped'
  BY <1>1, <1>2 DEF RenderImages, CardsTyped, Cards
<1>3. ASSUME NEW m \in Msgs, Deliver(m) PROVE CardsTyped'
  BY <1>3 DEF Deliver, CardsTyped, Cards
<1>4. ASSUME NEW j \in Jobs, RebroadcastImages(j) PROVE CardsTyped'
  <2>1. imageJob[j].for \in Msgs
    BY <1>4 DEF RebroadcastImages, Refresh
  <2> QED
    BY <1>1, <1>4, <2>1 DEF RebroadcastImages, CardsTyped, Cards
<1>5. CASE UNCHANGED <<line, card>>
  BY <1>5 DEF CardsTyped, Cards
<1> QED
  BY <1>2, <1>3, <1>4, <1>5
     DEF InlineNext, Progress, inlineVars, clientSide, View, NextPass, ViewReady, FetchFile,
         WriteAll, RenameDownload, FetchFailed

LEMMA TasksStep == FilesInv /\ TasksInv /\ [InlineNext]_inlineVars => TasksInv'
<1> SUFFICES ASSUME FilesInv, TasksInv, [InlineNext]_inlineVars PROVE TasksInv'
  OBVIOUS
<1>0. /\ \A j \in Jobs : imageJob[j] # NoJob => imageJob[j] \in Tasks
      /\ \A r \in Fetches : r[1] \in Jobs /\ r[2] \in Files
  BY DEF TasksInv, Fetches
<1>1. ASSUME NEW j \in Jobs, NEW m \in Msgs, RenderImages(j, m) PROVE TasksInv'
  <2>1. Missing(m) \in SUBSET Files
    BY InlineAssumption DEF Missing
  <2>2. run' = run
    BY <1>1 DEF RenderImages, runVars
  <2>3. CASE imageJob' = imageJob
    BY <2>2, <2>3 DEF TasksInv
  <2>4. CASE imageJob' = [imageJob EXCEPT ![j] = Task(m, Missing(m))]
    BY <1>1, <2>1, <2>2, <2>4, TaskMade, TaskBounds DEF RenderImages
  <2> QED
    BY <1>1, <2>3, <2>4 DEF RenderImages
<1>2. ASSUME NEW j \in Jobs, View(j) PROVE TasksInv'
  BY <1>2, InlineAssumption, TaskMade, TaskBounds DEF View, runVars
<1>3. ASSUME NEW j \in Jobs, NextPass(j) PROVE TasksInv'
  <2> DEFINE k == [imageJob[j] EXCEPT !.todo = imageJob[j].failed, !.failed = {}, !.pass = @ + 1]
  <2>1. imageJob[j] # NoJob /\ imageJob[j] \in Tasks
    BY <1>0, <1>3 DEF NextPass, Refresh
  <2>2. imageJob' = [imageJob EXCEPT ![j] = k] /\ run' = run
    BY <1>3 DEF NextPass, runVars, TasksInv
  <2>3. k \in Tasks
    BY <2>1, TaskParts DEF Tasks
  <2>4. k.all = imageJob[j].all /\ k.todo \cup k.failed \subseteq k.all
    BY <2>1 DEF Tasks, TasksInv
  <2> HIDE DEF k
  <2> QED
    BY <2>1, <2>2, <2>3, <2>4, TaskStep
<1>4. ASSUME NEW j \in Jobs, RebroadcastImages(j) PROVE TasksInv'
  BY <1>4, TaskBounds DEF RebroadcastImages, runVars
<1>5. ASSUME NEW j \in Jobs, ViewReady(j) PROVE TasksInv'
  BY <1>5, TaskBounds DEF ViewReady, runVars
<1>6. ASSUME NEW j \in Jobs, NEW f \in Files, FetchFile(j, f) PROVE TasksInv'
  <2> DEFINE k == [imageJob[j] EXCEPT !.todo = @ \ {f}]
  <2>1. imageJob[j] # NoJob /\ imageJob[j] \in Tasks /\ f \in imageJob[j].todo
    BY <1>0, <1>6 DEF FetchFile, MayRun
  <2>2. imageJob' = [imageJob EXCEPT ![j] = k]
    BY <1>6 DEF FetchFile, TasksInv
  <2>3. k \in Tasks
    BY <2>1 DEF Tasks
  <2>4. k.all = imageJob[j].all /\ k.todo \cup k.failed \subseteq k.all /\ f \in imageJob[j].all
    BY <2>1 DEF Tasks, TasksInv
  <2>5. \A r \in Fetches : run'[r] # "idle" => run[r] # "idle" \/ (r[1] = j /\ r[2] = f)
    BY <1>6 DEF FetchFile, runVars, FilesInv, FilesTyped
  <2> HIDE DEF k
  <2> QED
    BY <2>1, <2>2, <2>3, <2>4, <2>5, TaskStep
<1>7. ASSUME NEW r \in Fetches, WriteAll(r) PROVE TasksInv'
  <2>1. run[r] # "idle" /\ imageJob' = imageJob /\ run' = [run EXCEPT ![r] = "written"]
    BY <1>7 DEF WriteAll
  <2>2. \A q \in Fetches : run'[q] # "idle" => run[q] # "idle"
    BY <2>1 DEF FilesInv, FilesTyped
  <2> QED
    BY <2>1, <2>2 DEF TasksInv
<1>8. ASSUME NEW r \in Fetches, RenameDownload(r) \/ FetchFailed(r) PROVE TasksInv'
  <2> DEFINE k == [imageJob[r[1]] EXCEPT !.failed = @ \cup {r[2]}]
  <2>1. run[r] # "idle" /\ run' = [run EXCEPT ![r] = "idle"]
    BY <1>8 DEF RenameDownload, FetchFailed
  <2>2. \A q \in Fetches : run'[q] # "idle" => run[q] # "idle"
    BY <2>1 DEF FilesInv, FilesTyped
  <2>3. imageJob[r[1]] # NoJob /\ r[2] \in imageJob[r[1]].all /\ imageJob[r[1]] \in Tasks
    BY <1>0, <2>1 DEF TasksInv
  <2>4. imageJob' = imageJob \/ imageJob' = [imageJob EXCEPT ![r[1]] = k]
    BY <1>0, <1>8 DEF RenameDownload, FetchFailed, TasksInv
  <2>5. k \in Tasks
    BY <1>0, <2>3 DEF Tasks
  <2>6. k.all = imageJob[r[1]].all /\ k.todo \cup k.failed \subseteq k.all
    BY <1>0, <2>3 DEF Tasks, TasksInv
  <2>7. CASE imageJob' = imageJob
    BY <2>2, <2>7 DEF TasksInv
  <2>8. CASE imageJob' = [imageJob EXCEPT ![r[1]] = k]
    <3> HIDE DEF k
    <3> QED
      BY <1>0, <2>2, <2>3, <2>5, <2>6, <2>8, TaskStep
  <2> QED
    BY <2>4, <2>7, <2>8
<1>9. CASE UNCHANGED <<imageJob, run>>
  BY <1>9 DEF TasksInv
<1> QED
  BY <1>1, <1>2, <1>3, <1>4, <1>5, <1>6, <1>7, <1>8, <1>9
     DEF InlineNext, Progress, inlineVars, runVars, Deliver

\* The types, from the three invariants.
THEOREM InlineTypeCorrect == InlineSpec => []InlineTypeOK
BY FilesBegin, FilesStep, InlineBegin, TasksStep, CardsStep, InlineTyped, PTL DEF InlineSpec

-----------------------------------------------------------------------------
(* Together                                                                *)

\* A message's picture shows up whole and the list of custom emoji names files that are
\* there, as DownloadsShowUp says and with its exceptions (main.go:764-829, 2441-2512):
\* the two parts share no file.
THEOREM DownloadsShowUpHolds == InlineSpec /\ MediaSpec => []DownloadsShowUp
BY DownloadsStayWhole, EmojiListStaysGood, PTL DEF DownloadsShowUp

-----------------------------------------------------------------------------
(* Texts are put together by FlattenSeq, which the library defines by a     *)
(* recursive function.  What is said of its value for every sequence is     *)
(* shown from the first part on.                                            *)

\* What holds for one, and for the next number with a number, holds for all.
LEMMA UpTo ==
    ASSUME NEW n \in Nat, NEW S, 1 \in S, \A k \in 1 .. n - 1 : k \in S => k + 1 \in S
    PROVE  \A k \in 1 .. n : k \in S
<1> DEFINE Bad == {k \in 1 .. n : k \notin S}
           R == {ss \in Nat \X Nat : ss[1] < ss[2]}
<1>1. SUFFICES ASSUME Bad # {} PROVE FALSE
    OBVIOUS
<1>2. IsWellFoundedOn(R, Nat)
  <2>1. R = OpToRel(<, Nat)
      BY DEF OpToRel
  <2> QED
      BY <2>1, NatLessThanWellFounded
<1>3. PICK x \in Bad : \A y \in Bad : ~ (<<y, x>> \in R)
  <2>1. Bad \subseteq Nat
      OBVIOUS
  <2> HIDE DEF Bad, R
  <2> QED
      BY <1>1, <1>2, <2>1, WFMin
<1>4. x \in 1 .. n /\ x # 1 /\ x \notin S
    OBVIOUS
<1>7. \A y \in Bad : ~ (y < x)
  <2> TAKE y \in Bad
  <2>1. y \in Nat /\ x \in Nat
      OBVIOUS
  <2> QED
      BY <1>3, <2>1
<1>5. x - 1 \in 1 .. n - 1 /\ x - 1 \in Nat /\ x \in Nat /\ x - 1 < x /\ (x - 1) + 1 = x
    BY <1>4
<1>6. x - 1 \in S
    BY <1>7, <1>5
<1> QED
    BY <1>4, <1>5, <1>6

\* The function FlattenSeq is defined with: there is one.
Flat(s, n) == CHOOSE g : g = [i \in 1 .. n |-> IF i = 1 THEN s[i] ELSE g[i - 1] \o s[i]]

LEMMA FlattenFunction ==
    ASSUME NEW s, NEW n \in Nat \ {0}
    PROVE  Flat(s, n) = [i \in 1 .. n |-> IF i = 1 THEN s[i] ELSE Flat(s, n)[i - 1] \o s[i]]
<1> DEFINE Is(g, k) == g = [i \in 1 .. k |-> IF i = 1 THEN s[i] ELSE g[i - 1] \o s[i]]
           Good == {k \in 1 .. n : \E g : Is(g, k)}
<1>1. 1 \in Good
  <2> DEFINE g == [i \in 1 .. 1 |-> s[1]]
  <2>1. Is(g, 1) /\ 1 \in 1 .. n
      OBVIOUS
  <2> HIDE DEF g, Is
  <2>2. \E h : Is(h, 1)
      BY <2>1
  <2> QED
      BY <2>1, <2>2
<1>2. ASSUME NEW k \in 1 .. n - 1, k \in Good PROVE k + 1 \in Good
  <2>1. PICK g : Is(g, k)
      BY <1>2
  <2> DEFINE h == [i \in 1 .. k + 1 |-> IF i = k + 1 THEN g[k] \o s[k + 1] ELSE g[i]]
  <2>2. \A i \in 1 .. k : g[i] = IF i = 1 THEN s[i] ELSE g[i - 1] \o s[i]
      BY <2>1
  <2>3. \A i \in 1 .. k + 1 : h[i] = IF i = 1 THEN s[i] ELSE h[i - 1] \o s[i]
    <3> TAKE i \in 1 .. k + 1
    <3>1. CASE i = k + 1
      <4>1. k \in 1 .. k + 1 /\ k # k + 1 /\ i # 1 /\ i - 1 = k
          BY <3>1
      <4>2. h[i] = g[k] \o s[k + 1] /\ h[k] = g[k]
          BY <3>1, <4>1
      <4> QED
          BY <3>1, <4>1, <4>2
    <3>2. CASE i # k + 1
      <4>1. i \in 1 .. k /\ (i # 1 => i - 1 \in 1 .. k /\ i - 1 # k + 1)
          BY <3>2
      <4>2. h[i] = g[i] /\ (i # 1 => h[i - 1] = g[i - 1])
          BY <4>1, <3>2
      <4> QED
          BY <2>2, <4>1, <4>2
    <3> QED
        BY <3>1, <3>2
  <2>4. h = [i \in 1 .. k + 1 |-> h[i]]
      OBVIOUS
  <2>5. Is(h, k + 1)
    <3> HIDE DEF h
    <3> QED
      BY <2>3, <2>4
  <2> HIDE DEF h, Is
  <2>6. \E hh : Is(hh, k + 1)
      BY <2>5
  <2> QED
      BY <2>6
<1>3. n \in Good
  <2> HIDE DEF Good
  <2> QED
      BY <1>1, <1>2, UpTo
<1>4. PICK g : Is(g, n)
    BY <1>3
<1> QED
    BY <1>4 DEF Flat

\* What is put together has the words of its parts, and is empty if they are.
LEMMA Flattened ==
    ASSUME NEW T, NEW s \in Seq(Seq(T))
    PROVE  /\ FlattenSeq(s) \in Seq(T)
           /\ FlattenSeq(s) = <<>> <=> \A i \in DOMAIN s : s[i] = <<>>
           /\ \A i \in DOMAIN s : \A j \in DOMAIN s[i] :
                 \E l \in DOMAIN FlattenSeq(s) : FlattenSeq(s)[l] = s[i][j]
<1>1. CASE s = <<>>
    BY <1>1 DEF FlattenSeq
<1>2. CASE s # <<>>
  <2> DEFINE n == Len(s)
             f == Flat(s, n)
             Right(k) == /\ f[k] \in Seq(T)
                         /\ f[k] = <<>> <=> \A i \in 1 .. k : s[i] = <<>>
                         /\ \A i \in 1 .. k : \A j \in DOMAIN s[i] : \E l \in DOMAIN f[k] : f[k][l] = s[i][j]
             S == {k \in 1 .. n : Right(k)}
  <2>1. n \in Nat \ {0} /\ DOMAIN s = 1 .. n /\ \A i \in 1 .. n : s[i] \in Seq(T)
      BY <1>2
  <2>2. FlattenSeq(s) = f[n]
      BY <2>1 DEF FlattenSeq, Flat
  <2>3. f = [i \in 1 .. n |-> IF i = 1 THEN s[i] ELSE f[i - 1] \o s[i]]
      BY <2>1, FlattenFunction
  <2> HIDE DEF n, f
  <2>4. f[1] = s[1] /\ \A k \in 1 .. n - 1 : f[k + 1] = f[k] \o s[k + 1]
    <3>1. ASSUME NEW k \in 1 .. n - 1 PROVE f[k + 1] = f[k] \o s[k + 1]
      <4>1. k + 1 \in 1 .. n /\ k + 1 # 1 /\ (k + 1) - 1 = k
          BY <2>1
      <4> QED
          BY <2>3, <4>1
    <3>2. f[1] = s[1]
        BY <2>1, <2>3
    <3> QED
        BY <3>1, <3>2
  <2>5. Right(1)
      BY <2>1, <2>4
  <2>6. ASSUME NEW k \in 1 .. n - 1, Right(k) PROVE Right(k + 1)
    <3> DEFINE a == f[k]
               b == s[k + 1]
               c == f[k + 1]
    <3>0. k + 1 \in 1 .. n
        BY <2>1
    <3>1. a \in Seq(T) /\ b \in Seq(T) /\ c = a \o b
        BY <2>1, <2>4, <2>6, <3>0
    <3>2. /\ c \in Seq(T) /\ Len(c) = Len(a) + Len(b) /\ DOMAIN c = 1 .. Len(c)
          /\ \A l \in 1 .. Len(a) : c[l] = a[l]
          /\ \A l \in 1 .. Len(b) : c[Len(a) + l] = b[l]
          /\ Len(a) \in Nat /\ Len(b) \in Nat
          /\ DOMAIN a = 1 .. Len(a) /\ DOMAIN b = 1 .. Len(b)
      <4> HIDE DEF a, b, c
      <4> QED
        BY <3>1
    <3>3. c = <<>> <=> a = <<>> /\ b = <<>>
      <4> HIDE DEF a, b, c
      <4> QED
        BY <3>1, <3>2
    <3>4. \A i \in 1 .. k + 1 : i \in 1 .. k \/ i = k + 1
        OBVIOUS
    <3>5. c = <<>> <=> \A i \in 1 .. k + 1 : s[i] = <<>>
      <4> HIDE DEF c
      <4>1. (\A i \in 1 .. k + 1 : s[i] = <<>>) <=> (\A i \in 1 .. k : s[i] = <<>>) /\ s[k + 1] = <<>>
          BY <3>4
      <4> QED
          BY <3>3, <4>1, <2>6
    <3>6. ASSUME NEW i \in 1 .. k + 1, NEW j \in DOMAIN s[i]
          PROVE  \E l \in DOMAIN c : c[l] = s[i][j]
      <4>1. CASE i \in 1 .. k
        <5>1. PICK l \in DOMAIN a : a[l] = s[i][j]
            BY <2>6, <4>1
        <5> HIDE DEF a, b, c
        <5>2. l \in DOMAIN c /\ c[l] = a[l]
            BY <3>2
        <5> QED
            BY <5>1, <5>2
      <4>2. CASE i = k + 1
        <5>1. j \in DOMAIN b /\ b[j] = s[i][j]
            BY <4>2
        <5> HIDE DEF a, b, c
        <5>2. Len(a) + j \in DOMAIN c /\ c[Len(a) + j] = b[j]
            BY <3>2, <5>1
        <5> QED
            BY <5>1, <5>2
      <4> QED
          BY <3>4, <4>1, <4>2
    <3> QED
        BY <3>2, <3>5, <3>6
  <2>7. n \in S
    <3>1. 1 \in S
        BY <2>1, <2>5
    <3>2. \A k \in 1 .. n - 1 : k \in S => k + 1 \in S
      <4> HIDE DEF Right
      <4>1. ASSUME NEW k \in 1 .. n - 1 PROVE k + 1 \in 1 .. n
          BY <2>1
      <4> QED
          BY <2>6, <4>1
    <3>3. n \in Nat /\ n \in 1 .. n
        BY <2>1
    <3> HIDE DEF S
    <3> QED
        BY <3>1, <3>2, <3>3, UpTo
  <2>8. /\ f[n] \in Seq(T)
        /\ f[n] = <<>> <=> \A i \in DOMAIN s : s[i] = <<>>
        /\ \A i \in DOMAIN s : \A j \in DOMAIN s[i] : \E l \in DOMAIN f[n] : f[n][l] = s[i][j]
      BY <2>1, <2>7
  <2> HIDE DEF Right, S
  <2> QED
      BY <2>2, <2>8
<1> QED
    BY <1>1, <1>2

-----------------------------------------------------------------------------
(* Display                                                                 *)

RichLine == [k : STRING, of : Text]
KitBlock == [k : STRING, of : STRING]
Marks == {">", "item", "press A", "in the app"}
Token == [t : STRING \cup Marks, code : BOOLEAN]
Tokens == Seq(Token)
Attachment ==
    [share : BOOLEAN, title : STRING, text : STRING, url : STRING, image : BOOLEAN, kit : Kit]

\* The words of a text, whatever block they stand in.
Word(s, t) == \E i \in DOMAIN s : s[i].t = t

LEMMA TextFact == ASSUME NEW s \in Text PROVE s \in Tokens
<1> DEFINE T == [t : STRING, code : BOOLEAN]
<1>1. s \in Seq(T)
    BY DEF Text
<1>2. T \subseteq Token
    BY DEF Token
<1> HIDE DEF T
<1> QED
    BY <1>1, <1>2 DEF Tokens

LEMMA TokensFact == Tokens = Seq(Token) /\ <<>> \in Tokens
BY DEF Tokens

LEMMA TokFact == ASSUME NEW t \in STRING \cup Marks PROVE Tok(t) \in Token /\ Tok(t).t = t
BY DEF Tok, Token

LEMMA LitFact == ASSUME NEW s \in STRING PROVE Lit(s) \in Tokens /\ (Lit(s) = <<>> <=> s = "")
<1>1. <<Tok(s)>> \in Seq(Token) /\ <<Tok(s)>> # <<>>
    BY TokFact
<1> QED
    BY <1>1, TokensFact DEF Lit

LEMMA QuotedFact ==
    ASSUME NEW s \in Tokens, NEW t \in STRING \cup Marks
    PROVE  /\ <<Tok(t)>> \o s \in Tokens
           /\ \A j \in DOMAIN s : \E l \in DOMAIN (<<Tok(t)>> \o s) : (<<Tok(t)>> \o s)[l] = s[j]
<1> DEFINE w == <<Tok(t)>> \o s
<1>1. /\ w \in Tokens /\ Len(w) = Len(s) + 1 /\ Len(s) \in Nat
      /\ DOMAIN w = 1 .. Len(w) /\ DOMAIN s = 1 .. Len(s)
      /\ \A j \in 1 .. Len(s) : w[j + 1] = s[j]
    BY TokFact, TokensFact
<1> HIDE DEF w
<1>2. \A j \in DOMAIN s : j + 1 \in DOMAIN w /\ w[j + 1] = s[j]
    BY <1>1
<1> QED
    BY <1>1, <1>2 DEF w

LEMMA CodeFact ==
    ASSUME NEW s \in Tokens
    PROVE  /\ [i \in DOMAIN s |-> [s[i] EXCEPT !.code = TRUE]] \in Tokens
           /\ \A j \in DOMAIN s : [s[j] EXCEPT !.code = TRUE].t = s[j].t
<1>1. \A i \in DOMAIN s : s[i] \in Token
    BY TokensFact
<1>2. \A i \in DOMAIN s : [s[i] EXCEPT !.code = TRUE] \in Token /\ [s[i] EXCEPT !.code = TRUE].t = s[i].t
    BY <1>1 DEF Token
<1>3. DOMAIN s = 1 .. Len(s) /\ Len(s) \in Nat
    BY TokensFact
<1>4. [i \in DOMAIN s |-> [s[i] EXCEPT !.code = TRUE]] \in [1 .. Len(s) -> Token]
    BY <1>2, <1>3
<1>5. [i \in DOMAIN s |-> [s[i] EXCEPT !.code = TRUE]] \in Seq(Token)
    BY <1>3, <1>4
<1> QED
    BY <1>2, <1>5, TokensFact

LEMMA QuotedWords ==
    ASSUME NEW s \in Tokens, NEW t \in STRING \cup Marks
    PROVE  <<Tok(t)>> \o s \in Tokens /\ \A j \in DOMAIN s : Word(<<Tok(t)>> \o s, s[j].t)
BY QuotedFact, Zenon DEF Word

LEMMA CodeWords ==
    ASSUME NEW s \in Tokens
    PROVE  LET w == [i \in DOMAIN s |-> [s[i] EXCEPT !.code = TRUE]]
           IN  w \in Tokens /\ \A j \in DOMAIN s : Word(w, s[j].t)
<1> DEFINE w == [i \in DOMAIN s |-> [s[i] EXCEPT !.code = TRUE]]
<1>1. w \in Tokens /\ \A j \in DOMAIN s : j \in DOMAIN w /\ w[j].t = s[j].t
    BY CodeFact
<1> HIDE DEF w
<1>2. \A j \in DOMAIN s : Word(w, s[j].t)
    BY <1>1 DEF Word
<1> QED
    BY <1>1, <1>2 DEF w

LEMMA RichFact ==
    ASSUME NEW m \in MessageType
    PROVE  /\ RichTextToText(m) \in Tokens
           /\ m.rich = <<>> => RichTextToText(m) = <<>>
           /\ \A i \in DOMAIN m.rich : \A j \in DOMAIN m.rich[i].of :
                Word(RichTextToText(m), m.rich[i].of[j].t)
<1> DEFINE drawn(l) == CASE l.k = "quote" -> <<Tok(">")>> \o l.of
                       [] l.k = "pre"   -> [i \in DOMAIN l.of |-> [l.of[i] EXCEPT !.code = TRUE]]
                       [] l.k = "item"  -> <<Tok("item")>> \o l.of
                       [] OTHER         -> l.of
           s == [i \in DOMAIN m.rich |-> drawn(m.rich[i])]
<1>1. m.rich \in Seq(RichLine)
    BY DEF MessageType, RichLine
<1>2. DOMAIN m.rich = 1 .. Len(m.rich) /\ Len(m.rich) \in Nat
    BY <1>1
<1>3. ASSUME NEW i \in DOMAIN m.rich
      PROVE  /\ drawn(m.rich[i]) \in Tokens
             /\ \A j \in DOMAIN m.rich[i].of : Word(drawn(m.rich[i]), m.rich[i].of[j].t)
  <2> DEFINE l == m.rich[i]
             o == l.of
  <2>1. o \in Tokens /\ l.k \in STRING
    <3>1. l \in RichLine
        BY <1>1
    <3> QED
        BY <3>1, TextFact DEF RichLine
  <2> HIDE DEF o
  <2>2. CASE l.k = "quote"
    <3>0. ">" \in Marks
        BY DEF Marks
    <3>1. drawn(l) = <<Tok(">")>> \o o
        BY <2>2 DEF o
    <3> HIDE DEF drawn
    <3> QED
        BY <2>1, <3>0, <3>1, QuotedWords DEF o
  <2>3. CASE l.k = "pre"
    <3>1. drawn(l) = [n \in DOMAIN o |-> [o[n] EXCEPT !.code = TRUE]]
        BY <2>3 DEF o
    <3> HIDE DEF drawn
    <3> QED
        BY <2>1, <3>1, CodeWords DEF o
  <2>4. CASE l.k = "item"
    <3>0. "item" \in Marks
        BY DEF Marks
    <3>1. drawn(l) = <<Tok("item")>> \o o
        BY <2>4 DEF o
    <3> HIDE DEF drawn
    <3> QED
        BY <2>1, <3>0, <3>1, QuotedWords DEF o
  <2>5. CASE l.k \notin {"quote", "pre", "item"}
    <3>1. drawn(l) = o
        BY <2>5 DEF o
    <3> HIDE DEF drawn
    <3> QED
        BY <2>1, <3>1 DEF Word, o
  <2> QED
      BY <2>2, <2>3, <2>4, <2>5
<1>4. RichTextToText(m) = FlattenSeq(s)
    BY DEF RichTextToText, Each
<1> HIDE DEF drawn
<1>5. s \in Seq(Tokens) /\ DOMAIN s = DOMAIN m.rich /\ \A i \in DOMAIN s : s[i] = drawn(m.rich[i])
  <2>1. s \in [1 .. Len(m.rich) -> Tokens]
      BY <1>2, <1>3
  <2>2. s \in Seq(Tokens)
      BY <1>2, <2>1
  <2> QED
      BY <2>2
<1> HIDE DEF s
<1>6. /\ FlattenSeq(s) \in Tokens
      /\ FlattenSeq(s) = <<>> <=> \A i \in DOMAIN s : s[i] = <<>>
      /\ \A i \in DOMAIN s : \A j \in DOMAIN s[i] :
            \E l \in DOMAIN FlattenSeq(s) : FlattenSeq(s)[l] = s[i][j]
    BY <1>5, Flattened, TokensFact
<1>7. ASSUME NEW i \in DOMAIN m.rich, NEW j \in DOMAIN m.rich[i].of
      PROVE  Word(RichTextToText(m), m.rich[i].of[j].t)
  <2>1. PICK n \in DOMAIN s[i] : s[i][n].t = m.rich[i].of[j].t
      BY <1>3, <1>5 DEF Word
  <2> QED
      BY <1>4, <1>5, <1>6, <2>1 DEF Word
<1> QED
    BY <1>4, <1>5, <1>6, <1>7

LEMMA BlocksFact ==
    ASSUME NEW kit \in Kit
    PROVE  /\ BlocksToText(kit) \in Tokens
           /\ kit = <<>> => BlocksToText(kit) = <<>>
           /\ \A t : t # "" /\ InKit(kit, t) => Word(BlocksToText(kit), t)
<1> DEFINE part(b) == CASE b.k \in {"section", "header", "context"} -> Lit(b.of)
                       [] b.k = "ack"    -> <<Tok(b.of), Tok("press A")>>
                       [] b.k = "button" -> <<Tok(b.of), Tok("in the app")>>
                       [] OTHER -> <<>>
           s == [i \in DOMAIN kit |-> part(kit[i])]
<1>1. DOMAIN kit = 1 .. Len(kit) /\ Len(kit) \in Nat /\ \A i \in DOMAIN kit : kit[i] \in KitBlock
  <2>1. kit \in Seq(KitBlock)
      BY DEF Kit, KitBlock
  <2> QED
      BY <2>1
<1>2. ASSUME NEW i \in DOMAIN kit PROVE part(kit[i]) \in Tokens
  <2>1. kit[i].of \in STRING
      BY <1>1 DEF KitBlock
  <2>0. "press A" \in Marks /\ "in the app" \in Marks
      BY DEF Marks
  <2>2. Tok(kit[i].of) \in Token /\ Tok("press A") \in Token /\ Tok("in the app") \in Token
      BY <2>0, <2>1, TokFact
  <2>3. <<Tok(kit[i].of), Tok("press A")>> \in Tokens /\ <<Tok(kit[i].of), Tok("in the app")>> \in Tokens
        /\ <<>> \in Tokens
    <3>1. ASSUME NEW a \in Token, NEW b \in Token PROVE <<a, b>> \in Seq(Token)
        OBVIOUS
    <3> HIDE DEF part
    <3> QED
        BY <2>2, <3>1, TokensFact
  <2> QED
      BY <2>1, <2>3, LitFact
<1>3. BlocksToText(kit) = FlattenSeq(s)
    BY DEF BlocksToText, Each
<1>6. ASSUME NEW i \in DOMAIN kit, kit[i].k \in {"section", "context"}, kit[i].of # ""
      PROVE  part(kit[i]) = <<Tok(kit[i].of)>>
    BY <1>6 DEF Lit
<1> HIDE DEF part
<1>4. s \in Seq(Tokens) /\ DOMAIN s = DOMAIN kit /\ \A i \in DOMAIN s : s[i] = part(kit[i])
  <2>1. s \in [1 .. Len(kit) -> Tokens]
      BY <1>1, <1>2
  <2>2. s \in Seq(Tokens)
      BY <1>1, <2>1
  <2> QED
      BY <2>2
<1> HIDE DEF s
<1>5. /\ FlattenSeq(s) \in Tokens
      /\ FlattenSeq(s) = <<>> <=> \A i \in DOMAIN s : s[i] = <<>>
      /\ \A i \in DOMAIN s : \A j \in DOMAIN s[i] :
            \E l \in DOMAIN FlattenSeq(s) : FlattenSeq(s)[l] = s[i][j]
    BY <1>4, Flattened, TokensFact
<1>7. ASSUME NEW t, t # "", InKit(kit, t) PROVE Word(BlocksToText(kit), t)
  <2>1. PICK i \in DOMAIN kit : kit[i].k \in {"section", "context"} /\ kit[i].of = t
      BY <1>7 DEF InKit
  <2>2. s[i] = <<Tok(t)>>
      BY <1>4, <1>6, <1>7, <2>1
  <2>3. 1 \in DOMAIN s[i] /\ s[i][1].t = t
      BY <2>2 DEF Tok
  <2>4. PICK l \in DOMAIN FlattenSeq(s) : FlattenSeq(s)[l] = s[i][1]
      BY <1>4, <1>5, <2>3
  <2> QED
      BY <1>3, <2>3, <2>4 DEF Word
<1>8. BlocksToText(kit) \in Tokens /\ (kit = <<>> => BlocksToText(kit) = <<>>)
    BY <1>3, <1>4, <1>5
<1> QED
    BY <1>7, <1>8

LEMMA FieldsFact ==
    ASSUME NEW m \in MessageType
    PROVE  /\ m.text \in Text /\ m.kit \in Kit /\ m.atts \in Seq(Attachment) /\ m.files \in Nat
           /\ DOMAIN m.atts = 1 .. Len(m.atts) /\ Len(m.atts) \in Nat
           /\ \A i \in DOMAIN m.atts : m.atts[i].title \in STRING /\ m.atts[i].text \in STRING
                                       /\ m.atts[i].url \in STRING /\ m.atts[i].kit \in Kit
<1>1. m.text \in Text /\ m.kit \in Kit /\ m.atts \in Seq(Attachment) /\ m.files \in Nat
    BY DEF MessageType, Attachment
<1>2. \A i \in DOMAIN m.atts : m.atts[i] \in Attachment
    BY <1>1
<1>3. DOMAIN m.atts = 1 .. Len(m.atts) /\ Len(m.atts) \in Nat
    BY <1>1
<1> QED
    BY <1>1, <1>2, <1>3 DEF Attachment

\* Texts for every attachment of a message, one after the other.
LEMMA PerAttachment ==
    ASSUME NEW n \in Nat, NEW s, DOMAIN s = 1 .. n, s = [i \in 1 .. n |-> s[i]],
           \A i \in 1 .. n : s[i] \in Tokens
    PROVE  /\ FlattenSeq(s) \in Tokens
           /\ FlattenSeq(s) = <<>> <=> \A i \in 1 .. n : s[i] = <<>>
           /\ \A i \in 1 .. n : \A t : Word(s[i], t) => Word(FlattenSeq(s), t)
<1>1. s \in [1 .. n -> Tokens]
    OBVIOUS
<1>2. s \in Seq(Tokens)
    BY <1>1
<1>3. /\ FlattenSeq(s) \in Tokens
      /\ FlattenSeq(s) = <<>> <=> \A i \in DOMAIN s : s[i] = <<>>
      /\ \A i \in DOMAIN s : \A j \in DOMAIN s[i] :
            \E l \in DOMAIN FlattenSeq(s) : FlattenSeq(s)[l] = s[i][j]
    BY <1>2, Flattened, TokensFact
<1>4. ASSUME NEW i \in 1 .. n, NEW t, Word(s[i], t) PROVE Word(FlattenSeq(s), t)
  <2>1. PICK j \in DOMAIN s[i] : s[i][j].t = t
      BY <1>4 DEF Word
  <2>2. PICK l \in DOMAIN FlattenSeq(s) : FlattenSeq(s)[l] = s[i][j]
      BY <1>3
  <2> QED
      BY <2>1, <2>2 DEF Word
<1> QED
    BY <1>3, <1>4

LEMMA AttachmentsFact ==
    ASSUME NEW m \in MessageType
    PROVE  /\ ShareQuotes(m.atts) \in Tokens /\ AttachmentText(m.atts) \in Tokens
           /\ TextFromBlocks(m) \in Tokens
           /\ m.rich = <<>> /\ m.kit = <<>> /\ (\A i \in DOMAIN m.atts : m.atts[i].kit = <<>>)
                => TextFromBlocks(m) = <<>>
           /\ BlocksToText(m.kit) # <<>> => TextFromBlocks(m) # <<>>
           /\ \A t : /\ m.rich = <<>> /\ t # ""
                     /\ InKit(m.kit, t) \/ \E i \in DOMAIN m.atts : InKit(m.atts[i].kit, t)
                     => Word(TextFromBlocks(m), t)
<1> DEFINE n == Len(m.atts)
           quotes == [i \in DOMAIN m.atts |-> IF m.atts[i].share THEN <<Tok(">")>> \o Lit(m.atts[i].text) ELSE <<>>]
           texts == [i \in DOMAIN m.atts |->
                        IF m.atts[i].title = "" /\ m.atts[i].text = "" THEN Lit(m.atts[i].url)
                        ELSE Lit(m.atts[i].title) \o Lit(m.atts[i].text)]
           kits == [i \in DOMAIN m.atts |-> BlocksToText(m.atts[i].kit)]
<1>1. n \in Nat /\ DOMAIN m.atts = 1 .. n
    BY FieldsFact
<1>2. ASSUME NEW i \in DOMAIN m.atts
      PROVE  /\ Lit(m.atts[i].text) \in Tokens /\ Lit(m.atts[i].title) \in Tokens /\ Lit(m.atts[i].url) \in Tokens
             /\ BlocksToText(m.atts[i].kit) \in Tokens
    BY FieldsFact, LitFact, BlocksFact
<1>3. \A a, b \in Tokens : a \o b \in Tokens
    BY TokensFact
<1>4. ShareQuotes(m.atts) = FlattenSeq(quotes) /\ AttachmentText(m.atts) = FlattenSeq(texts)
    BY DEF ShareQuotes, AttachmentText, Each
<1>5. \A i \in 1 .. n : quotes[i] \in Tokens /\ texts[i] \in Tokens /\ kits[i] = BlocksToText(m.atts[i].kit)
  <2>1. ">" \in STRING \cup Marks
      BY DEF Marks
  <2>2. \A i \in DOMAIN m.atts : <<Tok(">")>> \o Lit(m.atts[i].text) \in Tokens
      BY <1>2, <2>1, QuotedFact
  <2> QED
      BY <1>1, <1>2, <1>3, <2>2, TokensFact
<1>6. /\ DOMAIN quotes = 1 .. n /\ DOMAIN texts = 1 .. n /\ DOMAIN kits = 1 .. n
      /\ quotes = [i \in 1 .. n |-> quotes[i]] /\ texts = [i \in 1 .. n |-> texts[i]]
      /\ kits = [i \in 1 .. n |-> kits[i]]
    BY <1>1
<1>7. TextFromBlocks(m) = IF RichTextToText(m) # <<>> THEN RichTextToText(m)
                          ELSE BlocksToText(m.kit) \o FlattenSeq(kits)
    BY DEF TextFromBlocks, Each
<1> HIDE DEF quotes, texts, kits, n
<1>8. /\ FlattenSeq(quotes) \in Tokens /\ FlattenSeq(texts) \in Tokens /\ FlattenSeq(kits) \in Tokens
      /\ FlattenSeq(kits) = <<>> <=> \A i \in 1 .. n : BlocksToText(m.atts[i].kit) = <<>>
      /\ \A i \in 1 .. n : \A t : Word(kits[i], t) => Word(FlattenSeq(kits), t)
  <2>1. \A i \in 1 .. n : kits[i] \in Tokens
      BY <1>1, <1>2, <1>5
  <2>2. FlattenSeq(quotes) \in Tokens
      BY <1>1, <1>5, <1>6, PerAttachment
  <2>3. FlattenSeq(texts) \in Tokens
      BY <1>1, <1>5, <1>6, PerAttachment
  <2>4. /\ FlattenSeq(kits) \in Tokens
        /\ FlattenSeq(kits) = <<>> <=> \A i \in 1 .. n : kits[i] = <<>>
        /\ \A i \in 1 .. n : \A t : Word(kits[i], t) => Word(FlattenSeq(kits), t)
      BY <1>1, <1>6, <2>1, PerAttachment
  <2> QED
      BY <1>5, <2>2, <2>3, <2>4
<1>9. BlocksToText(m.kit) \in Tokens /\ (m.kit = <<>> => BlocksToText(m.kit) = <<>>)
    BY FieldsFact, BlocksFact
<1>10. TextFromBlocks(m) \in Tokens
    BY <1>3, <1>7, <1>8, <1>9, RichFact
<1>11. ASSUME m.rich = <<>>, m.kit = <<>>, \A i \in DOMAIN m.atts : m.atts[i].kit = <<>>
       PROVE  TextFromBlocks(m) = <<>>
  <2>1. \A i \in 1 .. n : BlocksToText(m.atts[i].kit) = <<>>
      BY <1>1, <1>11, FieldsFact, BlocksFact
  <2>2. FlattenSeq(kits) = <<>> /\ BlocksToText(m.kit) = <<>> /\ RichTextToText(m) = <<>>
      BY <1>8, <1>9, <1>11, <2>1, RichFact
  <2> QED
      BY <1>7, <2>2
<1>12. ASSUME BlocksToText(m.kit) # <<>> PROVE TextFromBlocks(m) # <<>>
  <2>1. ASSUME NEW a \in Tokens, NEW b \in Tokens, a # <<>> PROVE a \o b # <<>>
      BY <2>1, TokensFact
  <2> QED
      BY <1>7, <1>8, <1>9, <1>12, <2>1
<1>13. ASSUME NEW t, m.rich = <<>>, t # "",
              InKit(m.kit, t) \/ \E i \in DOMAIN m.atts : InKit(m.atts[i].kit, t)
       PROVE  Word(TextFromBlocks(m), t)
  <2> DEFINE a == BlocksToText(m.kit)
             b == FlattenSeq(kits)
  <2>1. TextFromBlocks(m) = a \o b
      BY <1>7, <1>13, RichFact
  <2>2. Word(a, t) \/ Word(b, t)
    <3>1. CASE InKit(m.kit, t)
        BY <1>13, <3>1, FieldsFact, BlocksFact
    <3>2. CASE \E i \in DOMAIN m.atts : InKit(m.atts[i].kit, t)
      <4>1. PICK i \in DOMAIN m.atts : InKit(m.atts[i].kit, t)
          BY <3>2
      <4>2. Word(BlocksToText(m.atts[i].kit), t)
          BY <1>13, <4>1, FieldsFact, BlocksFact
      <4> QED
          BY <1>1, <1>5, <1>8, <4>2
    <3> QED
        BY <1>13, <3>1, <3>2
  <2>3. a \in Tokens /\ b \in Tokens
      BY <1>8, <1>9
  <2> HIDE DEF a, b
  <2>4. \A i \in DOMAIN a : i \in DOMAIN (a \o b) /\ (a \o b)[i] = a[i]
      BY <2>3, TokensFact
  <2>5. \A i \in DOMAIN b : Len(a) + i \in DOMAIN (a \o b) /\ (a \o b)[Len(a) + i] = b[i]
      BY <2>3, TokensFact
  <2> QED
      BY <2>1, <2>2, <2>4, <2>5 DEF Word
<1> QED
    BY <1>4, <1>8, <1>10, <1>11, <1>12, <1>13

\* What attachments add does not take anything away.
LEMMA WithAttachmentsFact ==
    ASSUME NEW m \in MessageType, NEW body \in Tokens
    PROVE  LET w == WithAttachments(body, m.atts)
           IN  /\ w \in Tokens
               /\ body # <<>> \/ AttachmentText(m.atts) # <<>> => w # <<>>
               /\ \A t : Word(body, t) => Word(w, t)
<1> DEFINE w == WithAttachments(body, m.atts)
           quotes == ShareQuotes(m.atts)
<1>1. quotes \in Tokens /\ AttachmentText(m.atts) \in Tokens
    BY AttachmentsFact
<1>2. CASE quotes # <<>>
  <2>1. w = body \o quotes
      BY <1>2 DEF WithAttachments
  <2> HIDE DEF w, quotes
  <2>2. /\ w \in Tokens /\ w # <<>> /\ DOMAIN body \subseteq DOMAIN w
        /\ \A i \in DOMAIN body : w[i] = body[i]
      BY <1>1, <1>2, <2>1, TokensFact
  <2>3. \A t : Word(body, t) => Word(w, t)
      BY <2>2 DEF Word
  <2> QED
      BY <2>2, <2>3 DEF w
<1>3. CASE quotes = <<>> /\ body = <<>>
  <2>1. w = AttachmentText(m.atts)
      BY <1>3 DEF WithAttachments
  <2>2. \A t : ~ Word(body, t)
      BY <1>3 DEF Word
  <2> QED
      BY <1>1, <1>3, <2>1, <2>2
<1>4. CASE quotes = <<>> /\ body # <<>>
  <2>1. w = body
      BY <1>4 DEF WithAttachments
  <2> QED
      BY <1>4, <2>1
<1> QED
    BY <1>2, <1>3, <1>4

LEMMA CachedBodyFact ==
    ASSUME NEW m \in MessageType
    PROVE  /\ CachedBody(m) \in Tokens
           /\ \/ m.text # <<>> \/ RichTextToText(m) # <<>> \/ BlocksToText(m.kit) # <<>>
              \/ AttachmentText(m.atts) # <<>>
              => CachedBody(m) # <<>>
           /\ \A t : Word(IF TextFromBlocks(m) # <<>> THEN TextFromBlocks(m) ELSE m.text, t)
                       => Word(CachedBody(m), t)
<1> DEFINE base == IF TextFromBlocks(m) # <<>> THEN TextFromBlocks(m) ELSE m.text
<1>1. base \in Tokens
    BY AttachmentsFact, FieldsFact, TextFact
<1>2. m.text # <<>> \/ RichTextToText(m) # <<>> \/ BlocksToText(m.kit) # <<>> => base # <<>>
  <2>1. RichTextToText(m) # <<>> => TextFromBlocks(m) # <<>>
      BY DEF TextFromBlocks
  <2> QED
      BY <2>1, AttachmentsFact
<1>3. CachedBody(m) = WithAttachments(base, m.atts)
    BY DEF CachedBody
<1> HIDE DEF base
<1>4. /\ CachedBody(m) \in Tokens
      /\ base # <<>> \/ AttachmentText(m.atts) # <<>> => CachedBody(m) # <<>>
      /\ \A t : Word(base, t) => Word(CachedBody(m), t)
    BY <1>1, <1>3, WithAttachmentsFact
<1> QED
    BY <1>2, <1>4 DEF base

LEMMA ImagesFact ==
    ASSUME NEW m \in MessageType
    PROVE  Images(m.atts) \in Nat /\ ImagesFromBlocks(m) \in Nat
<1>1. DOMAIN m.atts = 1 .. Len(m.atts) /\ Len(m.atts) \in Nat
    BY FieldsFact
<1>2. DOMAIN m.kit = 1 .. Len(m.kit) /\ Len(m.kit) \in Nat
  <2>1. m.kit \in Seq(KitBlock)
      BY FieldsFact DEF Kit, KitBlock
  <2> QED
      BY <2>1
<1>3. IsFiniteSet(DOMAIN m.atts) /\ IsFiniteSet(DOMAIN m.kit)
  <2>1. \A n \in Nat : IsFiniteSet(1 .. n)
      BY FS_Interval
  <2> QED
      BY <1>1, <1>2, <2>1
<1>4. /\ IsFiniteSet({i \in DOMAIN m.atts : m.atts[i].image})
      /\ IsFiniteSet({i \in DOMAIN m.kit : m.kit[i].k = "image"})
    BY <1>3, FS_Subset
<1> QED
    BY <1>4, FS_CardinalityType DEF Images, ImagesFromBlocks


\* That an app sent a message is not to be seen in its row.
LEMMA DrawnAlike ==
    ASSUME NEW m \in MessageType
    PROVE  MsgFromRaw([m EXCEPT !.bot = FALSE]) = MsgFromRaw(m)
<1> DEFINE n == [m EXCEPT !.bot = FALSE]
<1>1. n.text = m.text /\ n.rich = m.rich /\ n.kit = m.kit /\ n.atts = m.atts /\ n.files = m.files
    BY DEF MessageType
<1> HIDE DEF n
<1>2. RichTextToText(n) = RichTextToText(m)
    BY <1>1 DEF RichTextToText
<1>3. TextFromBlocks(n) = TextFromBlocks(m)
    BY <1>1, <1>2 DEF TextFromBlocks
<1>4. CachedBody(n) = CachedBody(m)
    BY <1>1, <1>3 DEF CachedBody
<1>5. IsMention(n) = IsMention(m) /\ ImagesFromBlocks(n) = ImagesFromBlocks(m)
    BY <1>1 DEF IsMention, ImagesFromBlocks
<1> QED
    BY <1>1, <1>4, <1>5 DEF MsgFromRaw, n

LEMMA RowSays ==
    ASSUME NEW m \in MessageType, Says(m)
    PROVE  MsgFromRaw(m).text # <<>> \/ MsgFromRaw(m).images > 0
<1> DEFINE images == m.files + Images(m.atts) + ImagesFromBlocks(m)
           body == Collapsed(CachedBody(m), m.atts, images)
<1>1. m.files \in Nat /\ Images(m.atts) \in Nat /\ ImagesFromBlocks(m) \in Nat
    BY FieldsFact, ImagesFact
<1>2. MsgFromRaw(m).text = RenderText(body) /\ MsgFromRaw(m).images = images
    BY DEF MsgFromRaw
<1>3. CASE images > 0
    BY <1>2, <1>3
<1>4. CASE images = 0
  <2>1. body = CachedBody(m)
      BY <1>4 DEF Collapsed
  <2>2. m.files = 0 /\ Images(m.atts) = 0 /\ ImagesFromBlocks(m) = 0
      BY <1>1, <1>4
  <2>3. CachedBody(m) \in Tokens /\ CachedBody(m) # <<>>
      BY <2>2, CachedBodyFact DEF Says
  <2> HIDE DEF body
  <2>4. 1 \in DOMAIN body
      BY <2>1, <2>3, TokensFact
  <2>5. 1 \in DOMAIN RenderText(body)
      BY <2>4 DEF RenderText
  <2> QED
      BY <1>2, <2>5
<1>5. images \in Nat
    BY <1>1
<1> QED
    BY <1>3, <1>4, <1>5

\* The message is of none of the kinds the two ways draw differently.
LEMMA RowsAlike ==
    ASSUME NEW m \in MessageType, ImagesFromBlocks(m) = 0,
           m.rich \o m.kit # <<>> \/ \A i \in DOMAIN m.atts : m.atts[i].kit = <<>>
    PROVE  LET page == FormatMsg(m, DisplayText(m))
               row == MsgFromRaw(m)
           IN  row.text = page.text /\ row.images = page.images /\ row.link = page.link
<1>1. CachedBody(m) = DisplayText(m)
  <2>1. CASE m.rich \o m.kit # <<>>
      BY <2>1 DEF CachedBody, DisplayText
  <2>2. CASE m.rich \o m.kit = <<>>
    <3>1. m.rich = <<>> /\ m.kit = <<>>
      <4>1. m.rich \in Seq(RichLine) /\ m.kit \in Seq(KitBlock)
          BY DEF MessageType, RichLine, Kit, KitBlock
      <4> QED
          BY <2>2, <4>1
    <3>2. TextFromBlocks(m) = <<>>
        BY <2>2, <3>1, AttachmentsFact
    <3> QED
        BY <2>2, <3>2 DEF CachedBody, DisplayText
  <2> QED
      BY <2>1, <2>2
<1>2. m.files + Images(m.atts) + ImagesFromBlocks(m) = m.files + Images(m.atts)
    BY FieldsFact, ImagesFact
<1> QED
    BY <1>1, <1>2 DEF MsgFromRaw, FormatMsg

LEMMA MentionShown ==
    ASSUME NEW m \in Messages, MsgFromRaw(m).mention
    PROVE  \/ \E i \in DOMAIN MsgFromRaw(m).text : MsgFromRaw(m).text[i].as \in {"self", "code"}
           \/ MsgFromRaw(m).images > 0 /\ IsLoneLink(CachedBody(m))
<1> DEFINE images == m.files + Images(m.atts) + ImagesFromBlocks(m)
           base == IF TextFromBlocks(m) # <<>> THEN TextFromBlocks(m) ELSE m.text
           body == CachedBody(m)
<1>0. m \in MessageType
    BY DisplayAssumption
<1>1. /\ MsgFromRaw(m).images = images
      /\ MsgFromRaw(m).text = RenderText(Collapsed(body, m.atts, images))
      /\ IsMention(m)
    BY DEF MsgFromRaw
<1>2. CASE images > 0 /\ IsLoneLink(body)
    BY <1>1, <1>2
<1>3. CASE ~ (images > 0 /\ IsLoneLink(body))
  <2>1. MsgFromRaw(m).text = RenderText(body)
      BY <1>1, <1>3 DEF Collapsed
  <2>2. PICK i \in DOMAIN m.text : m.text[i].t \in Counting
      BY <1>1 DEF IsMention
  <2> DEFINE t == m.text[i].t
  <2>3. Word(base, t)
    <3>1. CASE TextFromBlocks(m) = <<>>
        BY <2>2, <3>1 DEF Word
    <3>2. CASE TextFromBlocks(m) # <<>> /\ m.rich = <<>>
      <4>1. t # ""
          BY <2>2 DEF Counting
      <4>2. InKit(m.kit, t) \/ \E j \in DOMAIN m.atts : InKit(m.atts[j].kit, t)
          BY <1>0, <2>2, <3>2, MentionsAssumption, AttachmentsFact
      <4>3. Word(TextFromBlocks(m), t)
          BY <1>0, <3>2, <4>1, <4>2, AttachmentsFact
      <4> QED
          BY <3>2, <4>3
    <3>3. CASE TextFromBlocks(m) # <<>> /\ m.rich # <<>>
      <4>1. PICK j \in DOMAIN m.rich : \E k \in DOMAIN m.rich[j].of : m.rich[j].of[k].t = t
          BY <2>2, <3>3, MentionsAssumption DEF InRich
      <4>2. Word(RichTextToText(m), t)
          BY <1>0, <4>1, RichFact
      <4>3. RichTextToText(m) # <<>>
          BY <4>2 DEF Word
      <4> QED
          BY <3>3, <4>2, <4>3 DEF TextFromBlocks
    <3> QED
        BY <3>1, <3>2, <3>3
  <2>4. Word(body, t)
      BY <1>0, <2>3, CachedBodyFact
  <2> HIDE DEF t, body
  <2>5. PICK l \in DOMAIN body : body[l].t = t
      BY <2>4 DEF Word
  <2>6. Tagged(t) = "self"
      BY <2>2 DEF t, Counting, Tagged
  <2>7. l \in DOMAIN RenderText(body) /\ RenderText(body)[l].as \in {"self", "code"}
      BY <2>5, <2>6 DEF RenderText
  <2> QED
      BY <2>1, <2>7
<1> QED
    BY <1>2, <1>3

\* The cache has the message, with or without its app; a row is drawn as its
\* way draws the message.
DisplayInv ==
    /\ said \in Messages \cup {NoMessage}
    /\ displaySteps \in 0 .. MaxSteps /\ acted \in {"none", "done", "nothing"}
    /\ cached # NoMessage => said \in Messages /\ cached \in {said, [said EXCEPT !.bot = FALSE]}
    /\ fromCache # NothingDrawn => said \in Messages /\ fromCache = MsgFromRaw(said)
    /\ fromPage # NothingDrawn => said \in Messages /\ fromPage = FormatMsg(said, DisplayText(said))

LEMMA NobodySaidNothing == NoMessage \notin Messages
<1>1. \A m \in MessageType : "text" \in DOMAIN m
    BY DEF MessageType
<1>2. "text" \notin DOMAIN NoMessage
    BY DEF NoMessage
<1> QED
    BY <1>1, <1>2, DisplayAssumption

LEMMA DisplayStep == ASSUME DisplayInv, [DisplayNext]_displayVars PROVE DisplayInv'
<1> USE DisplayAssumption DEF DisplayInv, OneStep
<1>1. CASE Say
    BY <1>1, NobodySaidNothing DEF Say
<1>2. CASE Arrives
    BY <1>2 DEF Arrives
<1>3. CASE Backfilled
    BY <1>3 DEF Backfilled
<1>4. CASE ShowCached
  <2>1. said \in Messages /\ said \in MessageType /\ cached \in {said, [said EXCEPT !.bot = FALSE]}
      BY <1>4 DEF ShowCached
  <2>2. MsgFromRaw(cached) = MsgFromRaw(said)
      BY <2>1, DrawnAlike
  <2> QED
      BY <1>4, <2>1, <2>2 DEF ShowCached
<1>5. CASE ShowPage
    BY <1>5 DEF ShowPage
<1>6. CASE BlockAction
    BY <1>6 DEF BlockAction
<1>7. CASE UNCHANGED displayVars
    BY <1>7 DEF displayVars
<1> QED
    BY <1>1, <1>2, <1>3, <1>4, <1>5, <1>6, <1>7 DEF DisplayNext

\* Whatever is stored, edited, fetched and drawn, in whatever order, a row is what
\* one of the two paths of the client (a cached row, a page) makes of the message.
THEOREM DisplayInvHolds == DisplaySpec => []DisplayInv
<1>1. DisplayInit => DisplayInv
    BY DisplayAssumption DEF DisplayInit, DisplayInv
<1>2. DisplayInv /\ [DisplayNext]_displayVars => DisplayInv'
    BY DisplayStep
<1> QED
    BY <1>1, <1>2, PTL DEF DisplaySpec

RowOK(r) == r.images \in Nat /\ r.link \in {"", "url"} /\ r.mention \in BOOLEAN

LEMMA RowTyped ==
    ASSUME NEW m \in MessageType
    PROVE  RowOK(MsgFromRaw(m)) /\ RowOK(FormatMsg(m, DisplayText(m)))
<1>1. m.files \in Nat /\ Images(m.atts) \in Nat /\ ImagesFromBlocks(m) \in Nat
    BY FieldsFact, ImagesFact
<1>2. IsMention(m) \in BOOLEAN
    BY DEF IsMention
<1>3. \A body : FirstLink(body) \in {"", "url"}
    BY DEF FirstLink
<1>4. RowOK(MsgFromRaw(m))
  <2> DEFINE r == MsgFromRaw(m)
  <2>1. /\ r.images = m.files + Images(m.atts) + ImagesFromBlocks(m)
        /\ r.link = FirstLink(CachedBody(m)) /\ r.mention = IsMention(m)
      BY DEF MsgFromRaw
  <2> HIDE DEF r
  <2>2. r.images \in Nat
      BY <1>1, <2>1
  <2>3. r.link \in {"", "url"}
      BY <1>3, <2>1
  <2>4. r.mention \in BOOLEAN
      BY <1>2, <2>1
  <2>5. RowOK(r)
      BY <2>2, <2>3, <2>4 DEF RowOK
  <2> QED
      BY <2>5 DEF r
<1>5. RowOK(FormatMsg(m, DisplayText(m)))
  <2> DEFINE r == FormatMsg(m, DisplayText(m))
  <2>1. /\ r.images = m.files + Images(m.atts)
        /\ r.link = FirstLink(DisplayText(m)) /\ r.mention = FALSE
      BY DEF FormatMsg
  <2> HIDE DEF r
  <2>2. r.images \in Nat
      BY <1>1, <2>1
  <2>3. r.link \in {"", "url"}
      BY <1>3, <2>1
  <2>4. r.mention \in BOOLEAN
      BY <1>2, <2>1
  <2>5. RowOK(r)
      BY <2>2, <2>3, <2>4 DEF RowOK
  <2> QED
      BY <2>5 DEF r
<1> QED
    BY <1>4, <1>5

\* A row counts a number of pictures, has an address or none, and asks for attention
\* or does not, of whatever text and blocks the message is.
THEOREM DisplayTypeCorrect == DisplaySpec => []DisplayTypeOK
<1>1. DisplayInv => DisplayTypeOK
  <2> SUFFICES ASSUME DisplayInv PROVE DisplayTypeOK
      OBVIOUS
  <2>1. RowOK(NothingDrawn)
      BY DEF NothingDrawn, RowOK
  <2>2. RowOK(fromCache) /\ RowOK(fromPage)
      BY <2>1, RowTyped, DisplayAssumption DEF DisplayInv
  <2> QED
      BY <2>2 DEF DisplayInv, DisplayTypeOK, RowOK
<1> QED
    BY <1>1, DisplayInvHolds, PTL

\* For messages of any length, with any blocks, attachments and files: the row is the
\* same on both ways but for the two kinds of message they are known to draw
\* differently, it says something if the message does, and a mention that counts is
\* marked in it.
THEOREM RowsStayRight == DisplaySpec => []RowsAreRight
<1>1. DisplayInv => RowsAreRight
  <2> SUFFICES ASSUME DisplayInv PROVE RowsAreRight
      OBVIOUS
  <2>1. RowsAgree
    <3>1. ASSUME fromCache # NothingDrawn, Says(said)
          PROVE  fromCache.text # <<>> \/ fromCache.images > 0
        BY <3>1, RowSays, DisplayAssumption DEF DisplayInv
    <3>2. ASSUME fromCache # NothingDrawn, fromPage # NothingDrawn,
                 ~ (said.rich \o said.kit = <<>> /\ \E i \in DOMAIN said.atts : said.atts[i].kit # <<>>),
                 ~ (ImagesFromBlocks(said) > 0)
          PROVE  fromCache.text = fromPage.text /\ fromCache.images = fromPage.images
                 /\ fromCache.link = fromPage.link
      <4>1. said \in MessageType /\ fromCache = MsgFromRaw(said) /\ fromPage = FormatMsg(said, DisplayText(said))
          BY <3>2, DisplayAssumption DEF DisplayInv
      <4>2. ImagesFromBlocks(said) = 0
          BY <3>2, <4>1, ImagesFact
      <4> QED
          BY <3>2, <4>1, <4>2, RowsAlike
    <3> QED
        BY <3>1, <3>2 DEF RowsAgree
  <2>2. MentionsShow
    <3>1. CASE fromCache = NothingDrawn
        BY <3>1 DEF MentionsShow, NothingDrawn
    <3>2. CASE fromCache # NothingDrawn
        BY <3>2, MentionShown DEF MentionsShow, DisplayInv
    <3> QED
        BY <3>1, <3>2
  <2> QED
      BY <2>1, <2>2 DEF RowsAreRight
<1> QED
    BY <1>1, DisplayInvHolds, PTL

-----------------------------------------------------------------------------
(* All of them                                                             *)

\* Link previews, image cache, emoji, inline images, avatars and message rows keep
\* the form of their state, for every number of callers, files, pictures and messages.
THEOREM PicturesTypeCorrect ==
    Spec /\ FetchSpec /\ PlaceSpec /\ InlineSpec /\ MediaSpec /\ DisplaySpec => []PicturesTypeOK
<1>1. TypeOK /\ FetchTypeOK /\ PlaceTypeOK /\ InlineTypeOK /\ MediaTypeOK /\ DisplayTypeOK
        => PicturesTypeOK
    BY DEF PicturesTypeOK
<1> QED
    BY <1>1, PreviewsTypeCorrect, FetchTypeCorrect, PlaceTypeCorrect, InlineTypeCorrect,
       MediaTypeCorrect, DisplayTypeCorrect, PTL

=============================================================================
