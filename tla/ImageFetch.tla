------------------------------ MODULE ImageFetch ------------------------------
(***************************************************************************)
(* Fetching images: Fetcher (internal/image/fetcher.go) over the disk      *)
(* cache (internal/image/cache.go).                                        *)
(*                                                                         *)
(* A caller asks for a key at a target size.  Callers of one key share one *)
(* flight; its leader looks in the cache, takes one of a few slots if the  *)
(* image is not there, tries the workspaces' credentials in turn, writes   *)
(* the file, puts it in the index, decodes it and remembers the picture.   *)
(* The file is written before the cache's lock is taken.  Its path is the  *)
(* key with a suffix from the answer's type, so one key can come to have   *)
(* files of two names.  The process can stop between any two steps; the    *)
(* next one indexes the files it finds, and of two for a key both.         *)
(***************************************************************************)
EXTENDS Integers, Sequences, FiniteSets, SequencesExt

CONSTANTS
    FetchKeys, FetchTargets, FetchCallers,
    CachePaths, PathKey, \* the names files can have, and the key in each
    Size,           \* bytes of each key's file
    Cap,            \* capB
    Limit,          \* fetchConcurrencyLimit
    MaxRetries,     \* rateLimitMaxRetries
    Fallbacks,      \* registered workspaces, in order
    TeamOf,         \* workspace in each key's URL; NoTeam for other hosts
    NoTeam, NoImage,
    MaxStarts       \* bound: processes, the first one included

ASSUME ImageFetchAssumption ==
    /\ IsFiniteSet(FetchKeys) /\ Size \in [FetchKeys -> Nat \ {0}]
    /\ IsFiniteSet(CachePaths) /\ PathKey \in [CachePaths -> FetchKeys]
    /\ Cap \in Nat /\ Limit \in Nat \ {0} /\ MaxRetries \in Nat
    /\ MaxStarts \in Nat \ {0}
    /\ NoTeam \notin Range(Fallbacks) /\ IsInjective(Fallbacks)
    /\ Fallbacks \in Seq(Range(Fallbacks))
    /\ NoImage \notin CachePaths \cup Range(Fallbacks) \cup FetchCallers

FetchTeams == Range(Fallbacks)
Foreign == {TeamOf[k] : k \in FetchKeys} \ (FetchTeams \cup {NoTeam})

\* What is at a path: nothing, an image, or bytes that no decoder reads: an
\* error page, an unknown format, a file cut short.
Content == {"none", "image", "junk"}

VARIABLES
    lru,       \* the paths of the list's entries, least recently used first
    items,     \* the path of the entry each key has, the newest of that path
    total,
    cacheFile, \* content of each path
    twice,     \* history: keys that loadIndex found under two names
    decoded,   \* decoded: <<key, target>> pairs with a picture in memory
    flight,    \* leader of each key's flight, or None
    fetchSlots, \* sem: leaders that hold a slot
    learned,   \* learnedAuths
    call,      \* where each caller is
    starts

cacheVars == <<lru, items, total, cacheFile, twice>>
fetchVars == <<cacheVars, decoded, flight, fetchSlots, learned, call, starts>>

Idle == [at |-> "idle"]
Indexed == {k \in FetchKeys : items[k] # NoImage}
Weight(S, w) == Cardinality(UNION {{x} \X (1 .. w[x]) : x \in S})
Bytes(S) == Weight(S, [p \in CachePaths |-> Size[PathKey[p]]])
At(c, step) == call[c].at = step
Become(c, step) == call' = [call EXCEPT ![c].at = step]

\* --- defective variants, for mutation runs ---
\* a fetch that finds another in flight starts its own
InFlight_Ignored(k) == FALSE
\* the slot is given back by the flights that succeed
Land_KeepsSlot(c, how) ==
    /\ flight' = [flight EXCEPT ![call[c].k] = NoImage]
    /\ fetchSlots' = IF how = "ok" THEN fetchSlots \ {c} ELSE fetchSlots
    /\ call' = [d \in FetchCallers |->
                  IF d = c \/ (At(d, "join") /\ call[d].k = call[c].k)
                  THEN [at |-> how, k |-> call[d].k, t |-> call[d].t] ELSE call[d]]

-----------------------------------------------------------------------------
(* The disk cache                                                          *)

Others(k) ==
    IF k \notin Indexed THEN lru
    ELSE RemoveAt(lru, CHOOSE i \in DOMAIN lru :
                          /\ lru[i] = items[k]
                          /\ \A j \in DOMAIN lru : lru[j] = items[k] => j <= i)
Touched(k) == Append(Others(k), items[k])

\* Put, once the lock is held: an older entry of the key goes, then the oldest
\* ones, as few as bring the rest under the cap (evictLocked), each with what the
\* index has for its key; the new entry is admitted whatever its size.
Admit(p) ==
    LET k == PathKey[p]
        others == Others(k)
        before == IF k \in Indexed THEN total - Size[k] ELSE total
        First(i) == Weight(1 .. i, [j \in DOMAIN others |-> Size[PathKey[others[j]]]])
        Gone(i) == Range(SubSeq(others, 1, i))
    IN \E i \in 0 .. Len(others) :
       /\ before - First(i) <= Cap \/ i = Len(others)
       /\ \A h \in 0 .. i - 1 : before - First(h) > Cap
       /\ lru' = Append(SubSeq(others, i + 1, Len(others)), p)
       /\ items' = [x \in FetchKeys |-> IF x = k THEN p
                                        ELSE IF \E g \in Gone(i) : PathKey[g] = x THEN NoImage
                                        ELSE items[x]]
       /\ total' = (before - First(i)) + Size[k]
       /\ cacheFile' = [x \in CachePaths |-> IF x \in Gone(i) THEN "none" ELSE cacheFile[x]]
       /\ twice' = twice

Evict(k) ==
    IF k \in Indexed
    THEN /\ lru' = Others(k) /\ items' = [items EXCEPT ![k] = NoImage]
         /\ total' = total - Size[k]
         /\ cacheFile' = [cacheFile EXCEPT ![items[k]] = "none"]
         /\ twice' = twice
    ELSE UNCHANGED cacheVars

-----------------------------------------------------------------------------
(* Flights                                                                 *)

InFlight(k) == flight[k] # NoImage

\* The function under Do returns: its slot is free, the flight is over, and
\* whoever joined it gets the leader's result.
Land(c, how) ==
    /\ flight' = [flight EXCEPT ![call[c].k] = NoImage]
    /\ fetchSlots' = fetchSlots \ {c}
    /\ call' = [d \in FetchCallers |->
                  IF d = c \/ (At(d, "join") /\ call[d].k = call[c].k)
                  THEN [at |-> how, k |-> call[d].k, t |-> call[d].t] ELSE call[d]]

FetchImage(c, k, t) ==
    /\ At(c, "idle")
    /\ LET as(step) == call' = [call EXCEPT ![c] = [at |-> step, k |-> k, t |-> t]] IN
       IF InFlight(k) THEN as("join") /\ UNCHANGED <<lru, flight>>
       ELSE /\ flight' = [flight EXCEPT ![k] = c]
            /\ IF k \in Indexed THEN lru' = Touched(k) /\ as("look")
                                ELSE as("slot") /\ UNCHANGED lru
    /\ UNCHANGED <<items, total, cacheFile, twice, decoded, fetchSlots, learned, starts>>

TakeSlot(c) ==
    /\ At(c, "slot") /\ Cardinality(fetchSlots) < Limit
    /\ fetchSlots' = fetchSlots \cup {c} /\ Become(c, "look")
    /\ UNCHANGED <<cacheVars, decoded, flight, learned, starts>>

\* authsForURL; an empty list becomes one attempt without credentials.
AuthsFor(k) ==
    LET team == TeamOf[k] IN
    IF team = NoTeam THEN <<NoTeam>>
    ELSE IF team \in FetchTeams THEN <<team>>
    ELSE IF learned[team] # NoImage THEN <<learned[team]>>
    ELSE IF Fallbacks = <<>> THEN <<NoTeam>> ELSE Fallbacks

\* The cache is asked a second time: what was there may have been evicted since.
Look(c) ==
    /\ At(c, "look")
    /\ LET k == call[c].k IN
       IF k \in Indexed
       THEN /\ lru' = Touched(k)
            /\ call' = [call EXCEPT ![c] = [at |-> "open", k |-> k, t |-> call[c].t,
                                            path |-> items[k]]]
       ELSE /\ call' = [call EXCEPT ![c] = [at |-> "http", k |-> k, t |-> call[c].t,
                                            auths |-> AuthsFor(k), tries |-> 0]]
            /\ UNCHANGED lru
    /\ UNCHANGED <<items, total, cacheFile, twice, decoded, flight, fetchSlots, learned, starts>>

\* An attempt brings an image, whether or not a decoder reads it, and its type.
Body(c, content, p) ==
    LET k == call[c].k
        auth == Head(call[c].auths)
    IN /\ At(c, "http") /\ PathKey[p] = k
       /\ learned' = IF TeamOf[k] \in Foreign /\ auth # NoTeam
                     THEN [learned EXCEPT ![TeamOf[k]] = auth] ELSE learned
       /\ call' = [call EXCEPT ![c] = [at |-> "write", k |-> k, t |-> call[c].t,
                                       body |-> content, path |-> p]]
       /\ UNCHANGED <<cacheVars, decoded, flight, fetchSlots, starts>>

\* A 429 is tried again after a pause; the last one, any other status, a login
\* page or a transport error go on to the next workspace's credentials.
Busy(c) ==
    /\ At(c, "http") /\ call[c].tries < MaxRetries
    /\ call' = [call EXCEPT ![c].tries = @ + 1]
    /\ UNCHANGED <<cacheVars, decoded, flight, fetchSlots, learned, starts>>

Refused(c) ==
    /\ At(c, "http")
    /\ IF Len(call[c].auths) > 1
       THEN /\ call' = [call EXCEPT ![c].auths = Tail(@), ![c].tries = 0]
            /\ UNCHANGED <<flight, fetchSlots>>
       ELSE Land(c, "error")
    /\ UNCHANGED <<cacheVars, decoded, learned, starts>>

\* The caller's context ends while it waits for a slot.
Cancelled(c) ==
    /\ At(c, "slot") /\ Land(c, "error")
    /\ UNCHANGED <<cacheVars, decoded, learned, starts>>

\* os.WriteFile truncates, then writes, outside the lock; it may fail halfway, and
\* what it writes to a file removed since is nowhere.
Truncate(c) ==
    /\ At(c, "write")
    /\ cacheFile' = [cacheFile EXCEPT ![call[c].path] = "junk"] /\ Become(c, "writing")
    /\ UNCHANGED <<lru, items, total, twice, decoded, flight, fetchSlots, learned, starts>>

ImageWritten(c) ==
    /\ At(c, "writing") /\ Become(c, "put")
    /\ cacheFile' = IF cacheFile[call[c].path] = "none" THEN cacheFile
                    ELSE [cacheFile EXCEPT ![call[c].path] = call[c].body]
    /\ UNCHANGED <<lru, items, total, twice, decoded, flight, fetchSlots, learned, starts>>

WriteFails(c) ==
    /\ At(c, "writing") /\ Land(c, "error")
    /\ UNCHANGED <<cacheVars, decoded, learned, starts>>

Put(c) ==
    /\ At(c, "put")
    /\ Admit(call[c].path) /\ Become(c, "open")
    /\ UNCHANGED <<decoded, flight, fetchSlots, learned, starts>>

\* A path that is gone, an image, or bytes to be thrown out of the cache.
Open(c) ==
    LET k == call[c].k
        found == cacheFile[call[c].path]
    IN
    /\ At(c, "open")
    /\ CASE found = "none" -> Land(c, "error") /\ UNCHANGED <<cacheVars, decoded>>
         [] found = "image" -> /\ Land(c, "ok") /\ UNCHANGED cacheVars
                               /\ decoded' = decoded \cup {<<k, call[c].t>>}
         [] found = "junk" -> Land(c, "error") /\ Evict(k) /\ UNCHANGED decoded
    /\ UNCHANGED <<learned, starts>>

Return(c) ==
    /\ call[c].at \in {"ok", "error"}
    /\ call' = [call EXCEPT ![c] = Idle]
    /\ UNCHANGED <<cacheVars, decoded, flight, fetchSlots, learned, starts>>

\* The process stops and a new one runs loadIndex: every file in the directory is an
\* entry, oldest modification first (the times themselves are left out: any order),
\* and a key has its newest.
Restart ==
    /\ starts < MaxStarts /\ starts' = starts + 1
    /\ LET found == {p \in CachePaths : cacheFile[p] # "none"}
           Of(order, k) == {i \in DOMAIN order : PathKey[order[i]] = k}
       IN /\ \E order \in SetToSeqs(found), newest \in [FetchKeys -> CachePaths \cup {NoImage}] :
               /\ \A k \in FetchKeys :
                    IF Of(order, k) = {} THEN newest[k] = NoImage
                    ELSE \E i \in Of(order, k) : /\ newest[k] = order[i]
                                                 /\ \A j \in Of(order, k) : j <= i
               /\ lru' = order /\ items' = newest
          /\ total' = Bytes(found)
          /\ twice' = {k \in FetchKeys : \E p, q \in found : p # q /\ PathKey[p] = k /\ PathKey[q] = k}
    /\ decoded' = {} /\ fetchSlots' = {}
    /\ flight' = [k \in FetchKeys |-> NoImage]
    /\ learned' = [t \in Foreign |-> NoImage]
    /\ call' = [c \in FetchCallers |-> Idle]
    /\ UNCHANGED cacheFile

-----------------------------------------------------------------------------
FetchInit ==
    /\ lru = <<>> /\ items = [k \in FetchKeys |-> NoImage] /\ total = 0
    /\ cacheFile = [p \in CachePaths |-> "none"] /\ twice = {}
    /\ decoded = {} /\ fetchSlots = {}
    /\ flight = [k \in FetchKeys |-> NoImage]
    /\ learned = [t \in Foreign |-> NoImage]
    /\ call = [c \in FetchCallers |-> Idle]
    /\ starts = 1

Step(c) ==
    \/ TakeSlot(c) \/ Look(c)
    \/ \E content \in {"image", "junk"}, p \in CachePaths : Body(c, content, p)
    \/ Refused(c)
    \/ Truncate(c) \/ ImageWritten(c) \/ WriteFails(c) \/ Put(c) \/ Open(c) \/ Return(c)

FetchNext ==
    \/ \E c \in FetchCallers, k \in FetchKeys, t \in FetchTargets : FetchImage(c, k, t)
    \/ \E c \in FetchCallers : Step(c) \/ Busy(c) \/ Cancelled(c)
    \/ Restart

FetchSpec == FetchInit /\ [][FetchNext]_fetchVars

\* A blocked send on sem is served in order, so no leader waits for a slot
\* forever while others come and go; everything else just runs, and every
\* attempt is answered within the client's 10 seconds.
FetchFairness ==
    \A c \in FetchCallers : WF_fetchVars(Step(c)) /\ SF_fetchVars(TakeSlot(c))

-----------------------------------------------------------------------------
(* Properties                                                              *)

FetchTypeOK ==
    /\ lru \in Seq(CachePaths) /\ items \in [FetchKeys -> CachePaths \cup {NoImage}]
    /\ total \in Int /\ cacheFile \in [CachePaths -> Content] /\ twice \subseteq FetchKeys
    /\ decoded \subseteq FetchKeys \X FetchTargets
    /\ flight \in [FetchKeys -> FetchCallers \cup {NoImage}] /\ fetchSlots \subseteq FetchCallers
    /\ learned \in [Foreign -> FetchTeams \cup {NoImage}]
    /\ \A c \in FetchCallers : call[c].at = "idle" \/ (call[c].k \in FetchKeys /\ call[c].t \in FetchTargets)
    /\ starts \in 1 .. MaxStarts

\* The index never points at a path with nothing in it, although a file is
\* written before the lock is taken and removed under it: otherwise every later
\* fetch of the key hits, fails to open and evicts nothing (fetcher.go:280-299).
\* A start that found a key under two names is left out: there the older name's
\* entry, evicted, takes the key's with it, and a Put can evict its own file.
IndexedIsOnDisk == twice = {} => \A k \in Indexed : cacheFile[items[k]] # "none"

\* The bytes counted are the bytes listed, and each key is listed once
\* (cache.go:122-141), whatever was found at a start or hit, evicted and fetched in
\* between, with the same exception.
CountsWhatItHolds ==
    twice = {} => /\ IsInjective(lru) /\ Range(lru) = {items[k] : k \in Indexed}
                  /\ total = Bytes(Range(lru))

\* Every call of Fetch returns: whatever fails in whatever order, its slot comes
\* back and who joined the flight is told.
FetchReturns == \A c \in FetchCallers : ~At(c, "idle") ~> At(c, "idle")
=============================================================================
