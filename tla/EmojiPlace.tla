------------------------------ MODULE EmojiPlace ------------------------------
(***************************************************************************)
(* Emoji drawn as terminal images: Place (internal/emoji/place.go) over    *)
(* the fetcher's prerendered map (internal/image/fetcher.go), the kitty    *)
(* renderer (kitty.go) and its registry (registry.go).                     *)
(*                                                                         *)
(* Surfaces (a message, the picker, a completion) ask for the same picture *)
(* at a number of cells.  A cold picture is fetched and rendered in a      *)
(* goroutine, at most one per picture; when it is done the surfaces are    *)
(* told and ask again.  A rendering carries the bytes the terminal needs   *)
(* as a closure, unless the registry knows the terminal has them.  Callers *)
(* of the renderer other than Place bind pictures to keys of their own     *)
(* choice and draw what they get (Preview does, internal/image/preview.go).*)
(***************************************************************************)
EXTENDS Naturals, Sequences, FiniteSets

CONSTANTS
    Urls, Surfaces,
    UrlOf, CellsOf,   \* what each surface draws, and in how many cells
    Previews,         \* pictures drawn by Preview
    KeyOf,            \* the renderer's key of a preview: its bounds
    NoPlace,
    MaxFails,         \* bound: writes to the terminal that fail
    MaxDraws          \* bound: previews drawn

Sizes == {CellsOf[s] : s \in Surfaces}
Pictures == Urls \cup Previews
PlaceKeys == Urls \cup {KeyOf[v] : v \in Previews}

ASSUME EmojiPlaceAssumption ==
    /\ IsFiniteSet(Surfaces) /\ IsFiniteSet(Urls) /\ IsFiniteSet(Previews)
    /\ UrlOf \in [Surfaces -> Urls] /\ CellsOf \in [Surfaces -> Nat]
    /\ {MaxFails, MaxDraws} \subseteq Nat
    /\ Urls \cap {KeyOf[v] : v \in Previews} = {} /\ Urls \cap Previews = {}
    /\ NoPlace \notin Pictures

VARIABLES
    source,       \* KittyRenderer.sources
    ids,          \* Registry.ids: <<key, cells>> -> id, 0 when not minted
    next,         \* Registry.next
    uploaded,     \* Registry.uploaded
    payload,      \* KittyRenderer.payloads: id -> picture encoded
    terminal,     \* the picture the terminal has under each id
    rendered,     \* prerendered: <<url, cells>> -> rendering, or NoRender
    inflight,     \* inflightEmoji
    failed,       \* negativeEmojiCache
    emojiJob,          \* the fetch goroutine of each url
    queue,        \* EmojiImageReadyMsg on the way to the surfaces
    shown,        \* what each surface shows
    preview,      \* the last preview drawn: its picture and id
    fails, draws

registry == <<source, ids, next, uploaded, payload>>
place == <<rendered, inflight, failed, emojiJob, queue, shown>>
placeVars == <<registry, terminal, place, preview, fails, draws>>

NoRender == [id |-> 0, flush |-> FALSE, fired |-> FALSE, pic |-> NoPlace]
Slots == PlaceKeys \X Sizes
IdBound == Cardinality(Slots) + 1     \* one id per pair; the first one is 2
Ids == 2 .. IdBound

\* --- defective variants, for mutation runs ---
\* pictures of one size share an id
Slot_BySize(key, cells) == <<CHOOSE k \in PlaceKeys : TRUE, cells>>
\* a failed fetch is not remembered
MarkFailed_Not(u) == failed

-----------------------------------------------------------------------------
(* The renderer                                                            *)

\* registryKey
Slot(key, cells) == <<key, cells>>

\* RenderKey(key, cells): the id, and when it is fresh the bytes, encoded from the
\* source unless this id's were encoded before.
IdOf(slot) == IF ids[slot] = 0 THEN next ELSE ids[slot]
Fresh(slot) == IdOf(slot) \notin uploaded
Encoded(slot, pic) == IF payload[IdOf(slot)] = NoPlace THEN pic ELSE payload[IdOf(slot)]

RenderKey(slot, pic) ==
    [id |-> IdOf(slot), fired |-> FALSE, flush |-> Fresh(slot),
     pic |-> IF Fresh(slot) THEN Encoded(slot, pic) ELSE NoPlace]

\* SetSource, then what RenderKey leaves behind.
SetSourceAndRender(key, slot, pic) ==
    /\ source' = [source EXCEPT ![key] = pic]
    /\ ids' = [ids EXCEPT ![slot] = IdOf(slot)]
    /\ next' = IF ids[slot] = 0 THEN next + 1 ELSE next
    /\ payload' = IF Fresh(slot) THEN [payload EXCEPT ![IdOf(slot)] = Encoded(slot, pic)] ELSE payload

-----------------------------------------------------------------------------
(* The fetch goroutine of a url                                            *)

MarkFailed(u) == failed \cup {u}

\* Fetch and maybePrerender at the cells of the surface that asked first.
Fetched(u) ==
    LET slot == Slot(u, emojiJob[u].cells) IN
    /\ emojiJob[u].at = "fetching"
    /\ SetSourceAndRender(u, slot, u)
    /\ rendered' = [rendered EXCEPT ![<<u, emojiJob[u].cells>>] = RenderKey(slot, u)]
    /\ emojiJob' = [emojiJob EXCEPT ![u].at = "tell"]
    /\ UNCHANGED <<uploaded, terminal, inflight, failed, queue, shown, preview, fails, draws>>

FetchFails(u) ==
    /\ emojiJob[u].at = "fetching"
    /\ failed' = MarkFailed(u)
    /\ emojiJob' = [emojiJob EXCEPT ![u].at = "tell"]
    /\ UNCHANGED <<registry, terminal, rendered, inflight, queue, shown, preview, fails, draws>>

\* The surfaces are told while the url still counts as in flight.
Tell(u) ==
    /\ emojiJob[u].at = "tell"
    /\ queue' = Append(queue, u)
    /\ emojiJob' = [emojiJob EXCEPT ![u].at = "leave"]
    /\ UNCHANGED <<registry, terminal, rendered, inflight, failed, shown, preview, fails, draws>>

Leave(u) ==
    /\ emojiJob[u].at = "leave"
    /\ inflight' = inflight \ {u}
    /\ emojiJob' = [emojiJob EXCEPT ![u] = [at |-> "none", cells |-> 0]]
    /\ UNCHANGED <<registry, terminal, rendered, failed, queue, shown, preview, fails, draws>>

-----------------------------------------------------------------------------
(* The surfaces' goroutine                                                 *)

\* A message drops the renderings of every surface that draws the picture.
Ready ==
    /\ queue # <<>> /\ queue' = Tail(queue)
    /\ shown' = [s \in Surfaces |-> IF UrlOf[s] = Head(queue) THEN "stale" ELSE shown[s]]
    /\ UNCHANGED <<registry, terminal, rendered, inflight, failed, emojiJob, preview, fails, draws>>

\* The bytes go out and are marked delivered, or the write fails.
UploadWritten(r) ==
    \/ ~r.flush /\ UNCHANGED <<terminal, uploaded, fails>>
    \/ /\ r.flush /\ terminal' = [terminal EXCEPT ![r.id] = r.pic]
       /\ uploaded' = uploaded \cup {r.id} /\ UNCHANGED fails
    \/ /\ r.flush /\ fails < MaxFails /\ fails' = fails + 1
       /\ UNCHANGED <<terminal, uploaded>>

\* OnFlush: the first call of a closure writes; later calls of it do nothing, even
\* when that write failed.
Flush(slot, r) ==
    IF ~r.flush \/ r.fired THEN UNCHANGED <<terminal, uploaded, rendered, fails>>
    ELSE rendered' = [rendered EXCEPT ![slot].fired = TRUE] /\ UploadWritten(r)

Place(s) ==
    LET u == UrlOf[s]
        slot == <<u, CellsOf[s]>>
        show(what) == shown' = [shown EXCEPT ![s] = what]
    IN /\ shown[s] = "stale"
       /\ \/ /\ u \in failed /\ show("text")
             /\ UNCHANGED <<terminal, uploaded, rendered, inflight, emojiJob, fails>>
          \/ /\ u \notin failed /\ rendered[slot] # NoRender
             /\ show("picture") /\ Flush(slot, rendered[slot])
             /\ UNCHANGED <<inflight, emojiJob>>
          \/ /\ u \notin failed /\ rendered[slot] = NoRender
             /\ show("blank")
             /\ IF u \in inflight THEN UNCHANGED <<inflight, emojiJob>>
                ELSE /\ inflight' = inflight \cup {u}
                     /\ emojiJob' = [emojiJob EXCEPT ![u] = [at |-> "fetching", cells |-> CellsOf[s]]]
             /\ UNCHANGED <<terminal, uploaded, rendered, fails>>
       /\ UNCHANGED <<source, ids, next, payload, failed, queue, preview, draws>>

\* The surface's text is drawn again for a reason of its own.
Redraw(s) ==
    /\ draws < MaxDraws /\ draws' = draws + 1
    /\ shown' = [shown EXCEPT ![s] = "stale"]
    /\ UNCHANGED <<registry, terminal, rendered, inflight, failed, emojiJob, queue, preview, fails>>

\* Preview.View: the picture is rendered under a key made of its bounds and its
\* bytes are written at once.
Draw(v) ==
    /\ draws < MaxDraws /\ draws' = draws + 1
    /\ \E slot \in {Slot(KeyOf[v], n) : n \in Sizes} :
        /\ SetSourceAndRender(KeyOf[v], slot, v)
        /\ preview' = [pic |-> v, id |-> IdOf(slot)]
        /\ UploadWritten(RenderKey(slot, v))
    /\ UNCHANGED place

-----------------------------------------------------------------------------
PlaceInit ==
    /\ source = [k \in PlaceKeys |-> NoPlace]
    /\ ids = [p \in Slots |-> 0] /\ next = 2 /\ uploaded = {}
    /\ payload = [i \in Ids |-> NoPlace] /\ terminal = [i \in Ids |-> NoPlace]
    /\ rendered = [p \in Urls \X Sizes |-> NoRender]
    /\ inflight = {} /\ failed = {}
    /\ emojiJob = [u \in Urls |-> [at |-> "none", cells |-> 0]]
    /\ queue = <<>>
    /\ shown = [s \in Surfaces |-> "stale"]
    /\ preview = [pic |-> NoPlace, id |-> 0]
    /\ fails = 0 /\ draws = 0

Goroutine(u) == Fetched(u) \/ FetchFails(u) \/ Tell(u) \/ Leave(u)

PlaceNext ==
    \/ \E u \in Urls : Goroutine(u)
    \/ Ready
    \/ \E s \in Surfaces : Place(s) \/ Redraw(s)
    \/ \E v \in Previews : Draw(v)

PlaceSpec == PlaceInit /\ [][PlaceNext]_placeVars

\* The goroutines run; the surfaces read their messages and draw what is stale.
PlaceFairness ==
    /\ \A u \in Urls : WF_placeVars(Goroutine(u))
    /\ WF_placeVars(Ready) /\ \A s \in Surfaces : WF_placeVars(Place(s))

-----------------------------------------------------------------------------
(* Properties                                                              *)

PlaceTypeOK ==
    /\ source \in [PlaceKeys -> Pictures \cup {NoPlace}]
    /\ ids \in [Slots -> {0} \cup Ids] /\ next \in 2 .. IdBound + 1
    /\ uploaded \subseteq Ids
    /\ payload \in [Ids -> Pictures \cup {NoPlace}]
    /\ terminal \in [Ids -> Pictures \cup {NoPlace}]
    /\ rendered \in [Urls \X Sizes -> [id : {0} \cup Ids, flush : BOOLEAN, fired : BOOLEAN,
                                       pic : Pictures \cup {NoPlace}]]
    /\ inflight \subseteq Urls /\ failed \subseteq Urls
    /\ emojiJob \in [Urls -> [at : {"none", "fetching", "tell", "leave"}, cells : {0} \cup Sizes]]
    /\ queue \in Seq(Urls)
    /\ shown \in [Surfaces -> {"stale", "blank", "picture", "text"}]
    /\ preview \in [pic : Previews \cup {NoPlace}, id : {0} \cup Ids]
    /\ fails \in 0 .. MaxFails /\ draws \in 0 .. MaxDraws

\* The cells a surface draws name an id under which the terminal has that very
\* picture, as long as no write failed: renderings are made in other goroutines,
\* kept, and drawn by several surfaces of which only the first sends the bytes
\* (kitty.go:259-278, registry.go:9-19).
ScreenIsOnTerminal ==
    \A s \in Surfaces : (shown[s] = "picture" /\ fails = 0) =>
        terminal[rendered[<<UrlOf[s], CellsOf[s]>>].id] = UrlOf[s]

\* Blank cells are filled: a surface comes to show the picture or its text, also
\* when the fetch fails (place.go:62-75).  The exception is a surface that asked at
\* other cells than the fetch: told while the url still counts as in flight, it
\* starts no fetch of its own (place.go:171-178, 182-186) and stays blank with
\* nothing under way, until it is drawn again.
LeftBlank(s) ==
    LET u == UrlOf[s] IN
    /\ shown[s] = "blank" /\ u \notin inflight \cup failed
    /\ rendered[<<u, CellsOf[s]>>] = NoRender
    /\ \E n \in Sizes \ {CellsOf[s]} : rendered[<<u, n>>] # NoRender
BlankIsFilled ==
    \A s \in Surfaces : shown[s] = "blank" ~> (shown[s] # "blank" \/ []LeftBlank(s))
=============================================================================
