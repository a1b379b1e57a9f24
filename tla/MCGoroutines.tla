---------------------------- MODULE MCGoroutines ----------------------------
(***************************************************************************)
(* The parts of the daemon in which somebody waits for a goroutine, side   *)
(* by side on small instances: link previews, uploads and sends, pictures, *)
(* emoji, inline images and the websocket loop.  They share no state in    *)
(* the program, so one of them moves in a behaviour, chosen at the start.  *)
(***************************************************************************)
EXTENDS PermalinkPreviews, AttachSend, ImageFetch, EmojiPlace, InlineImages, Session, TLC

CONSTANTS h1, h2, k1, k2, w1, f1, s1, pic, still, m1, m2

VARIABLE part

Parts == {"previews", "attach", "fetch", "place", "inline", "session"}

\* Two hosts that share a link.
OneLink == [h \in Hosts |-> {k1}]

\* Every picture is larger than the cache, so each admission evicts another one, as
\* the one just admitted is kept; a key has one path; one picture is of a foreign team.
TwoEach == [k \in FetchKeys |-> 2]
KeyPath == [k \in FetchKeys |-> k]
OneForeign == (k1 :> NoTeam) @@ (k2 :> f1)
OneTeam == <<w1>>

\* All surfaces draw one picture, one of them in one cell and the others in two;
\* there is no preview.
SameUrl == [s \in Surfaces |-> w1]
OneOrTwo == [s \in Surfaces |-> IF s = s1 THEN 1 ELSE 2]
NoKeys == <<>>

\* One message has a picture and a film, another the same picture.
SharedPicture == [m \in Msgs |-> IF m = m1 THEN {pic, still} ELSE {pic}]

MCInit == /\ Init /\ AttachInit /\ FetchInit /\ PlaceInit /\ InlineInit /\ SessionInit
          /\ part \in Parts
          /\ part # "attach" => thread = [c \in Commands |-> None]

MCNext ==
    /\ UNCHANGED part
    /\ \/ /\ part = "previews" /\ Next
          /\ UNCHANGED <<attachVars, fetchVars, placeVars, inlineVars, sessionVars>>
       \/ /\ part = "attach" /\ AttachNext
          /\ UNCHANGED <<vars, fetchVars, placeVars, inlineVars, sessionVars>>
       \/ /\ part = "fetch" /\ FetchNext
          /\ UNCHANGED <<vars, attachVars, placeVars, inlineVars, sessionVars>>
       \/ /\ part = "place" /\ PlaceNext
          /\ UNCHANGED <<vars, attachVars, fetchVars, inlineVars, sessionVars>>
       \/ /\ part = "inline" /\ InlineNext
          /\ UNCHANGED <<vars, attachVars, fetchVars, placeVars, sessionVars>>
       \/ /\ part = "session" /\ SessionNext
          /\ UNCHANGED <<vars, attachVars, fetchVars, placeVars, inlineVars>>

\* The fairness of the parts, asked only of the one that moves.
On(p, A) == part = p /\ A
MCFairness ==
    /\ \A r \in Renderers : WF_vars(On("previews", Render(r)))
    /\ \A f \in Fetchers :
        /\ SF_vars(On("previews", AcquireSem(f)))
        /\ WF_vars(On("previews", Publish(f)))
        /\ WF_vars(On("previews", Rebroadcast(f)))
    /\ \A m \in Sends : WF_attachVars(On("attach", SendSteps(m)))
    /\ \A c \in FetchCallers :
        WF_fetchVars(On("fetch", Step(c))) /\ SF_fetchVars(On("fetch", TakeSlot(c)))
    /\ \A u \in Urls : WF_placeVars(On("place", Goroutine(u)))
    /\ WF_placeVars(On("place", Ready))
    /\ \A s \in Surfaces : WF_placeVars(On("place", Place(s)))
    /\ WF_inlineVars(On("inline", Progress))
    /\ WF_sessionVars(On("session", Manager \/ Dialled))
    /\ WF_sessionVars(On("session", ReadDeadline))

MCSpec == /\ MCInit /\ MCFairness
          /\ [][MCNext]_<<vars, attachVars, fetchVars, placeVars, inlineVars, sessionVars, part>>

-----------------------------------------------------------------------------
(* The properties of the parts, together.                                  *)

\* Blanks and placeholders go: the cells of an emoji are filled (emoji/place.go:62-75)
\* unless another surface's fetch rendered it in other cells and the surface was told
\* before that fetch had left; an image's placeholder is replaced or dropped
\* (main.go:499-529) unless its broadcast overtook the line that brings it, or it is
\* the card of a video whose poster cannot be had.
BlanksGo == BlankIsFilled /\ PlaceholderGoes

\* The daemon is connected again whatever fails, goes silent or is closed, unless a
\* dial is never answered: it has no deadline (client.go:296-312, connection.go:40-68).
DaemonReconnects == (part = "session" /\ ~Alive) ~> (Alive \/ []Hung)
=============================================================================
