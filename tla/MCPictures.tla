----------------------------- MODULE MCPictures -----------------------------
(***************************************************************************)
(* What a message is drawn with, on small instances: its text as typed and *)
(* as shown, link previews, terminal pictures and emoji, inline images,    *)
(* avatars and custom emoji.  These parts share no state in the program    *)
(* (each has a mutex, a semaphore and a directory of its own), so one part *)
(* moves in a behaviour, chosen at the start.                              *)
(***************************************************************************)
EXTENDS Pictures, MCDisplay, MCMarkup, TLC

CONSTANTS h1, h2, c1, c2, f1, f2, f3,         \* previews
          k1, k2, p1, p2, p3, t1, w1, w2,     \* ImageFetch
          u1, u2, s1, s2, s3, b1, v1,         \* EmojiPlace
          pic, still, m1, m2                  \* InlineImages

VARIABLE part

Parts == {"previews", "fetch", "place", "inline", "avatars", "custom", "display", "markup"}

\* Two hosts that share a link.
OneLink == [h \in Hosts |-> {k1}]

\* One picture fills the cache and one is larger; the first comes under two names
\* (another extension of the address); one belongs to a team whose token has to be
\* learned.
TwoNames == (p1 :> k1) @@ (p2 :> k1) @@ (p3 :> k2)
OneAndTwo == (k1 :> 1) @@ (k2 :> 2)
OneForeign == (k1 :> NoTeam) @@ (k2 :> f1)
TwoTeams == <<w1, w2>>

\* Two surfaces draw one picture, in one cell and in two, a third another one; a
\* preview has a key of its own.
TwoOfOne == (s1 :> u1) @@ (s2 :> u1) @@ (s3 :> u2)
OneOrTwo == [s \in Surfaces |-> IF s = s1 THEN 1 ELSE 2]
OwnKey == (v1 :> b1)

\* One message has a picture and a film, another the same picture.
SharedPicture == [m \in Msgs |-> IF m = m1 THEN {pic, still} ELSE {pic}]

MCInit == /\ Init /\ FetchInit /\ PlaceInit /\ InlineInit /\ MediaInit
          /\ DisplayInit /\ MarkupInit /\ part \in Parts

previewVars == vars
textVars == <<displayVars, markupVars>>
MCNext ==
    /\ UNCHANGED part
    /\ \/ /\ part = "previews" /\ Next
          /\ UNCHANGED <<fetchVars, placeVars, inlineVars, mediaVars, textVars>>
       \/ /\ part = "fetch" /\ FetchNext
          /\ UNCHANGED <<previewVars, placeVars, inlineVars, mediaVars, textVars>>
       \/ /\ part = "place" /\ PlaceNext
          /\ UNCHANGED <<previewVars, fetchVars, inlineVars, mediaVars, textVars>>
       \/ /\ part = "inline" /\ InlineNext
          /\ UNCHANGED <<previewVars, fetchVars, placeVars, mediaVars, textVars>>
       \/ /\ part \in {"avatars", "custom"} /\ MediaNext
          /\ part = "avatars" => UNCHANGED emojiVars
          /\ part = "custom" => UNCHANGED <<files, now, profile, scans, fetches>>
          /\ UNCHANGED <<previewVars, fetchVars, placeVars, inlineVars, textVars>>
       \/ /\ part = "display" /\ DisplayNext
          /\ UNCHANGED <<previewVars, fetchVars, placeVars, inlineVars, mediaVars, markupVars>>
       \/ /\ part = "markup" /\ MarkupNext
          /\ UNCHANGED <<previewVars, fetchVars, placeVars, inlineVars, mediaVars, displayVars>>

MCSpec ==
    MCInit /\ [][MCNext]_<<previewVars, fetchVars, placeVars, inlineVars, mediaVars, textVars, part>>
=============================================================================
