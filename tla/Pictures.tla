------------------------------ MODULE Pictures ------------------------------
(***************************************************************************)
(* The pictures of a message: link previews, images fetched for the        *)
(* terminal and their cache, emoji on its screen, images and copies a      *)
(* client opens, avatars and custom emoji, and the rows they are drawn in. *)
(***************************************************************************)
EXTENDS PermalinkPreviews, ImageFetch, EmojiPlace, InlineImages, Media, Display

\* The picture cache's index, its byte count and its directory agree whatever is
\* fetched, hit, evicted or found at a start, but after one that found a key under two
\* names (image/cache.go:54-181, image/fetcher.go:294).
CacheAgrees == IndexedIsOnDisk /\ CountsWhatItHolds

\* A picture of a message shows up under its own name whole, posters left out: all runs
\* of ffmpeg for one share a temporary name (main.go:770-773, 799).  A list of custom
\* emoji is never behind when all have written it, is never read in part, and names
\* files that are there and that nobody is writing; files written in place whose write
\* was cut short are left out (main.go:2480-2512).
DownloadsShowUp == DownloadsAreWhole /\ EmojiListIsGood

\* The state of each part has the form its TypeOK says.
PicturesTypeOK ==
    TypeOK /\ FetchTypeOK /\ PlaceTypeOK /\ InlineTypeOK /\ MediaTypeOK /\ DisplayTypeOK
=============================================================================
