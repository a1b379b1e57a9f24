------------------------------- MODULE Display -------------------------------
(***************************************************************************)
(* What a message looks like (cache_render.go, main.go).  The same message *)
(* is drawn on two paths: from the cache (msgFromRaw), when a channel is   *)
(* opened or the poll loop finds it, and straight from a page of the REST  *)
(* API (formatMsg), in a thread, older history or a jump.  It reaches the  *)
(* cache by the socket or by a page of history, and the two leave          *)
(* different parts of it there.                                            *)
(*                                                                         *)
(* Text is a sequence of tokens [t, code]; the previews of permalinks are  *)
(* in PermalinkPreviews, the state of pictures in InlineImages.            *)
(***************************************************************************)
EXTENDS Naturals, Sequences, FiniteSets, SequencesExt

CONSTANTS
    Messages,       \* messages as Slack has them
    MaxSteps        \* bound: arrivals and views

\* A message: the flat text, the lines of its rich text, its Block Kit blocks,
\* its attachments, the number of files, and whether an app sent it.
Text == Seq([t : STRING, code : BOOLEAN])
Kit  == Seq([k : STRING, of : STRING])
MessageType ==
    [text : Text, rich : Seq([k : STRING, of : Text]), kit : Kit,
     atts : Seq([share : BOOLEAN, title : STRING, text : STRING, url : STRING,
                 image : BOOLEAN, kit : Kit]),
     files : Nat, bot : BOOLEAN]

ASSUME DisplayAssumption == Messages \subseteq MessageType /\ MaxSteps \in Nat

\* The mentions that count, and what Slack sends with them: when a message has
\* blocks, rich text or an app's, the mentions of its flat text are in them too.
Counting == {"me", "here", "group"}
InRich(m, t) == \E j \in DOMAIN m.rich : \E k \in DOMAIN m.rich[j].of : m.rich[j].of[k].t = t
InKit(kit, t) == \E j \in DOMAIN kit : kit[j].k \in {"section", "context"} /\ kit[j].of = t
ASSUME MentionsAssumption ==
    \A m \in Messages : \A i \in DOMAIN m.text : m.text[i].t \in Counting =>
        IF m.rich # <<>> THEN InRich(m, m.text[i].t)
        ELSE \/ InKit(m.kit, m.text[i].t)
             \/ \E j \in DOMAIN m.atts : InKit(m.atts[j].kit, m.text[i].t)
             \/ m.kit = <<>> /\ \A j \in DOMAIN m.atts : m.atts[j].kit = <<>>

VARIABLES
    said,        \* the message, NoMessage before there is one
    cached,      \* raw_json: what the cache has of it
    fromCache,   \* the row drawn from the cache
    fromPage,    \* the row drawn from a page
    acted,       \* what came of the button: "none", "done", "nothing"
    displaySteps

displayVars == <<said, cached, fromCache, fromPage, acted, displaySteps>>

NoMessage == [none |-> TRUE]
NothingDrawn == [text |-> <<>>, images |-> 0, link |-> "", mention |-> FALSE]

Tok(t)   == [t |-> t, code |-> FALSE]
Lit(s)   == IF s = "" THEN <<>> ELSE <<Tok(s)>>
Each(s, Op(_)) == FlattenSeq([i \in DOMAIN s |-> Op(s[i])])

-----------------------------------------------------------------------------
(* Body: blocks over text, shares under either, the rest when it is blank. *)

RichTextToText(m) ==
    LET line(l) == CASE l.k = "quote" -> <<Tok(">")>> \o l.of
                     [] l.k = "pre"   -> [i \in DOMAIN l.of |-> [l.of[i] EXCEPT !.code = TRUE]]
                     [] l.k = "item"  -> <<Tok("item")>> \o l.of
                     [] OTHER         -> l.of
    IN Each(m.rich, line)

\* Sections say their text, actions their labels; the acknowledge button is
\* pointed out.  Images and dividers say nothing.
BlocksToText(kit) ==
    LET part(b) == CASE b.k \in {"section", "header", "context"} -> Lit(b.of)
                     [] b.k = "ack"    -> <<Tok(b.of), Tok("press A")>>
                     [] b.k = "button" -> <<Tok(b.of), Tok("in the app")>>
                     [] OTHER -> <<>>
    IN Each(kit, part)

TextFromBlocks(m) ==
    IF RichTextToText(m) # <<>> THEN RichTextToText(m)
    ELSE BlocksToText(m.kit) \o Each(m.atts, LAMBDA a : BlocksToText(a.kit))

ShareQuotes(atts) == Each(atts, LAMBDA a : IF a.share THEN <<Tok(">")>> \o Lit(a.text) ELSE <<>>)
AttachmentText(atts) ==
    Each(atts, LAMBDA a : IF a.title = "" /\ a.text = "" THEN Lit(a.url) ELSE Lit(a.title) \o Lit(a.text))

WithAttachments(body, atts) ==
    IF ShareQuotes(atts) # <<>> THEN body \o ShareQuotes(atts)
    ELSE IF body = <<>> THEN AttachmentText(atts) ELSE body

CachedBody(m) == WithAttachments(IF TextFromBlocks(m) # <<>> THEN TextFromBlocks(m) ELSE m.text, m.atts)

\* as msgBody has it, which nothing calls: shares only fill a blank
DisplayText_NoShares(m) ==
    LET body == IF TextFromBlocks(m) # <<>> THEN TextFromBlocks(m) ELSE m.text
    IN IF body = <<>> THEN AttachmentText(m.atts) ELSE body
\* displayText looks at the blocks of a message that has blocks of its own.
DisplayText(m) ==
    WithAttachments(IF m.rich \o m.kit # <<>> /\ TextFromBlocks(m) # <<>> THEN TextFromBlocks(m) ELSE m.text, m.atts)

-----------------------------------------------------------------------------
(* render: mentions are marked, those of the user's own more.  Code blocks *)
(* are cut out before and put back after.                                  *)

\* the user's groups are not looked up
Tagged_NoGroups(t) ==
    IF t \in {"me", "me|name", "here"} THEN "self"
    ELSE IF t \in {"them", "group", "foreign", "chan"} THEN "mention" ELSE "text"
Tagged(t) ==
    CASE t \in {"me", "me|name", "here", "group", "group|name", "foreign|name"} -> "self"
      [] t \in {"them", "foreign", "chan"} -> "mention"
      [] OTHER -> "text"
RenderText(body) ==
    [i \in DOMAIN body |-> [t |-> body[i].t, as |-> IF body[i].code THEN "code" ELSE Tagged(body[i].t)]]

\* isMention, unreadMentionCount: the forms without a label, wherever they are.
IsMention(m) == \E i \in DOMAIN m.text : m.text[i].t \in Counting

FirstLink(body) == IF \E i \in DOMAIN body : body[i].t = "url" THEN "url" ELSE ""
IsLoneLink(body) ==
    \A i \in DOMAIN body :
        body[i].t \in {"url", "me", "them", "here", "group", "foreign", "chan",
                      "me|name", "group|name", "foreign|name"}
\* unfurlBody: the title of an unfurl in place of the bare address, as a link
\* when there is an address to link to; nothing when there is no title.
UnfurlBody(atts) ==
    LET titled == SelectSeq(atts, LAMBDA a : a.title # "")
    IN IF titled = <<>> THEN <<>> ELSE Lit(titled[1].title)

Images(atts) == Cardinality({i \in DOMAIN atts : atts[i].image})
ImagesFromBlocks(m) == Cardinality({i \in DOMAIN m.kit : m.kit[i].k = "image"})

\* A lone link with a picture below it gives way to the title of the unfurl.
\* shown whatever there is below it
Collapsed_Always(body, atts, images) == IF IsLoneLink(body) THEN UnfurlBody(atts) ELSE body
Collapsed(body, atts, images) == IF images > 0 /\ IsLoneLink(body) THEN UnfurlBody(atts) ELSE body

MsgFromRaw(m) ==
    LET images == m.files + Images(m.atts) + ImagesFromBlocks(m)
    IN [text |-> RenderText(Collapsed(CachedBody(m), m.atts, images)), images |-> images,
        link |-> FirstLink(CachedBody(m)), mention |-> IsMention(m)]
FormatMsg(m, body) ==
    LET images == m.files + Images(m.atts)
    IN [text |-> RenderText(Collapsed(body, m.atts, images)), images |-> images,
        link |-> FirstLink(body), mention |-> FALSE]

-----------------------------------------------------------------------------
DisplayInit ==
    /\ said = NoMessage /\ cached = NoMessage /\ fromCache = NothingDrawn /\ fromPage = NothingDrawn
    /\ acted = "none" /\ displaySteps = 0

OneStep == displaySteps < MaxSteps /\ displaySteps' = displaySteps + 1

Say == /\ said = NoMessage
       /\ said' \in Messages
       /\ UNCHANGED <<cached, fromCache, fromPage, acted, displaySteps>>

\* OnMessage puts a message of its own together: of the app that sent it, the
\* id of its bot goes into the author, and that it was an app is not kept.
Arrives ==
    /\ said # NoMessage /\ OneStep
    /\ cached' = [said EXCEPT !.bot = FALSE]
    /\ UNCHANGED <<said, fromCache, fromPage, acted>>

\* A page of history is stored as it is (upsertHistory, backfill).
Backfilled ==
    /\ said # NoMessage /\ OneStep
    /\ cached' = said
    /\ UNCHANGED <<said, fromCache, fromPage, acted>>

ShowCached ==
    /\ cached # NoMessage /\ OneStep
    /\ fromCache' = MsgFromRaw(cached)
    /\ UNCHANGED <<said, cached, fromPage, acted>>

\* sendHistory, sendJump, sendReplies pass over what says nothing and has no
\* file.
ShowPage ==
    /\ said # NoMessage /\ OneStep
    /\ DisplayText(said) # <<>> \/ said.files > 0
    /\ fromPage' = FormatMsg(said, DisplayText(said))
    /\ UNCHANGED <<said, cached, fromCache, acted>>

\* blockAction: the button is looked up in the cached message, which must name
\* the app and its bot (extractBlockAction), among the top-level blocks only.
BlockAction ==
    /\ cached # NoMessage /\ OneStep
    /\ acted' = IF cached.bot /\ \E i \in DOMAIN cached.kit : cached.kit[i].k = "ack"
                THEN "done" ELSE "nothing"
    /\ UNCHANGED <<said, cached, fromCache, fromPage>>

DisplayNext == Say \/ Arrives \/ Backfilled \/ ShowCached \/ ShowPage \/ BlockAction
DisplaySpec == DisplayInit /\ [][DisplayNext]_displayVars

-----------------------------------------------------------------------------
DisplayTypeOK ==
    /\ said \in Messages \cup {NoMessage} /\ displaySteps \in 0..MaxSteps
    /\ acted \in {"none", "done", "nothing"}
    /\ \A r \in {fromCache, fromPage} : r.images \in Nat /\ r.link \in {"", "url"} /\ r.mention \in BOOLEAN

Says(m) ==
    m.text # <<>> \/ RichTextToText(m) # <<>> \/ m.files > 0 \/ ImagesFromBlocks(m) > 0 \/ BlocksToText(m.kit) # <<>>
    \/ AttachmentText(m.atts) # <<>> \/ Images(m.atts) > 0

\* A message that says anything is not an empty row (cache_render.go:200-230,
\* main.go:1001-1005), and one that pages or threads would show otherwise than
\* the channel does is one of the two kinds they are known to: an app's text in
\* an attachment only, and pictures in blocks.
RowsAgree ==
    LET known == \/ /\ said.rich \o said.kit = <<>>
                    /\ \E i \in DOMAIN said.atts : said.atts[i].kit # <<>>
                 \/ ImagesFromBlocks(said) > 0
    IN /\ fromCache # NothingDrawn /\ Says(said) =>
             fromCache.text # <<>> \/ fromCache.images > 0
       /\ fromCache # NothingDrawn /\ fromPage # NothingDrawn /\ ~ known =>
             /\ fromCache.text = fromPage.text /\ fromCache.images = fromPage.images
             /\ fromCache.link = fromPage.link

\* A row that asks for attention shows why: a mention that counts is marked in
\* its text, unless it stands in a code block or the row is the title of a link
\* (cache_render.go:592-609, main.go:893-950).
MentionsShow ==
    fromCache.mention =>
        \/ \E i \in DOMAIN fromCache.text : fromCache.text[i].as \in {"self", "code"}
        \/ fromCache.images > 0 /\ IsLoneLink(CachedBody(said))

\* A message's row is the same from the cache and from a page, says something when
\* the message does, and marks the mention it asks attention for
\* (cache_render.go:200-230, 592-609).
RowsAreRight == RowsAgree /\ MentionsShow
=============================================================================
