-------------------------------- MODULE Markup --------------------------------
(***************************************************************************)
(* What becomes of a message typed in Markdown on its way to Slack         *)
(* (internal/slack/mrkdwn): one walk over the parsed document writes a     *)
(* fallback text and a rich text block side by side, and clients show one  *)
(* or the other.  Mentions, links and emoji in Slack's own notation are    *)
(* sealed before the parse, which must not look into them, and unsealed    *)
(* after it.                                                               *)
(*                                                                         *)
(* A document is a sequence of blocks [k, kids]; text is a sequence of     *)
(* pieces.  Line breaks, indentation and the numbers of list items are     *)
(* left out.                                                               *)
(***************************************************************************)
EXTENDS Naturals, Sequences, FiniteSets, SequencesExt

CONSTANTS
    PlainWords,   \* plain pieces of text
    Tokens,       \* <@U1>, :smile: and the like, in Slack's notation
    Emoji,        \* those that are emoji
    Forged,       \* the two characters a seal is written with, typed by the user
    Typed         \* the documents that are converted

ASSUME MarkupAssumption == Emoji \subseteq Tokens

VARIABLES typed, fallback, block

markupVars == <<typed, fallback, block>>

Piece(p)        == [k |-> "text", of |-> p, kids |-> <<>>]
Around(k, kids) == [k |-> k, of |-> k, kids |-> kids]

\* What the parser left to the walk of one text: the marks it took out.
Marker(k) ==
    CASE k = "bold" -> "**" [] k = "under" -> "_" [] k = "star" -> "*"
      [] k = "strike" -> "~~" [] k = "span" -> "'" [] OTHER -> ""

-----------------------------------------------------------------------------
(* tokenize, detokenizeText                                                *)

\* A piece in the tokenized source is itself or the seal of a token.
Plain(p) == [sealed |-> FALSE, of |-> p]
Seal(t)  == [sealed |-> TRUE, of |-> t]
\* characters of the user's stay as they are, and read as a seal
Tokenized_AsIs(p) == IF p = Forged THEN Seal(CHOOSE t \in Tokens : TRUE) ELSE IF p \in Tokens THEN Seal(p) ELSE Plain(p)
Tokenized(p) == IF p = Forged THEN Plain("replaced") ELSE IF p \in Tokens THEN Seal(p) ELSE Plain(p)

Detokenized(s) == [i \in DOMAIN s |-> s[i].of]

-----------------------------------------------------------------------------
(* walker: what is written so far, the section being filled (<<>>: none,   *)
(* or nothing in it yet) and the style in force.                           *)

NewWalker == [mr |-> <<>>, block |-> <<>>, section |-> <<>>, style |-> {}]

Wrote(w, s) == [w EXCEPT !.mr = @ \o s]
WithMark(w, mark) == Wrote(w, <<Plain(mark)>>)
Filled(w, element) == [w EXCEPT !.section = Append(@, element)]

FlushSection(w) ==
    [w EXCEPT !.block = IF w.section = <<>> THEN @ ELSE Append(@, [k |-> "section", of |-> w.section]),
              !.section = <<>>]

\* tokenElement: emoji are spelled out in code; broadcasts have no style
\* (they are not told from users here).
Element(w, p) ==
    IF ~ p.sealed \/ (p.of \in Emoji /\ "code" \in w.style)
    THEN [k |-> "text", of |-> <<p.of>>, style |-> w.style]
    ELSE [k |-> "token", of |-> <<p.of>>, style |-> w.style]

\* without a look at the style
Joined_Always(section, e) ==
    IF section # <<>> /\ e.k = "text" /\ Last(section).k = "text"
    THEN Front(section) \o <<[e EXCEPT !.of = Last(section).of \o @]>>
    ELSE Append(section, e)
\* Text joins the text before it when it looks the same (appendTextElement).
Joined(section, e) ==
    IF section # <<>> /\ e.k = "text" /\ Last(section).k = "text" /\ Last(section).style = e.style
    THEN Front(section) \o <<[e EXCEPT !.of = Last(section).of \o @]>>
    ELSE Append(section, e)

AppendText(w, p) ==
    [Wrote(w, <<p>>) EXCEPT !.section =
        IF p.sealed THEN Append(@, Element(w, p)) ELSE Joined(@, Element(w, p))]

OfKids(n, Op(_)) == FlattenSeq([i \in DOMAIN n.kids |-> Op(n.kids[i])])

\* collectInlineText, collectRawInline: the text below a node, without marks
\* and without the addresses the parser made links of by itself.
RECURSIVE TextBelow(_)
TextBelow(n) ==
    IF n.k = "text" THEN <<Tokenized(n.of)>>
    ELSE OfKids(n, TextBelow)

\* The lines of a node as they stand in the tokenized source.
RECURSIVE Lines(_)
Lines(n) ==
    CASE n.k = "text" -> <<Tokenized(n.of)>>
      [] n.k = "auto" -> <<Plain(n.of)>>
      [] n.k = "link" -> Append(OfKids(n, Lines), Plain(n.of))
      [] OTHER -> <<Plain(Marker(n.k))>> \o OfKids(n, Lines) \o <<Plain(Marker(n.k))>>

\* emphasisDelimiter reads the byte before the first text, less the marks of
\* the emphasis between: right when nothing but emphasis is between.
RECURSIVE Leads(_)
Leads(n) ==
    IF n.kids = <<>> THEN FALSE
    ELSE \/ n.kids[1].k = "text"
         \/ n.kids[1].k \in {"bold", "under", "star"} /\ Leads(n.kids[1])
EmphasisDelimiter(n) == IF n.k = "star" /\ Leads(n) THEN "*" ELSE "_"

\* the style stays on
Restored_Not(w, before) == w
\* The style is what it was before once the children are written.
Restored(w, before) == [w EXCEPT !.style = before.style]

HandleLink(w, n) ==
    LET label == OfKids(n, TextBelow)
    IN Filled(Wrote(WithMark(w, n.of), label), [k |-> "link", of |-> Detokenized(label), style |-> w.style])
HandleAutoLink(w, n) == Filled(WithMark(w, n.of), [k |-> "link", of |-> <<n.of>>, style |-> w.style])

RECURSIVE WalkInline(_, _)
WalkInlineChildren(w, n) == FoldLeft(WalkInline, w, n.kids)
Styled(w, n, mark, style) ==
    WithMark(Restored(WalkInlineChildren([WithMark(w, mark) EXCEPT !.style = @ \cup {style}], n), w), mark)
WalkInline(w, n) ==
    CASE n.k = "text"   -> AppendText(w, Tokenized(n.of))
      [] n.k = "bold"   -> Styled(w, n, "*", "bold")
      [] n.k = "strike" -> Styled(w, n, "~", "strike")
      [] n.k = "span"   -> Styled(w, n, "'", "code")
      [] n.k \in {"under", "star"} ->
            IF EmphasisDelimiter(n) = "_" THEN Styled(w, n, "_", "italic")
            ELSE AppendText(WalkInlineChildren(AppendText(w, Plain("*")), n), Plain("*"))
      [] n.k = "link"   -> HandleLink(w, n)
      [] n.k = "auto"   -> HandleAutoLink(w, n)
      [] n.k \in {"code", "html"} -> w        \* in a list item: no children
      [] OTHER          -> WalkInlineChildren(w, n)

-----------------------------------------------------------------------------
(* Blocks                                                                  *)

Verbatim(w, k, prefix, s) ==
    [Wrote(FlushSection(w), prefix \o s) EXCEPT
        !.block = Append(@, [k |-> k, of |-> <<[k |-> "text", of |-> Detokenized(prefix \o s), style |-> {}]>>])]

WalkCodeBlock(w, n)    == Verbatim(w, "pre", <<>>, OfKids(n, Lines))
WalkRawHTMLBlock(w, n) == Verbatim(w, "section", <<>>, OfKids(n, Lines))
WalkRawBlock(w, n) ==
    IF n.k = "heading"
    THEN Verbatim(w, "section", <<Plain("#")>>, OfKids(n, Lines))
    ELSE Verbatim(w, "section", <<Plain(">")>>, TextBelow(n))

\* A list is one element, its items in it; the lists nested in the items
\* follow it.  What comes after a nested list in an item goes into a section
\* nobody keeps.
RECURSIVE WalkList(_, _)
WalkListInto(st, n) ==
    LET w == WalkList([st.w EXCEPT !.block = <<>>], n)
    IN [w |-> [w EXCEPT !.block = st.w.block], item |-> IF st.kept THEN st.w.section ELSE st.item, kept |-> FALSE,
        nested |-> st.nested \o SelectSeq(w.block, LAMBDA e : e.k = "list")]
WalkSub(st, n) ==
    IF n.k = "list" THEN WalkListInto(st, n) ELSE [st EXCEPT !.w = WalkInline(@, n)]
WalkItem(st, n) ==
    LET start == [w |-> [WithMark(st.w, "item") EXCEPT !.section = <<>>], item |-> <<>>, kept |-> TRUE,
                  nested |-> st.nested]
        end   == FoldLeft(WalkSub, start, n.kids)
    IN [w |-> [end.w EXCEPT !.section = <<>>], nested |-> end.nested,
        items |-> st.items \o (IF end.kept THEN end.w.section ELSE end.item)]
WalkList(w, n) ==
    LET end == FoldLeft(WalkItem, [w |-> FlushSection(w), nested |-> <<>>, items |-> <<>>], n.kids)
    IN [end.w EXCEPT !.block = @ \o <<[k |-> "list", of |-> end.items]>> \o end.nested]

WalkBlock(w, n) ==
    CASE n.k = "para" -> FlushSection(WalkInlineChildren(FlushSection(w), n))
      [] n.k = "list" -> WalkList(w, n)
      [] n.k = "code" -> WalkCodeBlock(w, n)
      [] n.k = "html" -> WalkRawHTMLBlock(w, n)
      [] n.k \in {"heading", "quote"} -> WalkRawBlock(w, n)

Convert(d) ==
    LET w == FlushSection(FoldLeft(WalkBlock, NewWalker, d))
    IN [fallback |-> Detokenized(w.mr), block |-> w.block]

-----------------------------------------------------------------------------
MarkupInit == typed = <<>> /\ fallback = <<>> /\ block = <<>>

\* SendMessage, SendReply, EditMessage: the text is converted as it is sent.
SendText ==
    /\ typed = <<>>
    /\ \E d \in Typed :
        /\ typed' = d
        /\ fallback' = Convert(d).fallback
        /\ block' = Convert(d).block

MarkupNext == SendText
MarkupSpec == MarkupInit /\ [][MarkupNext]_markupVars

-----------------------------------------------------------------------------
(* What the user wrote: the pieces of a document in their order, each with *)
(* the formats around it.                                                  *)

Kept(p) == IF p = Forged THEN "replaced" ELSE p
Style(k) ==
    CASE k = "bold" -> {"bold"} [] k = "under" -> {"italic"} [] k = "strike" -> {"strike"}
      [] k = "span" -> {"code"} [] OTHER -> {}

RECURSIVE Meant(_, _)
Meant(n, style) ==
    CASE n.k = "text" -> <<<<Kept(n.of), style>>>>
      [] n.k = "auto" -> <<<<n.of, style>>>>
      [] OTHER -> LET in == IF n.k \in {"heading", "quote", "code", "html"} THEN {} ELSE style \cup Style(n.k)
                      sub(i) == IF n.k \in {"heading", "quote", "link"}
                                THEN [j \in DOMAIN Meant(n.kids[i], {}) |-> <<Meant(n.kids[i], {})[j][1], in>>]
                                ELSE Meant(n.kids[i], in)
                  IN FlattenSeq([i \in DOMAIN n.kids |-> sub(i)])
MeantBy(d) == FlattenSeq([i \in DOMAIN d |-> Meant(d[i], {})])

Pieces == PlainWords \cup Tokens \cup {"replaced"}
ElementsOf(b) == FlattenSeq([i \in DOMAIN b |-> b[i].of])
ShownBy(b) ==
    FlattenSeq([i \in DOMAIN ElementsOf(b) |->
        LET e == ElementsOf(b)[i]
        IN [j \in DOMAIN e.of |-> <<e.of[j], e.style>>]])
OnlyPieces(s) == SelectSeq(s, LAMBDA x : x \in Pieces)
Styled2(s) == SelectSeq(s, LAMBDA x : x[1] \in Pieces)
SameBag(s, t) ==
    \A x \in {s[i] : i \in DOMAIN s} \cup {t[i] : i \in DOMAIN t} :
        Cardinality({i \in DOMAIN s : s[i] = x}) = Cardinality({i \in DOMAIN t : t[i] = x})

\* What the walk is known to lose or to take for something else: an address in
\* a quotation, code in a list item, what follows a list nested in an item, and
\* the style of asterisks that do not stand before text.
RECURSIVE Nodes(_)
Nodes(n) == {n} \cup UNION {Nodes(n.kids[i]) : i \in DOMAIN n.kids}
Loses(n) ==
    \/ n.k = "quote" /\ (\E x \in Nodes(n) : x.k = "auto")
    \/ n.k = "item" /\ \E i \in DOMAIN n.kids :
            \/ n.kids[i].k \in {"code", "html"}
            \/ i < Len(n.kids) /\ n.kids[i].k = "list"
    \/ n.k = "star" /\ ~ Leads(n)

MarkupTypeOK ==
    /\ typed # <<>> => typed \in Typed
    /\ \A i \in DOMAIN ElementsOf(block) :
         ElementsOf(block)[i].style \subseteq {"bold", "italic", "strike", "code"}

\* The fallback says what was typed, piece by piece and in order, and so does
\* the block up to the place of nested lists, where each piece looks as the
\* formats around it ask: a style does not outlive the format that set it, a
\* mention stays the mention it was whatever it stands in, and characters that
\* only look like a seal name nobody (walk.go, tokens.go:69-76).  The styles
\* are the four Slack has.
MarkupKeepsTheText ==
    /\ MarkupTypeOK
    /\ typed # <<>> /\ (\A i \in DOMAIN typed : \A n \in Nodes(typed[i]) : ~ Loses(n)) =>
        LET meant == MeantBy(typed)
        IN /\ OnlyPieces(fallback) = [i \in DOMAIN meant |-> meant[i][1]]
           /\ SameBag(Styled2(ShownBy(block)), meant)
=============================================================================
