------------------------------ MODULE MCMarkup ------------------------------
(***************************************************************************)
(* The documents Markup is checked with: every format in every other, then *)
(* paragraphs, quotations, code and lists of them, nested once.            *)
(***************************************************************************)
EXTENDS Markup

Leaf == {Piece(p) : p \in {"w", "u", "e", "f"}}
Auto == [k |-> "auto", of |-> "url", kids |-> <<>>]
LinkTo(kids) == [k |-> "link", of |-> "href", kids |-> kids]

One(S) == {<<x>> : x \in S}
Two(S, T) == {<<x, y>> : x \in S, y \in T}
Formats(S) == {Around(k, x) : k \in {"bold", "under", "star", "strike"}, x \in S}
Spans == {Around("span", x) : x \in One(Leaf)}

\* Inline: nothing in anything, one format, formats in formats.
Bare  == Leaf \cup {Auto}
Plainly == Bare \cup Formats(One(Bare)) \cup {LinkTo(x) : x \in One(Leaf)} \cup Spans
Nested == Plainly \cup Formats(Two(Bare, Bare)) \cup Formats(One(Plainly))
          \cup {LinkTo(<<x>>) : x \in Formats(One(Leaf)) \cup Spans}
Small == {Piece("w"), Piece("u"), Around("bold", <<Piece("w")>>)}

\* Blocks: a list item is a paragraph, with a list, code or a quotation below.
Para(x) == Around("para", x)
RawBlocks(S) == {Around(k, <<x>>) : k \in {"heading", "quote"}, x \in S}
               \cup {Around(k, <<x>>) : k \in {"code", "html"}, x \in Leaf}
Bullets(items) == Around("list", [i \in DOMAIN items |-> Around("item", items[i])])
Simple == {Bullets(<<<<Para(<<x>>)>>>>) : x \in Small}
Items == {<<Para(<<x>>)>> : x \in Small}
         \cup {<<Para(<<x>>), l>> : x \in Small, l \in Simple}
         \cup {<<Para(<<x>>), l, Para(<<x>>)>> : x \in Small, l \in Simple}
         \cup {<<Para(<<x>>), y>> : x \in Small, y \in RawBlocks(Leaf)}
Lists == {Bullets(<<x>>) : x \in Items} \cup {Bullets(<<x, y>>) : x \in Items, y \in {z \in Items : Len(z) = 1}}
Blocks == {Para(x) : x \in One(Nested) \cup Two(Plainly, Plainly)} \cup RawBlocks(Plainly) \cup Lists
Few == {Para(<<x>>) : x \in Small} \cup Simple
       \cup {Around("quote", <<Piece("w")>>), Around("code", <<Piece("u")>>)}

Documents == One(Blocks) \cup Two(Few, Few)
=============================================================================
