----------------------------- MODULE MCDisplay ------------------------------
(***************************************************************************)
(* The messages Display is checked with: each way a text, a quotation, a   *)
(* list, blocks, attachments and files come together in what Slack sends.  *)
(***************************************************************************)
EXTENDS Display

LOCAL Words(x) == [i \in DOMAIN x |-> Tok(x[i])]
Texts == {<<>>, Words(<<"w">>), Words(<<"url">>), Words(<<"me">>),
          Words(<<"group", "w">>), Words(<<"url", "here">>)}

\* Blocks of rich text hold the text of the message; apps send Block Kit.
RichOf(t) == {<<>>} \cup
    (IF t = <<>> THEN {} ELSE {<<[k |-> k, of |-> t]>> : k \in {"section", "quote", "pre", "item"}})
Section == [k |-> "section", of |-> "s"]
Kits == {<<>>, <<Section>>, <<Section, [k |-> "section", of |-> "me"]>>, <<Section, [k |-> "ack", of |-> "b"]>>,
         <<[k |-> "image", of |-> ""]>>, <<[k |-> "button", of |-> "b"]>>}

Att(share, title, text, url, image, kit) ==
    [share |-> share, title |-> title, text |-> text, url |-> url, image |-> image, kit |-> kit]
Shared == Att(TRUE, "", "q", "url", FALSE, <<>>)
Attachments == {
    <<>>, <<Shared>>,
    <<Att(FALSE, "title", "", "url", TRUE, <<>>)>>,
    <<Att(FALSE, "", "", "url", FALSE, <<>>)>>,
    <<Att(FALSE, "", "", "", TRUE, <<>>)>>,
    <<Att(FALSE, "", "fallback", "", FALSE, <<Section>>)>>,
    <<Att(FALSE, "title", "", "url", FALSE, <<>>), Att(TRUE, "", "q", "", FALSE, <<>>)>>}

HasKit(m) == m.kit # <<>> \/ \E i \in DOMAIN m.atts : m.atts[i].kit # <<>>

\* An app's message is the app's, and mentions whom its blocks mention.
SlackMessages ==
    {m \in [text : Texts, rich : UNION {RichOf(t) : t \in Texts}, kit : Kits,
            atts : Attachments, files : 0..1, bot : BOOLEAN] :
        /\ m.rich \in RichOf(m.text) /\ m.bot = HasKit(m)
        /\ m.bot => /\ m.rich = <<>>
                    /\ \A i \in DOMAIN m.text : m.text[i].t \in Counting => InKit(m.kit, m.text[i].t)}
=============================================================================
