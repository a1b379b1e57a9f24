------------------------------ MODULE SearchStore ------------------------------
(***************************************************************************)
(* The message database as it is opened, migrated and searched             *)
(* (internal/cache/db.go, messages.go, search.go).  Opening runs one       *)
(* statement after the other, any of which may be the last before the      *)
(* program stops; the search index is a table of its own that three        *)
(* triggers keep in step with messages.text.                               *)
(*                                                                         *)
(* A text is the set of its words, a query the set of its terms, and       *)
(* Starts and Within say which terms begin or occur in which words.        *)
(***************************************************************************)
EXTENDS Naturals, FiniteSets

CONSTANTS
    Stamps,        \* messages of a channel, by timestamp
    Replies,       \* those that are plain thread replies
    Words, Terms,
    Texts,         \* texts that occur: sets of words
    Starts,        \* <<term, word>>: the word begins with the term
    Within,        \* the same for LIKE: the term occurs in the word
    Columns,       \* columns that later versions added
    MaxStoreStarts,     \* bound: starts of the program
    MaxWrites      \* bound: messages written, edited or deleted

ASSUME SearchAssumption ==
    /\ Replies \subseteq Stamps /\ Texts \subseteq SUBSET Words
    /\ Starts \subseteq Within /\ Within \subseteq Terms \X Words
    /\ {MaxStoreStarts, MaxWrites} \subseteq Nat

VARIABLES
    storedTexts,    \* rows: timestamps to [text, deleted]
    added,       \* columns there are
    searchIndex,       \* messages_fts: <<timestamp, text>>; triggers are there with it
    hasIndex,    \* messages_fts exists
    driver,      \* the driver was built with FTS5
    open,        \* "closed", "columns", "search" or "open"
    ftsDisabled,
    starts, writes

storeVars == <<storedTexts, added, searchIndex, hasIndex, driver, open, ftsDisabled, starts, writes>>

\* --- defective variants, for mutation runs ---
\* the update trigger does not take the old text out
Trigger_KeepsOld(ts, text) == searchIndex \cup {<<ts, text>>}

-----------------------------------------------------------------------------
(* New, migrate                                                            *)

OpenStore ==
    /\ open = "closed" /\ starts < MaxStoreStarts /\ starts' = starts + 1
    /\ open' = "columns" /\ ftsDisabled' = FALSE
    /\ UNCHANGED <<storedTexts, added, searchIndex, hasIndex, driver, writes>>

\* addColumnIfMissing probes first: adding a column twice is an error.
Missing(c) == c \notin added

AddColumn ==
    /\ open = "columns"
    /\ IF \E c \in Columns : Missing(c)
       THEN \E c \in Columns : Missing(c) /\ added' = added \cup {c} /\ UNCHANGED open
       ELSE open' = "search" /\ UNCHANGED added
    /\ UNCHANGED <<storedTexts, searchIndex, hasIndex, driver, ftsDisabled, starts, writes>>

\* migrateSearch: table, triggers and the rows there are, in one transaction.  If it
\* fails, searching degrades and opening goes on.
MigrateSearch ==
    /\ open = "search" /\ open' = "open"
    /\ hasIndex' = (hasIndex \/ driver)
    /\ searchIndex' = IF hasIndex \/ ~driver THEN searchIndex
                ELSE {<<ts, storedTexts[ts].text>> : ts \in DOMAIN storedTexts}
    /\ ftsDisabled' = ~hasIndex'
    /\ UNCHANGED <<storedTexts, added, driver, starts, writes>>

Stop ==
    /\ open # "closed" /\ open' = "closed"
    /\ UNCHANGED <<storedTexts, added, searchIndex, hasIndex, driver, ftsDisabled, starts, writes>>

-----------------------------------------------------------------------------
(* Rows                                                                    *)

\* messages_fts_au, for a row that is there; messages_fts_ai otherwise.
Trigger(ts, text) == {e \in searchIndex : e[1] # ts} \cup {<<ts, text>>}

UpsertMessage(ts, text) ==
    /\ open = "open" /\ writes < MaxWrites /\ writes' = writes + 1
    /\ storedTexts' = [t \in DOMAIN storedTexts \cup {ts} |->
                      IF t = ts THEN [text |-> text, deleted |-> FALSE] ELSE storedTexts[t]]
    /\ searchIndex' = IF hasIndex THEN Trigger(ts, text) ELSE searchIndex
    /\ UNCHANGED <<added, hasIndex, driver, open, ftsDisabled, starts>>

\* Only is_deleted changes: no trigger.
DeleteMessage(ts) ==
    /\ open = "open" /\ writes < MaxWrites /\ writes' = writes + 1
    /\ ts \in DOMAIN storedTexts
    /\ storedTexts' = [storedTexts EXCEPT ![ts].deleted = TRUE]
    /\ UNCHANGED <<added, searchIndex, hasIndex, driver, open, ftsDisabled, starts>>

-----------------------------------------------------------------------------
(* SearchChannelMessages                                                   *)

\* buildFTSQuery, and the LIKE clauses: every term, of which there is one.
Matches(text, query, relation) ==
    query # {} /\ \A t \in query : \E w \in text : <<t, w>> \in relation

\* The feed: top level and broadcast rows that are not deleted.
InFeed(ts) == ts \in DOMAIN storedTexts /\ ts \notin Replies /\ ~storedTexts[ts].deleted

SearchChannelMessages(query) ==
    IF ftsDisabled
    THEN {ts \in DOMAIN storedTexts : InFeed(ts) /\ Matches(storedTexts[ts].text, query, Within)}
    ELSE {ts \in Stamps : \E e \in searchIndex :
            e[1] = ts /\ Matches(e[2], query, Starts) /\ InFeed(ts)}

-----------------------------------------------------------------------------
StoreInit ==
    /\ storedTexts = [ts \in {} |-> 0] /\ searchIndex = {} /\ hasIndex = FALSE
    /\ added \in SUBSET Columns /\ driver \in BOOLEAN
    /\ open = "closed" /\ ftsDisabled = FALSE /\ starts = 0 /\ writes = 0

StoreNext ==
    \/ OpenStore \/ AddColumn \/ MigrateSearch \/ Stop
    \/ \E ts \in Stamps : DeleteMessage(ts) \/ \E text \in Texts : UpsertMessage(ts, text)

StoreSpec == StoreInit /\ [][StoreNext]_storeVars

-----------------------------------------------------------------------------
(* Properties                                                              *)

StoreTypeOK ==
    /\ DOMAIN storedTexts \subseteq Stamps /\ added \subseteq Columns
    /\ searchIndex \subseteq Stamps \X Texts
    /\ {hasIndex, driver, ftsDisabled} \subseteq BOOLEAN

\* Whatever was written, edited, deleted and revived, and wherever opening was cut
\* short before, an open database has every column and a search finds the messages of
\* the feed that hold the terms now, and no other (search.go:40-118, db.go:77-271).
SearchFinds ==
    open = "open" =>
        /\ added = Columns
        /\ \A query \in SUBSET Terms :
             SearchChannelMessages(query) =
                {ts \in Stamps : InFeed(ts) /\
                    Matches(storedTexts[ts].text, query, IF ftsDisabled THEN Within ELSE Starts)}
=============================================================================
