------------------------------- MODULE Pages -------------------------------
(***************************************************************************)
(* What the fetchers of src/source make of a site's answer: one operator   *)
(* per source type, from an answer to the items of the check or to a       *)
(* failure.  The module has no state; PageWatch runs it.                   *)
(*                                                                         *)
(* An answer is                                                            *)
(*   [kind |-> "none"]         no usable response: transport error, status *)
(*                             other than 200, gh that exits with an error *)
(*   [kind |-> "html", nodes]  the elements of a page, in document order   *)
(*   [kind |-> "json", doc]    a JSON document                             *)
(*   [kind |-> "contents"...]  what `gh api .../contents/` prints          *)
(*   [kind |-> "windows", of]  the answers for the three trending pages    *)
(* Text is a string, compared whole; characters, whitespace and the byte   *)
(* caps on bodies are left out.  The text of an element includes that of   *)
(* the elements inside it, as extractText collects it.                     *)
(***************************************************************************)
EXTENDS Integers, Sequences, FiniteSets, SequencesExt

CONSTANTS
    MaxParts,   \* the page_llm cap on stored text, in text blocks
    Numbers,    \* the texts that strconv.Atoi accepts
    Times       \* the texts with a time of day in them

ASSUME PagesAssumption ==
    MaxParts \in Nat \ {0} /\ Numbers \cup Times \subseteq STRING

Failed == [ok |-> FALSE, items |-> <<>>]
Got(items) == [ok |-> TRUE, items |-> items]

Item(id, title, body, link) ==
    [id |-> id, title |-> title, body |-> body, link |-> link]
Plain(text) == Item(text, text, "", "")

\* The positions in I in ascending order, and the entries of s there.
Ascending(I) ==
    [k \in 1..Cardinality(I) |-> CHOOSE i \in I : Cardinality({j \in I : j <= i}) = k]
Kept(s, I) == [k \in 1..Cardinality(I) |-> s[Ascending(I)[k]]]

\* Of several items with one ID the first is kept.
Distinct(items) ==
    Kept(items, {i \in DOMAIN items : \A j \in 1..(i - 1) : items[j].id # items[i].id})

Nodes(answer) == IF answer.kind = "html" THEN answer.nodes ELSE <<>>

-----------------------------------------------------------------------------
\* html and page_llm: the texts of the elements a tag.class selector matches.

Matches(selector, node) ==
    node.tag = selector.tag /\ selector.classes \subseteq node.classes

Texts(selector, nodes) ==
    LET hits == Kept(nodes, {i \in DOMAIN nodes : /\ Matches(selector, nodes[i])
                                                 /\ nodes[i].text # ""})
    IN  [i \in DOMAIN hits |-> hits[i].text]

Listing(selector, nodes) ==
    LET texts == Texts(selector, nodes)
    IN  Distinct([i \in DOMAIN texts |-> Plain(texts[i])])

FetchHTML(src, answer) ==
    LET items == Listing(src.selector, Nodes(answer))
    IN  IF items = <<>> THEN Failed ELSE Got(items)

\* The distinct texts become one item; what is beyond the cap is replaced
\* by a mark, so that a change there is no change of the item.
FetchPage(src, answer) ==
    LET parts == Listing(src.selector, Nodes(answer))
        texts == [i \in DOMAIN parts |-> parts[i].id]
        text  == IF Len(texts) <= MaxParts THEN texts
                 ELSE Append(SubSeq(texts, 1, MaxParts), "(truncated)")
    IN  IF parts = <<>> THEN Failed ELSE Got(<<Plain(text)>>)

-----------------------------------------------------------------------------
\* json and json_value.  A JSON value is an object, an array, a text, a
\* number (a whole one, below 2^53) or null.

Missing == [kind |-> "missing"]

Descend(value, step) ==
    CASE /\ step.kind = "key" /\ value.kind = "object"
         /\ step.key \in DOMAIN value.fields -> value.fields[step.key]
      [] /\ step.kind = "index" /\ value.kind = "array"
         /\ step.index < Len(value.elems) -> value.elems[step.index + 1]
      [] OTHER -> Missing

Walk(doc, path) == FoldLeft(Descend, doc, path)

Leaf(answer, path) ==
    IF answer.kind # "json" THEN Missing ELSE Walk(answer.doc, path)

\* Objects, arrays and null have no text.
ScalarText(value) ==
    CASE value.kind = "text"   -> value.text
      [] value.kind = "number" -> ToString(value.number)
      [] OTHER                 -> ""

Field(object, name) ==
    IF name \in DOMAIN object.fields THEN ScalarText(object.fields[name]) ELSE ""

\* Slip: an entry without an ID is kept.
FetchJSONKeepsAll(src, answer) ==
    LET leaf    == Leaf(answer, src.path)
        entries == Kept(leaf.elems,
                        {i \in DOMAIN leaf.elems : leaf.elems[i].kind = "object"})
    IN  IF leaf.kind # "array" THEN Failed
        ELSE Got(Distinct([i \in DOMAIN entries |-> Plain(Field(entries[i], "id"))]))

\* Entries that are no objects, or have no usable ID, are skipped; an array
\* that holds nothing else is an empty list and no failure.
FetchJSON(src, answer) ==
    LET leaf    == Leaf(answer, src.path)
        usable  == {i \in DOMAIN leaf.elems : /\ leaf.elems[i].kind = "object"
                                              /\ Field(leaf.elems[i], "id") # ""}
        entries == Kept(leaf.elems, usable)
        Entry(e) == Item(Field(e, "id"),
                         IF Field(e, "name") # "" THEN Field(e, "name") ELSE Field(e, "id"),
                         "", Field(e, "link"))
    IN  IF leaf.kind # "array" THEN Failed
        ELSE Got(Distinct([i \in DOMAIN entries |-> Entry(entries[i])]))

\* A null leaf passes for the empty text.
FetchJSONValue(src, answer) ==
    LET leaf == Leaf(answer, src.path)
    IN  IF leaf.kind \in {"missing", "object", "array"} THEN Failed
        ELSE Got(<<Plain(ScalarText(leaf))>>)

-----------------------------------------------------------------------------
\* nfvl: a schedule of date headings and rows of cells.  A cell has a text
\* and the name of the team it links to, "" without such a link.

Score(cell) == IF cell.text \in Numbers THEN cell.text ELSE "-"

\* The away team is in the second cell, or in the third of a row of the older
\* layout, which has a game number in the second.
AwayCell(cells) == IF Len(cells) >= 7 /\ cells[2].text \in Numbers THEN 3 ELSE 2

IsGame(row) ==
    /\ Len(row.cells) >= 6
    /\ row.cells[AwayCell(row.cells)].team # ""
    /\ row.cells[AwayCell(row.cells) + 2].team # ""

ParseRow(row, date) ==
    LET a      == AwayCell(row.cells)
        scores == <<Score(row.cells[a + 1]), Score(row.cells[a + 3])>>
        result == row.cells[1].text
        status == IF scores # <<"-", "-">> THEN "Final"
                  ELSE IF result = "Final" THEN "Final (no scores)"
                  ELSE IF result \in Times THEN result ELSE "Scheduled"
    IN  [date |-> date, status |-> status, scores |-> scores,
         away |-> row.cells[a].team, home |-> row.cells[a + 2].team,
         gameID |-> row.gameID]

\* A row belongs to the last heading above it.
DateAbove(nodes, i) ==
    LET heads == {j \in 1..(i - 1) : nodes[j].tag = "h5" /\ nodes[j].text # ""}
    IN  IF heads = {} THEN "Unknown" ELSE nodes[Max(heads)].text

ParseSchedule(nodes) ==
    LET rows == Ascending({i \in DOMAIN nodes : nodes[i].tag = "tr" /\ IsGame(nodes[i])})
    IN  [k \in DOMAIN rows |-> ParseRow(nodes[rows[k]], DateAbove(nodes, rows[k]))]

\* Slip: the status is part of the key.
GameKeyWithStatus(game) == <<"nfvl", game.date, game.away, game.home, game.status>>

\* The boxscore's game ID once the row links to it, before that the date and
\* the teams.
GameKey(game) ==
    IF game.gameID # 0 THEN <<"nfvl", game.gameID>>
    ELSE <<"nfvl", game.date, game.away, game.home>>

GameItem(game) ==
    Item(GameKey(game), <<game.date, game.status, game.away, game.home>>,
         game.scores, IF game.gameID # 0 THEN "boxscore" ELSE "schedule")

\* Slip: a page without a game is taken for an empty schedule.
FetchNFVLBlank(src, answer) ==
    LET games == ParseSchedule(Nodes(answer))
    IN  IF answer.kind = "none" THEN Failed
        ELSE Got([i \in DOMAIN games |-> GameItem(games[i])])

FetchNFVL(src, answer) ==
    LET games == ParseSchedule(Nodes(answer))
    IN  IF games = <<>> THEN Failed
        ELSE Got([i \in DOMAIN games |-> GameItem(games[i])])

-----------------------------------------------------------------------------
\* amazon: the milestones of a shipment.  The step is the last one marked as
\* reached; the percent is that of the first labelled milestone that is not
\* reached, has one and comes after a reached one, its own when there is none.

Progress(milestones) ==
    LET labelled == {i \in DOMAIN milestones : milestones[i].label # ""}
        reached  == {i \in labelled : milestones[i].reached}
        ahead    == {i \in labelled \ reached : /\ milestones[i].percent # ""
                                                /\ \E j \in reached : j < i}
    IN  IF reached = {} THEN [step |-> "", percent |-> ""]
        ELSE [step    |-> milestones[Max(reached)].label,
              percent |-> milestones[IF ahead = {} THEN Max(reached) ELSE Min(ahead)].percent]

FetchAmazon(src, answer) ==
    LET nodes  == Nodes(answer)
        lists  == Kept(nodes, {i \in DOMAIN nodes :
                                   "pt-status-milestones" \in nodes[i].classes})
        seen   == Progress(lists[1].milestones)
        value  == <<seen.step, lists[1].count, seen.percent>>
    IN  IF lists = <<>> \/ lists[1].text = "" \/ seen.step = "" THEN Failed
        ELSE Got(<<Item(value, value, lists[1].text, "")>>)

-----------------------------------------------------------------------------
\* github_trending: three pages of articles; an article's repo has its
\* lowercased name and the name as the link spells it.

TrendingWindows == <<"daily", "weekly", "monthly">>

Repos(answer, window) ==
    LET nodes == Nodes(answer)
        rows  == Kept(nodes, {i \in DOMAIN nodes : nodes[i].tag = "article"
                                                  /\ nodes[i].repo # ""})
    IN  [i \in DOMAIN rows |-> Item(rows[i].repo, rows[i].text, window, "repo")]

\* One window that cannot be read fails the check.
FetchTrending(src, answer) ==
    LET pages == [i \in DOMAIN TrendingWindows |->
                     Repos(answer.of[i], TrendingWindows[i])]
    IN  IF answer.kind # "windows" \/ \E i \in DOMAIN pages : pages[i] = <<>>
        THEN Failed ELSE Got(Distinct(pages[1] \o pages[2] \o pages[3]))

-----------------------------------------------------------------------------
\* github_file: the blob's SHA, or a hash of the content when there is none.

FetchFile(src, answer) ==
    LET id == IF answer.sha # "" THEN <<"sha", answer.sha>>
              ELSE <<"sha256", answer.content>>
    IN  IF \/ answer.kind # "contents" \/ answer.type # "file"
           \/ answer.encoding \notin {"base64", ""}
        THEN Failed ELSE Got(<<Item(id, src.path, answer.content, "")>>)

-----------------------------------------------------------------------------
Fetch(src, answer) ==
    CASE src.type = "html"            -> FetchHTML(src, answer)
      [] src.type = "page_llm"        -> FetchPage(src, answer)
      [] src.type = "json"            -> FetchJSON(src, answer)
      [] src.type = "json_value"      -> FetchJSONValue(src, answer)
      [] src.type = "nfvl"            -> FetchNFVL(src, answer)
      [] src.type = "amazon"          -> FetchAmazon(src, answer)
      [] src.type = "github_trending" -> FetchTrending(src, answer)
      [] src.type = "github_file"     -> FetchFile(src, answer)
      [] OTHER                        -> Failed
=============================================================================
