----------------------------- MODULE PageWatch -----------------------------
(***************************************************************************)
(* One source, the site it watches and its checks: fetch, difference,      *)
(* notice, baseline.  Pages and Notices have the fetchers' operators; the  *)
(* steps here are runOnce's and check.One's for a publish that is accepted *)
(* and a state that stays in memory (Checker has failed publishes, saves   *)
(* and crashes; Trending has the expiry of sightings, which needs more     *)
(* time than passes here).                                                 *)
(*                                                                         *)
(* The site is what its owner would say is on it.  Render is the page it   *)
(* serves of that, noise included; instead of it a check may be answered   *)
(* with an outage: no response, a sign-in or bot-check page, a document of *)
(* another shape.  Content says, without looking at the page, which items  *)
(* a reader of the source's documentation would expect.                    *)
(***************************************************************************)
EXTENDS Notices

CONSTANTS
    Watched,       \* the sources to watch, one per behaviour
    Entries,       \* the texts of a list's entries; "" for a blank one
    MaxEntries,    \* bound on the entries of a page
    Games,         \* records [date, away, home, number] of a schedule
    Milestones,    \* the steps of a shipment, in order
    Percents,      \* what the page says of the step under way
    Repositories,  \* the lowercased names of repos
    Replies,       \* what a model may reply
    MaxAnnounced,  \* cap of the history counter announced
    NoBaseline

ASSUME PageWatchAssumption ==
    /\ MaxEntries \in Nat /\ MaxAnnounced \in Nat
    /\ \A r \in Replies : r.blocks \in Seq([type : STRING, text : STRING])

\* The sites: teams have names, dates are dates, a boxscore's number is not 0,
\* repos have names, and a shipment's page says something of each step.
ASSUME SitesAssumption ==
    /\ Entries \subseteq STRING
    /\ \A text \in Entries \cap Numbers : \E n \in 0..9 : ToString(n) = text
    /\ IsFiniteSet(Games)
    /\ Games \subseteq [date : STRING \ {""}, away : STRING \ {""}, home : STRING \ {""},
                        number : Nat \ {0}]
    /\ "7" \in Numbers
    /\ Milestones \in Seq(STRING \ {""})
    /\ Percents \subseteq STRING \ {""}
    /\ IsFiniteSet(Repositories) /\ "" \notin Repositories

VARIABLES
    source,     \* the configured source
    site,       \* what is on its site
    baseline,   \* SourceState.Baseline.ItemsSeen, or NoBaseline
    notice,     \* what the last check published
    reply,      \* the model's reply to the last check
    \* History.
    known,      \* the content of the last page of the site that was served
    before,     \* known, before the last check
    announced   \* per date and teams, how often a game was announced

vars == <<source, site, baseline, notice, reply, known, before, announced>>

-----------------------------------------------------------------------------
\* Sites.  The lists hold entries, in any order and more than once.

Lists == {"html", "json", "page_llm"}
Matchups == {[date |-> g.date, away |-> g.away, home |-> g.home] : g \in Games}
Stages == <<"absent", "posted", "final", "linked">>
Schedules == [stage : [Games -> 1..4], older : BOOLEAN]
Shipments == [step : DOMAIN Milestones, percent : Percents]

Sites(type) ==
    CASE type \in Lists           -> BoundedSeq(Entries, MaxEntries)
      [] type = "json_value"      -> Entries
      [] type = "github_file"     -> Entries \ {""}
      [] type = "nfvl"            -> Schedules
      [] type = "amazon"          -> Shipments
      [] type = "github_trending" -> [1..3 -> SUBSET Repositories]

\* An entry comes, goes or is replaced, one window of trending changes, games
\* are posted, played and linked to a boxscore one at a time, a shipment moves
\* on; several changes may lie between two checks.
Edited(old, new) ==
    \/ Len(new) = Len(old) + 1 /\ SubSeq(new, 1, Len(old)) = old
    \/ \E i \in DOMAIN old : new = RemoveAt(old, i)
    \/ /\ Len(new) = Len(old)
       /\ Cardinality({i \in DOMAIN old : new[i] # old[i]}) = 1

MayBecome(type, old, new) ==
    CASE type \in Lists           -> Edited(old, new)
      [] type = "github_trending" -> Cardinality({w \in 1..3 : new[w] # old[w]}) = 1
      [] type = "nfvl"            ->
             /\ \A g \in Games : new.stage[g] >= old.stage[g]
             /\ Cardinality({g \in Games : new.stage[g] # old.stage[g]}) <= 1
             /\ old.older \/ ~new.older
      [] type = "amazon"          -> new.step >= old.step
      [] OTHER                    -> new # old

\* A page of a list: a menu entry, and an element of the right tag without
\* the class, besides the entries.
Element(tag, classes, text) == [tag |-> tag, classes |-> classes, text |-> text]
ListPage(entries) ==
    <<Element("nav", {"attachedfile"}, "menu"), Element("li", {}, "menu")>>
    \o [i \in DOMAIN entries |-> Element("li", {"attachedfile", "new"}, entries[i])]

Object(fields) == [kind |-> "object", fields |-> fields]
Value(text) ==
    IF text = "" THEN [kind |-> "null"]
    ELSE IF text \in Numbers
         THEN [kind |-> "number", number |-> CHOOSE n \in 0..9 : ToString(n) = text]
         ELSE [kind |-> "text", text |-> text]

\* An array of objects, with a bare number in front.
JSONPage(entries) ==
    [kind |-> "array",
     elems |-> <<[kind |-> "number", number |-> 0]>>
               \o [i \in DOMAIN entries |-> Object([id |-> Value(entries[i])])]]

\* A schedule: per date a heading and the rows of its games, scores once
\* played; the older layout has a game number, the present one does not.
Cell(text, team) == [text |-> text, team |-> team]
Row(g, stage, older) ==
    LET played == Stages[stage] \in {"final", "linked"}
        score  == IF played THEN "2" ELSE ""
        cells  == <<Cell(g.away, g.away), Cell(score, ""), Cell(g.home, g.home),
                    Cell(score, ""), Cell("gym", "")>>
    IN  [tag |-> "tr", gameID |-> IF Stages[stage] = "linked" THEN g.number ELSE 0,
         cells |-> <<Cell(IF played THEN "Final" ELSE "8:15 PM", "")>>
                   \o (IF older THEN <<Cell("7", "")>> ELSE <<>>) \o cells]
HeaderRow == [tag |-> "tr", gameID |-> 0, cells |-> [i \in 1..7 |-> Cell("head", "")]]
SchedulePage(schedule) ==
    LET posted(d) == SetToSeq({g \in Games : g.date = d /\ schedule.stage[g] > 1})
        Day(d) == <<[tag |-> "h5", text |-> d], HeaderRow>>
                  \o [i \in DOMAIN posted(d) |->
                         Row(posted(d)[i], schedule.stage[posted(d)[i]], schedule.older)]
        dates == SetToSeq({g.date : g \in Games})
    IN  FlattenSeq([i \in DOMAIN dates |-> Day(dates[i])])

\* The steps reached are full, but only the last is marked; the one under way
\* has the percent.
StepCount(k) == "Step " \o ToString(k)
ShipmentPage(s) ==
    <<[tag |-> "div", classes |-> {"pt-status-milestones"}, text |-> "Delivery status",
       count |-> StepCount(s.step),
       milestones |-> [k \in DOMAIN Milestones |->
           [label |-> Milestones[k], reached |-> k = s.step,
            percent |-> IF k <= s.step THEN "100"
                        ELSE IF k = s.step + 1 THEN s.percent ELSE "0"]]]>>

\* The weekly page spells names its own way; an article may have no link.
TrendingPage(repos, window) ==
    LET names == SetToSeq(repos)
    IN  <<[tag |-> "article", repo |-> "", text |-> ""]>>
        \o [i \in DOMAIN names |->
               [tag |-> "article", repo |-> names[i], text |-> <<names[i], window = 2>>]]

Page(nodes) == [kind |-> "html", nodes |-> nodes]

Render ==
    CASE source.type \in {"html", "page_llm"} -> Page(ListPage(site))
      [] source.type = "json"        -> [kind |-> "json", doc |-> Object([data |-> JSONPage(site)])]
      [] source.type = "json_value"  ->
             [kind |-> "json", doc |-> [kind |-> "array", elems |-> <<Object([data |-> Value(site)])>>]]
      [] source.type = "nfvl"        -> Page(SchedulePage(site))
      [] source.type = "amazon"      -> Page(ShipmentPage(site))
      [] source.type = "github_trending" ->
             [kind |-> "windows", of |-> [w \in 1..3 |-> Page(TrendingPage(site[w], w))]]
      [] source.type = "github_file" ->
             [kind |-> "contents", type |-> "file", content |-> site,
              sha |-> IF source.sha THEN site ELSE "",
              encoding |-> IF source.sha THEN "base64" ELSE ""]

NoAnswer == [kind |-> "none"]
Challenge == Page(<<Element("script", {}, "are you human?")>>)
OtherDocument == [kind |-> "json", doc |-> Object([error |-> Value("busy")])]

\* The trending site may fail on one of its pages.
Outages ==
    CASE source.type = "github_trending" ->
             {NoAnswer} \cup {[Render EXCEPT !.of[w] = a] : w \in 1..3, a \in {NoAnswer, Challenge}}
      [] source.type = "github_file" ->
             {NoAnswer, [Render EXCEPT !.type = "dir"], [Render EXCEPT !.encoding = "none"]}
      [] OTHER -> {NoAnswer, Challenge, OtherDocument}

-----------------------------------------------------------------------------
\* What the reader expects of a site, or that its page has nothing to watch.

TextOf(entries) ==
    LET firsts == {i \in DOMAIN entries : /\ entries[i] # ""
                                          /\ \A j \in 1..(i - 1) : entries[j] # entries[i]}
        texts  == Kept(entries, firsts)
    IN  IF Len(texts) > MaxParts THEN Append(SubSeq(texts, 1, MaxParts), "(truncated)") ELSE texts

Content ==
    CASE source.type \in {"html", "json"}  -> ToSet(site) \ {""}
      [] source.type = "page_llm"          -> {TextOf(site)} \ {<<>>}
      [] source.type = "json_value"        -> {site}
      [] source.type = "github_file"       -> {<<IF source.sha THEN "sha" ELSE "sha256", site>>}
      [] source.type = "github_trending"   -> UNION {site[w] : w \in 1..3}
      [] source.type = "nfvl"              ->
             {IF Stages[site.stage[g]] = "linked" THEN <<"nfvl", g.number>>
              ELSE <<"nfvl", g.date, g.away, g.home>> : g \in {h \in Games : site.stage[h] > 1}}
      [] source.type = "amazon"            ->
             {<<Milestones[site.step], StepCount(site.step),
                IF site.step = Len(Milestones) THEN "100" ELSE site.percent>>}

HasContent ==
    CASE source.type = "json"            -> TRUE
      [] source.type = "github_trending" -> \A w \in 1..3 : site[w] # {}
      [] OTHER                           -> Content # {}

-----------------------------------------------------------------------------
\* The sources are of the eight types, and configured for the sites above.
Key(k) == [kind |-> "key", key |-> k]
First == [kind |-> "index", index |-> 0]

ASSUME WatchedAssumption ==
    \A s \in Watched :
        /\ s.type \in {"html", "page_llm", "json", "json_value", "nfvl", "amazon",
                       "github_trending", "github_file"}
        /\ s.ignore_removals \in BOOLEAN /\ s.sha \in BOOLEAN
        /\ s.type \in {"html", "page_llm"} =>
              /\ s.selector.tag = "li"
              /\ s.selector.classes # {} /\ s.selector.classes \subseteq {"attachedfile", "new"}
        /\ s.type = "json" => s.path = <<Key("data")>>
        /\ s.type = "json_value" => s.path = <<First, Key("data")>>

\* Having no baseline is not having the IDs of some games as one.
GameKeys ==
    {<<"nfvl", g.number>> : g \in Games}
    \cup {<<"nfvl", g.date, g.away, g.home>> : g \in Games}

ASSUME NoBaselineAssumption == \A ids \in SUBSET GameKeys : NoBaseline # ids

-----------------------------------------------------------------------------
Init ==
    /\ source \in Watched
    /\ site \in Sites(source.type)
    /\ baseline = NoBaseline /\ known = NoBaseline /\ before = NoBaseline
    /\ notice = Silence
    /\ reply = NoAnswer
    /\ announced = [m \in Matchups |-> 0]

SiteChanges ==
    /\ \E new \in Sites(source.type) :
           /\ MayBecome(source.type, site, new)
           /\ site' = new
    /\ UNCHANGED <<source, baseline, notice, reply, known, before, announced>>

\* History: known follows the pages the site itself served.  A check that
\* failed before any succeeded counts as having seen an empty page, because
\* RecordError leaves an empty baseline.
Witness(own) ==
    /\ before' = known
    /\ known' = CASE ~own /\ known = NoBaseline -> {}
                  [] ~own /\ known # NoBaseline -> known
                  [] own /\ source.type = "github_trending" /\ known # NoBaseline ->
                         known \cup Content
                  [] OTHER -> Content

AddedOf(items) == Kept(items, {i \in DOMAIN items : items[i].id \notin baseline})
IdsOf(items) == {items[i].id : i \in DOMAIN items}

\* RecordError: the baseline is kept; a source without one gets an empty one.
FetchFails(answer) ==
    /\ ~Fetch(source, answer).ok
    /\ baseline' = IF baseline = NoBaseline THEN {} ELSE baseline
    /\ notice' = Silence
    /\ reply' = NoAnswer
    /\ UNCHANGED announced

FirstRun(answer) ==
    /\ Fetch(source, answer).ok
    /\ baseline = NoBaseline
    /\ baseline' = IdsOf(Fetch(source, answer).items)
    /\ notice' = Silence
    /\ reply' = NoAnswer
    /\ UNCHANGED announced

Announce(added) ==
    announced' = [m \in Matchups |->
        LET now == announced[m]
                   + Cardinality({i \in DOMAIN added : /\ added[i].title[1] = m.date
                                                       /\ added[i].title[3] = m.away
                                                       /\ added[i].title[4] = m.home})
        IN  IF now > MaxAnnounced THEN MaxAnnounced ELSE now]

\* oneTrending: the repos never seen are announced and stay seen.
TrendingCheck(answer) ==
    LET result == Fetch(source, answer)
        added  == AddedOf(result.items)
    IN  /\ result.ok /\ baseline # NoBaseline /\ source.type = "github_trending"
        /\ baseline' = baseline \cup IdsOf(result.items)
        /\ notice' = IF added = <<>> THEN Silence ELSE Format(source, added, <<>>, NoAnswer)
        /\ reply' = NoAnswer
        /\ UNCHANGED announced

\* One: the items and the baseline are compared, and the baseline becomes the
\* items.  The removed IDs come in any order, from a map; only page_llm asks a
\* model.
DiffCheck(answer) ==
    LET result  == Fetch(source, answer)
        ids     == IdsOf(result.items)
        added   == AddedOf(result.items)
        gone    == baseline \ ids
        dropped == added = <<>> /\ (gone = {} \/ source.ignore_removals)
        hidden  == source.ignore_removals /\ source.type \in {"html", "json"}
    IN  /\ result.ok /\ baseline # NoBaseline /\ source.type # "github_trending"
        /\ baseline' = ids
        /\ \E r \in (IF source.type = "page_llm" /\ ~dropped THEN Replies ELSE {NoAnswer}),
              order \in SetToSeqs(gone) :
               LET removed == IF hidden THEN <<>>
                              ELSE [i \in DOMAIN order |-> Plain(order[i])]
               IN  /\ notice' = IF dropped THEN Silence ELSE Format(source, added, removed, r)
                   /\ reply' = r
        /\ IF source.type = "nfvl" THEN Announce(added) ELSE UNCHANGED announced

Check(answer, own) ==
    /\ \/ FetchFails(answer)
       \/ FirstRun(answer)
       \/ TrendingCheck(answer)
       \/ DiffCheck(answer)
    /\ Witness(own)
    /\ UNCHANGED <<source, site>>

CheckSite == Check(Render, HasContent)
CheckDuringOutage == \E answer \in Outages : Check(answer, FALSE)

Next == SiteChanges \/ CheckSite \/ CheckDuringOutage
Spec == Init /\ [][Next]_vars

-----------------------------------------------------------------------------
\* Type invariant: items have IDs, and a source with one value has one.
TypeOK ==
    /\ source \in Watched
    /\ site \in Sites(source.type)
    /\ notice.told \in BOOLEAN
    /\ reply \in Replies \cup {NoAnswer}
    /\ announced \in [Matchups -> 0..MaxAnnounced]
    /\ baseline # NoBaseline =>
           /\ IsFiniteSet(baseline)
           /\ source.type \in {"html", "json"} => "" \notin baseline
           /\ source.type \in {"json_value", "amazon", "page_llm", "github_file"}
                  => Cardinality(baseline) <= 1

\* nfvl.go:66-70, amazon.go:258-262, github_trending.go:208-211, page_llm.go:
\* 326-328: whatever outages lie between, the baseline is what was on the site
\* when it last served a page of its own; each layout, spelling and repetition
\* reads the same.
BaselineIsTheSite == baseline = known

\* The model answered that the difference is none: the sentinel is anywhere in
\* what the summarizer reads of the reply, or the reply opens with the verdict
\* and makes no exception anywhere (page_llm.go:195-214).
Heard ==
    {i \in DOMAIN reply.blocks :
        /\ reply.blocks[i].text # ""
        /\ CASE source.provider = "responses" -> reply.blocks[i].type = "output_text"
             [] source.provider = "anthropic" -> reply.blocks[i].type = "text"
             [] OTHER                         -> i = 1}
Said(words) == {i \in Heard : reply.blocks[i].text \in words}
Waved ==
    /\ source.type = "page_llm" /\ source.provider # "none"
    /\ reply \in Replies /\ reply.outcome = "answer"
    /\ \/ Said(Sentinels) # {}
       \/ /\ Said(Contrasts) = {}
          /\ \E i \in Said(Openers) : \A j \in Heard : i <= j

\* Every change of the site is told, once, by the next check that sees it, and
\* nothing else is: a change goes untold exactly if it is a removal and those
\* are ignored, or if a model answered that it is none; a model that fails
\* never hides one.  A notice without a summary counts what is new and, if the
\* type reports removals, what is gone (json.go:168-215), names one of each at
\* least, and leaves others out only at the tenth or when the body is full.
ChangeIsTold ==
    LET new   == known \ before
        gone  == IF source.type = "github_trending" THEN {} ELSE before \ known
        worth == /\ before # NoBaseline
                 /\ new # {} \/ (gone # {} /\ ~source.ignore_removals)
        due   == IF \/ source.type = "github_file"
                    \/ source.type \in {"html", "json"} /\ source.ignore_removals
                 THEN {} ELSE gone
        full  == Len(notice.added) + Len(notice.removed) >= MaxLines
    IN  /\ notice.told <=> worth /\ ~Waved
        /\ notice.told /\ notice.summary = <<>> =>
               /\ IdsOf(notice.added) \subseteq new /\ IdsOf(notice.removed) \subseteq due
               /\ new # {} => notice.added # <<>>
               /\ due # {} => notice.removed # <<>>
               /\ IdsOf(notice.added) = new \/ Len(notice.added) \in {MaxListed, MaxLines}
               /\ IdsOf(notice.removed) = due \/ Len(notice.removed) = MaxListed \/ full
               /\ notice.counts[1] >= Cardinality(new)
               /\ notice.counts[2] = Cardinality(due)

\* nfvl.go:37-42: a game is announced at most once for its posting and never
\* for its results; only the appearance of its boxscore link, which changes its
\* ID, may announce it once more.
GameAnnouncedOnce ==
    source.type = "nfvl" =>
        \A m \in Matchups :
            LET games == {g \in Games : [date |-> g.date, away |-> g.away, home |-> g.home] = m}
            IN  announced[m] <= Cardinality({g \in games : site.stage[g] > 1})
                                + Cardinality({g \in games : Stages[site.stage[g]] = "linked"})
=============================================================================
