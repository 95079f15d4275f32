-------------------------- MODULE PageWatchProofs --------------------------
(***************************************************************************)
(* PageWatch for every set of sources, site and reply: the page a site     *)
(* serves is read as its content, no outage is taken for a page, and every *)
(* change is told by the check that sees it.                               *)
(***************************************************************************)
EXTENDS PageWatch, PagesProofs

-----------------------------------------------------------------------------
(* What a fetcher makes of a site, type by type.                           *)

\* The page the site serves is read as its content, and fails the check when
\* there is none; no outage passes for a page.
SiteIsRead ==
    /\ Fetch(source, Render).ok = HasContent
    /\ HasContent =>
          /\ IsList(Fetch(source, Render).items)
          /\ Ids(Fetch(source, Render).items) = Content
          /\ source.type \in SingleTypes => Len(Fetch(source, Render).items) = 1
    /\ \A answer \in Outages : Fetch(source, answer).ok = FALSE

LEMMA Verdicts ==
    /\ Failed.ok = FALSE
    /\ \A items : Got(items).ok = TRUE /\ Got(items).items = items
BY DEF Failed, Got

\* An answer without a matching element has nothing to list.
LEMMA NothingToList ==
    ASSUME NEW selector, selector.tag = "li", selector.classes # {}
    PROVE  /\ \A answer \in {NoAnswer, Challenge, OtherDocument} :
                 Listing(selector, Nodes(answer)) = <<>>
<1>1. Nodes(NoAnswer) = <<>> /\ Nodes(OtherDocument) = <<>>
  BY DEF Nodes, NoAnswer, OtherDocument
<1>2. Nodes(Challenge) = <<Element("script", {}, "are you human?")>>
  BY DEF Nodes, Challenge, Page
<1> DEFINE script == Element("script", {}, "are you human?")
<1>3. ~Matches(selector, script)
  BY DEF Matches, Element
<1> HIDE DEF script
<1>4. Listing(selector, <<>>) = <<>>
  <2>1. IsList(<<>>) /\ Hits(selector, <<>>) = {}
    BY DEF IsList, Hits
  <2>2. QED
    BY <2>1, ListingReadsTexts
<1>5. Listing(selector, <<script>>) = <<>>
  <2>1. IsList(<<script>>) /\ \A i \in DOMAIN <<script>> : <<script>>[i] = script
    BY DEF IsList
  <2>2. Hits(selector, <<script>>) = {}
    BY <1>3, <2>1 DEF Hits
  <2>3. QED
    BY <2>1, <2>2, ListingReadsTexts
<1>6. QED
  BY <1>1, <1>2, <1>4, <1>5 DEF script

\* The elements of a list's page the selector finds are those of its entries.
LEMMA ListPageHits ==
    ASSUME NEW entries \in Seq(Entries), NEW selector, selector.tag = "li",
           selector.classes # {}, selector.classes \subseteq {"attachedfile", "new"}
    PROVE  LET nodes == ListPage(entries)
           IN  /\ IsList(nodes)
               /\ \A i \in DOMAIN nodes : Matches(selector, nodes[i]) <=>
                     \E j \in DOMAIN entries : i = 2 + j
               /\ \A j \in DOMAIN entries : /\ 2 + j \in DOMAIN nodes
                                            /\ nodes[2 + j].text = entries[j]
<1> DEFINE head == <<Element("nav", {"attachedfile"}, "menu"), Element("li", {}, "menu")>>
           list == [i \in DOMAIN entries |-> Element("li", {"attachedfile", "new"}, entries[i])]
           nodes == ListPage(entries)
           S == {head[1], head[2]} \cup {list[i] : i \in DOMAIN entries}
<1>1. DOMAIN entries = 1..Len(entries) /\ Len(entries) \in Nat
  OBVIOUS
<1>2. head \in Seq(S) /\ Len(head) = 2
  OBVIOUS
<1>3. list \in Seq(S) /\ Len(list) = Len(entries)
  <2>1. list \in [1..Len(entries) -> S]
    BY <1>1
  <2>2. QED
    BY <1>1, <2>1
<1>4. nodes = head \o list
  BY DEF ListPage
<1>5. /\ head[1].tag = "nav" /\ head[2].classes = {}
      /\ \A j \in DOMAIN entries : /\ list[j].tag = "li" /\ list[j].text = entries[j]
                                   /\ list[j].classes = {"attachedfile", "new"}
  BY DEF Element
<1> HIDE DEF head, list, nodes, S
<1>6. /\ IsList(nodes) /\ Len(nodes) = 2 + Len(entries)
      /\ \A i \in 1..2 : nodes[i] = head[i]
      /\ \A j \in 1..Len(entries) : 2 + j \in 1..Len(nodes) /\ nodes[2 + j] = list[j]
      /\ \A i \in 1..Len(nodes) : i \in 1..2 \/ \E j \in 1..Len(entries) : i = 2 + j
  <2>1. /\ IsList(head \o list) /\ Len(head \o list) = Len(head) + Len(list)
        /\ \A i \in 1..Len(head) : i \in 1..Len(head \o list) /\ (head \o list)[i] = head[i]
        /\ \A i \in 1..Len(list) : /\ Len(head) + i \in 1..Len(head \o list)
                                   /\ (head \o list)[Len(head) + i] = list[i]
        /\ \A i \in 1..Len(head \o list) :
              i \in 1..Len(head) \/ \E j \in 1..Len(list) : i = Len(head) + j
    <3>1. head \in Seq(S) /\ list \in Seq(S)
      BY <1>2, <1>3
    <3> HIDE DEF IsList
    <3>2. QED
      BY ONLY <3>1, OneAfterTheOther
  <2>2. Len(head) = 2 /\ Len(list) = Len(entries) /\ nodes = head \o list
    BY <1>2, <1>3, <1>4
  <2> HIDE DEF IsList
  <2>3. /\ IsList(nodes) /\ Len(nodes) = 2 + Len(entries)
        /\ \A i \in 1..2 : nodes[i] = head[i]
    BY ONLY <2>1, <2>2
  <2>4. \A j \in 1..Len(entries) : 2 + j \in 1..Len(nodes) /\ nodes[2 + j] = list[j]
    BY ONLY <2>1, <2>2
  <2>5. \A i \in 1..Len(nodes) : i \in 1..2 \/ \E j \in 1..Len(entries) : i = 2 + j
    BY ONLY <2>1, <2>2
  <2>6. QED
    BY <2>3, <2>4, <2>5
<1>7. DOMAIN nodes = 1..Len(nodes)
  BY <1>6 DEF IsList
<1>8. ASSUME NEW j \in DOMAIN entries
      PROVE  /\ 2 + j \in DOMAIN nodes /\ nodes[2 + j].text = entries[j]
             /\ Matches(selector, nodes[2 + j])
  BY <1>1, <1>5, <1>6, <1>7 DEF Matches
<1>9. ASSUME NEW i \in DOMAIN nodes, Matches(selector, nodes[i])
      PROVE  \E j \in DOMAIN entries : i = 2 + j
  <2>1. SUFFICES ASSUME i \in 1..2 PROVE FALSE
    BY <1>1, <1>6, <1>7
  <2>2. nodes[1] = head[1] /\ nodes[2] = head[2] /\ (i = 1 \/ i = 2)
    BY <1>6, <2>1
  <2>3. QED
    BY <1>5, <1>9, <2>2 DEF Matches
<1>10. QED
  BY <1>6, <1>8, <1>9 DEF nodes

LEMMA ListsAreSequences ==
    ASSUME source.type \in Lists, site \in Sites(source.type)
    PROVE  site \in Seq(Entries)
<1>1. site \in BoundedSeq(Entries, MaxEntries)
  BY DEF Sites, Lists
<1>2. PICK n \in 0..MaxEntries : site \in [1..n -> Entries]
  BY <1>1 DEF BoundedSeq, SeqOf
<1>3. n \in Nat
  BY PageWatchAssumption
<1>4. QED
  BY <1>2, <1>3

LEMMA HTMLIsRead ==
    ASSUME source \in Watched, site \in Sites(source.type), source.type = "html"
    PROVE  SiteIsRead
<1> DEFINE nodes == ListPage(site)
           hits == Hits(source.selector, nodes)
           items == Listing(source.selector, nodes)
<1>1. /\ source.selector.tag = "li" /\ source.selector.classes # {}
      /\ source.selector.classes \subseteq {"attachedfile", "new"}
  BY WatchedAssumption
<1>2. site \in Seq(Entries)
  BY ListsAreSequences DEF Lists
<1>3. /\ IsList(nodes)
      /\ \A i \in DOMAIN nodes : Matches(source.selector, nodes[i]) <=>
            \E j \in DOMAIN site : i = 2 + j
      /\ \A j \in DOMAIN site : 2 + j \in DOMAIN nodes /\ nodes[2 + j].text = site[j]
  BY <1>1, <1>2, ListPageHits
<1>4. Content = ToSet(site) \ {""} /\ (HasContent <=> Content # {})
  BY DEF Content, HasContent
<1>5. Nodes(Render) = nodes
  BY DEF Render, Nodes, Page
<1>6. \A answer : Fetch(source, answer) = FetchHTML(source, answer)
  BY DEF Fetch
<1> HIDE DEF nodes
<1>7. TextsAt(nodes, hits) = ToSet(site) \ {""}
  <2>1. ASSUME NEW i \in hits PROVE nodes[i].text \in ToSet(site) \ {""}
    BY <1>3 DEF ToSet, Hits
  <2>2. ASSUME NEW text \in ToSet(site) \ {""} PROVE \E i \in hits : nodes[i].text = text
    <3>1. PICK j \in DOMAIN site : site[j] = text
      BY DEF ToSet
    <3>2. 2 + j \in DOMAIN nodes /\ Matches(source.selector, nodes[2 + j])
          /\ nodes[2 + j].text = text
      BY <1>3, <3>1
    <3>3. QED
      BY <3>2 DEF Hits
  <2>3. TextsAt(nodes, hits) \subseteq ToSet(site) \ {""}
    BY <2>1 DEF TextsAt
  <2>4. ToSet(site) \ {""} \subseteq TextsAt(nodes, hits)
    BY <2>2 DEF TextsAt
  <2>5. QED
    BY <2>3, <2>4
<1>8. IsList(items) /\ Ids(items) = TextsAt(nodes, hits) /\ (items = <<>> <=> hits = {})
  BY <1>3, ListingReadsTexts
<1> HIDE DEF hits, items
<1>9. Ids(items) = Content /\ (items = <<>> <=> Content = {})
  <2>1. hits = {} <=> TextsAt(nodes, hits) = {}
    BY DEF TextsAt
  <2>2. QED
    BY <1>4, <1>7, <1>8, <2>1
<1>10. Fetch(source, Render) = IF items = <<>> THEN Failed ELSE Got(items)
  BY <1>5, <1>6 DEF FetchHTML, items
<1>11. \A answer \in Outages : Fetch(source, answer) = Failed
  BY <1>1, <1>6, NothingToList DEF FetchHTML, Outages
<1>12. QED
  BY <1>4, <1>8, <1>9, <1>10, <1>11, Verdicts DEF SiteIsRead, SingleTypes

-----------------------------------------------------------------------------

LEMMA ValuesAreRead ==
    ASSUME NEW text \in Entries
    PROVE  /\ ScalarText(Value(text)) = text
           /\ Value(text).kind \in {"null", "number", "text"}
<1>1. CASE text = ""
  BY <1>1 DEF Value, ScalarText
<1>2. CASE text # "" /\ text \in Numbers
  <2> DEFINE m == CHOOSE n \in 0..9 : ToString(n) = text
  <2>1. ToString(m) = text
    BY <1>2, SitesAssumption
  <2>2. Value(text) = [kind |-> "number", number |-> m]
    BY <1>2 DEF Value
  <2> HIDE DEF m
  <2>3. QED
    BY <2>1, <2>2 DEF ScalarText
<1>3. CASE text # "" /\ text \notin Numbers
  BY <1>3 DEF Value, ScalarText
<1>4. QED
  BY <1>1, <1>2, <1>3

\* What the steps of the configured paths find.
LEMMA Steps ==
    /\ \A value : Descend(Object([data |-> value]), Key("data")) = value
    /\ \A value : Descend([kind |-> "array", elems |-> <<value>>], First) = value
    /\ Descend(Object([error |-> Value("busy")]), Key("data")) = Missing
    /\ Descend(Object([error |-> Value("busy")]), First) = Missing
    /\ Descend(Missing, Key("data")) = Missing
<1>1. ASSUME NEW value
      PROVE  Descend(Object([data |-> value]), Key("data")) = value
  BY DEF Descend, Object, Key
<1>2. ASSUME NEW value
      PROVE  Descend([kind |-> "array", elems |-> <<value>>], First) = value
  BY DEF Descend, First
<1>3. Descend(Object([error |-> Value("busy")]), Key("data")) = Missing
  <2>1. "data" \notin DOMAIN [error |-> Value("busy")]
    OBVIOUS
  <2>2. QED
    BY <2>1 DEF Descend, Object, Key
<1>4. Descend(Object([error |-> Value("busy")]), First) = Missing
  BY DEF Descend, Object, First
<1>5. Descend(Missing, Key("data")) = Missing
  BY DEF Descend, Missing, Key
<1>6. QED
  BY <1>1, <1>2, <1>3, <1>4, <1>5

LEMMA OtherAnswers ==
    ASSUME NEW path, path \in {<<Key("data")>>, <<First, Key("data")>>},
           NEW answer \in {NoAnswer, Challenge, OtherDocument}
    PROVE  Leaf(answer, path) = Missing
<1>1. CASE answer \in {NoAnswer, Challenge}
  <2>1. NoAnswer.kind = "none" /\ Challenge.kind = "html"
    BY DEF NoAnswer, Challenge, Page
  <2>2. QED
    BY <1>1, <2>1 DEF Leaf
<1>2. CASE answer = OtherDocument
  <2> DEFINE doc == Object([error |-> Value("busy")])
  <2>1. Leaf(answer, path) = Walk(doc, path)
    BY <1>2 DEF Leaf, OtherDocument
  <2>2. /\ Descend(doc, Key("data")) = Missing /\ Descend(doc, First) = Missing
        /\ Descend(Missing, Key("data")) = Missing
    BY Steps
  <2> HIDE DEF doc
  <2>3. CASE path = <<Key("data")>>
    <3>1. DOMAIN path = 1..1 /\ path[1] = Key("data")
      BY <2>3
    <3>2. QED
      BY <2>1, <2>2, <3>1, TwoSteps
  <2>4. CASE path = <<First, Key("data")>>
    <3>1. DOMAIN path = 1..2 /\ path[1] = First /\ path[2] = Key("data") /\ 1..2 # 1..1
      BY <2>4
    <3>2. QED
      BY <2>1, <2>2, <3>1, TwoSteps
  <2>5. QED
    BY <2>3, <2>4
<1>3. QED
  BY <1>1, <1>2

LEMMA JSONIsRead ==
    ASSUME source \in Watched, site \in Sites(source.type), source.type = "json"
    PROVE  SiteIsRead
<1> DEFINE value == JSONPage(site)
           zero  == [kind |-> "number", number |-> 0]
           rest  == [i \in DOMAIN site |-> Object([id |-> Value(site[i])])]
           elems == value.elems
           S == {zero} \cup {rest[i] : i \in DOMAIN site}
<1>1. source.path = <<Key("data")>>
  BY WatchedAssumption
<1>2. site \in Seq(Entries) /\ DOMAIN site = 1..Len(site) /\ Len(site) \in Nat
  BY ListsAreSequences DEF Lists
<1>3. Leaf(Render, source.path) = value
  <2>1. Leaf(Render, source.path) = Walk(Object([data |-> value]), source.path)
    BY DEF Leaf, Render
  <2>2. DOMAIN source.path = 1..1 /\ source.path[1] = Key("data")
    BY <1>1
  <2> HIDE DEF value
  <2>3. QED
    BY <2>1, <2>2, TwoSteps, Steps
<1>4. value.kind = "array" /\ elems = <<zero>> \o rest
  BY DEF JSONPage
<1>5. <<zero>> \in Seq(S) /\ rest \in Seq(S) /\ Len(<<zero>>) = 1 /\ Len(rest) = Len(site)
  <2>1. rest \in [1..Len(site) -> S]
    BY <1>2
  <2>2. QED
    BY <1>2, <2>1
<1>6. /\ zero.kind = "number"
      /\ \A i \in DOMAIN site : rest[i].kind = "object" /\ Field(rest[i], "id") = site[i]
  <2>1. ASSUME NEW text \in Entries
        PROVE  /\ Object([id |-> Value(text)]).kind = "object"
               /\ Field(Object([id |-> Value(text)]), "id") = text
    <3>1. "id" \in DOMAIN [id |-> Value(text)] /\ [id |-> Value(text)].id = Value(text)
      OBVIOUS
    <3>2. QED
      BY <3>1, ValuesAreRead DEF Object, Field
  <2>2. QED
    BY <1>2, <2>1
<1> HIDE DEF value, zero, rest, S
<1>7. /\ IsList(elems) /\ Len(elems) = 1 + Len(site)
      /\ elems[1] = zero
      /\ \A j \in 1..Len(site) : 1 + j \in 1..Len(elems) /\ elems[1 + j] = rest[j]
      /\ \A i \in 1..Len(elems) : i = 1 \/ \E j \in 1..Len(site) : i = 1 + j
  <2> DEFINE a == <<zero>>
  <2>1. a[1] = zero /\ 1 \in 1..1 /\ 1..1 = {1}
    OBVIOUS
  <2> HIDE DEF a
  <2>2. a \in Seq(S) /\ rest \in Seq(S)
    BY <1>5 DEF a
  <2>3. /\ IsList(a \o rest) /\ Len(a \o rest) = Len(a) + Len(rest)
        /\ \A i \in 1..Len(a) : i \in 1..Len(a \o rest) /\ (a \o rest)[i] = a[i]
        /\ \A i \in 1..Len(rest) : /\ Len(a) + i \in 1..Len(a \o rest)
                                   /\ (a \o rest)[Len(a) + i] = rest[i]
        /\ \A i \in 1..Len(a \o rest) :
              i \in 1..Len(a) \/ \E j \in 1..Len(rest) : i = Len(a) + j
    BY ONLY <2>2, OneAfterTheOther
  <2>4. elems = a \o rest /\ Len(a) = 1 /\ Len(rest) = Len(site)
    BY <1>4, <1>5 DEF a
  <2> HIDE DEF elems
  <2>5. QED
    BY <2>1, <2>3, <2>4
<1> HIDE DEF elems
<1>8. DOMAIN elems = 1..Len(elems)
  BY <1>7 DEF IsList
<1>9. FieldsAt(elems, Usable(elems)) = ToSet(site) \ {""}
  <2>1. ASSUME NEW i \in Usable(elems)
        PROVE  Field(elems[i], "id") \in ToSet(site) \ {""}
    <3>1. i \in 1..Len(elems) /\ elems[i].kind = "object" /\ Field(elems[i], "id") # ""
      BY <1>8 DEF Usable
    <3>2. PICK j \in 1..Len(site) : i = 1 + j
      BY <1>6, <1>7, <3>1
    <3>3. Field(elems[i], "id") = site[j]
      BY <1>2, <1>6, <1>7, <3>2
    <3>4. QED
      BY <1>2, <3>1, <3>3 DEF ToSet
  <2>2. ASSUME NEW text \in ToSet(site) \ {""}
        PROVE  \E i \in Usable(elems) : Field(elems[i], "id") = text
    <3>1. PICK j \in DOMAIN site : site[j] = text
      BY DEF ToSet
    <3>2. 1 + j \in DOMAIN elems /\ elems[1 + j] = rest[j]
      BY <1>2, <1>7, <1>8
    <3>3. Field(elems[1 + j], "id") = text /\ elems[1 + j].kind = "object"
      BY <1>6, <3>1, <3>2
    <3>4. 1 + j \in Usable(elems)
      BY <3>2, <3>3 DEF Usable
    <3>5. QED
      BY <3>3, <3>4
  <2>3. FieldsAt(elems, Usable(elems)) \subseteq ToSet(site) \ {""}
    BY <2>1 DEF FieldsAt
  <2>4. ToSet(site) \ {""} \subseteq FieldsAt(elems, Usable(elems))
    BY <2>2 DEF FieldsAt
  <2>5. QED
    BY <2>3, <2>4
<1>10. \A answer : Fetch(source, answer) = FetchJSON(source, answer)
  BY DEF Fetch
<1>11. /\ FetchJSON(source, Render).ok = TRUE /\ IsList(FetchJSON(source, Render).items)
       /\ Ids(FetchJSON(source, Render).items) = ToSet(site) \ {""}
  BY <1>3, <1>4, <1>7, <1>9, JSONReadsObjects DEF elems
<1>12. ASSUME NEW answer \in Outages
       PROVE  FetchJSON(source, answer) = Failed
  <2>1. answer \in {NoAnswer, Challenge, OtherDocument}
    BY DEF Outages
  <2>2. Leaf(answer, source.path).kind # "array"
    BY <1>1, <2>1, OtherAnswers DEF Missing
  <2>3. QED
    BY <2>2 DEF FetchJSON
<1>13. Content = ToSet(site) \ {""} /\ HasContent = TRUE
  BY DEF Content, HasContent
<1>14. QED
  BY <1>10, <1>11, <1>12, <1>13, Verdicts DEF SiteIsRead, SingleTypes

LEMMA JSONValueIsRead ==
    ASSUME source \in Watched, site \in Sites(source.type), source.type = "json_value"
    PROVE  SiteIsRead
<1>1. source.path = <<First, Key("data")>>
  BY WatchedAssumption
<1>2. site \in Entries
  BY DEF Sites, Lists
<1>3. Leaf(Render, source.path) = Value(site)
  <2> DEFINE doc == [kind |-> "array", elems |-> <<Object([data |-> Value(site)])>>]
  <2>1. Leaf(Render, source.path) = Walk(doc, source.path)
    BY DEF Leaf, Render
  <2>2. /\ DOMAIN source.path = 1..2 /\ 1..2 # 1..1
        /\ source.path[1] = First /\ source.path[2] = Key("data")
    BY <1>1
  <2>3. Descend(Descend(doc, First), Key("data")) = Value(site)
    BY Steps
  <2> HIDE DEF doc
  <2>4. QED
    BY <2>1, <2>2, <2>3, TwoSteps
<1>4. \A answer : Fetch(source, answer) = FetchJSONValue(source, answer)
  BY DEF Fetch
<1>5. FetchJSONValue(source, Render) = Got(<<Plain(site)>>)
  BY <1>2, <1>3, ValuesAreRead DEF FetchJSONValue
<1>6. ASSUME NEW answer \in Outages
      PROVE  FetchJSONValue(source, answer) = Failed
  <2>1. answer \in {NoAnswer, Challenge, OtherDocument}
    BY DEF Outages
  <2>2. Leaf(answer, source.path).kind = "missing"
    BY <1>1, <2>1, OtherAnswers DEF Missing
  <2>3. QED
    BY <2>2 DEF FetchJSONValue
<1>7. Content = {site} /\ HasContent = TRUE
  BY DEF Content, HasContent
<1>8. /\ IsList(<<Plain(site)>>) /\ Ids(<<Plain(site)>>) = {site} /\ Len(<<Plain(site)>>) = 1
  <2>1. Plain(site).id = site
    BY DEF Plain, Item
  <2>2. QED
    BY <2>1 DEF IsList, Ids
<1>9. QED
  BY <1>4, <1>5, <1>6, <1>7, <1>8, Verdicts DEF SiteIsRead

LEMMA FileIsRead ==
    ASSUME source \in Watched, site \in Sites(source.type), source.type = "github_file"
    PROVE  SiteIsRead
<1> DEFINE id == <<IF source.sha THEN "sha" ELSE "sha256", site>>
           item == Item(id, source.path, site, "")
<1>1. source.sha \in BOOLEAN /\ site # ""
  BY WatchedAssumption DEF Sites, Lists
<1>2. \A answer : Fetch(source, answer) = FetchFile(source, answer)
  BY DEF Fetch
<1>3. FetchFile(source, Render) = Got(<<item>>)
  BY <1>1 DEF Render, FetchFile
<1>4. ASSUME NEW answer \in Outages
      PROVE  FetchFile(source, answer) = Failed
  <2>1. \/ answer = NoAnswer \/ answer = [Render EXCEPT !.type = "dir"]
        \/ answer = [Render EXCEPT !.encoding = "none"]
    BY DEF Outages
  <2>2. Render = [kind |-> "contents", type |-> "file", content |-> site,
                  sha |-> IF source.sha THEN site ELSE "",
                  encoding |-> IF source.sha THEN "base64" ELSE ""]
    BY DEF Render
  <2>3. \/ answer.kind # "contents" \/ answer.type # "file"
        \/ answer.encoding \notin {"base64", ""}
    <3>1. NoAnswer.kind # "contents"
      BY DEF NoAnswer
    <3>2. [Render EXCEPT !.type = "dir"].type = "dir"
      BY <2>2
    <3>3. [Render EXCEPT !.encoding = "none"].encoding = "none"
      BY <2>2
    <3>4. QED
      BY <2>1, <3>1, <3>2, <3>3
  <2>4. QED
    BY <2>3 DEF FetchFile
<1>5. Content = {id} /\ HasContent = TRUE
  BY DEF Content, HasContent
<1>6. item.id = id
  BY DEF Item
<1> HIDE DEF item, id
<1>7. IsList(<<item>>) /\ Ids(<<item>>) = {id} /\ Len(<<item>>) = 1
  BY <1>6 DEF IsList, Ids
<1>8. QED
  BY <1>2, <1>3, <1>4, <1>5, <1>7, Verdicts DEF SiteIsRead

-----------------------------------------------------------------------------

LEMMA TrendingPageIsRead ==
    ASSUME NEW repos \in SUBSET Repositories, NEW window
    PROVE  LET nodes == Nodes(Page(TrendingPage(repos, window)))
           IN  IsList(nodes) /\ ReposAt(nodes, Articles(nodes)) = repos
<1> DEFINE names == SetToSeq(repos)
           blank == [tag |-> "article", repo |-> "", text |-> ""]
           head  == <<blank>>
           list  == [i \in DOMAIN names |->
                        [tag |-> "article", repo |-> names[i], text |-> <<names[i], window = 2>>]]
           S == {blank} \cup {list[i] : i \in DOMAIN names}
           nodes == head \o list
           n == Cardinality(repos)
<1>1. Nodes(Page(TrendingPage(repos, window))) = nodes
  BY DEF Nodes, Page, TrendingPage
<1>2. IsFiniteSet(repos) /\ "" \notin repos
  BY SitesAssumption, FS_Subset
<1>3. /\ n \in Nat /\ names \in [1..n -> repos]
      /\ \A x \in repos : \E k \in 1..n : names[k] = x
  BY <1>2, SetToSeqLists
<1>4. DOMAIN names = 1..n
  BY <1>3
<1> HIDE DEF names, n
<1>5. head \in Seq(S) /\ Len(head) = 1 /\ head[1] = blank
  OBVIOUS
<1>6. list \in Seq(S) /\ Len(list) = n
  <2>1. DOMAIN list = 1..n /\ \A i \in 1..n : list[i] \in S
    BY <1>4
  <2>2. list = [i \in 1..n |-> list[i]]
    BY <1>4
  <2> HIDE DEF list, S
  <2>3. list \in [1..n -> S]
    BY <2>1, <2>2
  <2>4. QED
    BY <1>3, <2>3
<1>7. /\ blank.repo = ""
      /\ \A i \in 1..n : list[i].tag = "article" /\ list[i].repo = names[i]
  BY <1>4
<1> HIDE DEF blank, head, list, S
<1>8. /\ IsList(nodes) /\ Len(nodes) = Len(head) + Len(list)
      /\ \A i \in 1..Len(head) : i \in 1..Len(nodes) /\ nodes[i] = head[i]
      /\ \A i \in 1..Len(list) : /\ Len(head) + i \in 1..Len(nodes)
                                 /\ nodes[Len(head) + i] = list[i]
      /\ \A i \in 1..Len(nodes) : i \in 1..Len(head) \/ \E j \in 1..Len(list) : i = Len(head) + j
  <2>1. head \in Seq(S) /\ list \in Seq(S)
    BY <1>5, <1>6
  <2>2. QED
    BY ONLY <2>1, OneAfterTheOther
<1> HIDE DEF nodes
<1>9. DOMAIN nodes = 1..Len(nodes)
  BY <1>8 DEF IsList
<1>10. ASSUME NEW i \in Articles(nodes)
       PROVE  nodes[i].repo \in repos
  <2>1. i \in 1..Len(nodes) /\ nodes[i].repo # ""
    BY <1>9 DEF Articles
  <2>2. i \notin 1..1
    <3>1. 1 \in 1..Len(head) /\ \A k \in 1..1 : k = 1
      BY <1>5
    <3>2. nodes[1] = blank
      BY <1>5, <1>8, <3>1
    <3>3. QED
      BY <1>7, <2>1, <3>1, <3>2
  <2>3. PICK j \in 1..n : i = 1 + j
    BY <1>5, <1>6, <1>8, <2>1, <2>2
  <2>4. nodes[i] = list[j]
    BY <1>5, <1>6, <1>8, <2>3
  <2>5. nodes[i].repo = names[j] /\ names[j] \in repos
    BY <1>3, <1>7, <2>4
  <2>6. QED
    BY <2>5
<1>11. ASSUME NEW x \in repos
       PROVE  \E i \in Articles(nodes) : nodes[i].repo = x
  <2>1. PICK k \in 1..n : names[k] = x
    BY <1>3
  <2>2. 1 + k \in 1..Len(nodes) /\ nodes[1 + k] = list[k]
    BY <1>5, <1>6, <1>8
  <2>3. 1 + k \in Articles(nodes)
    BY <1>2, <1>7, <1>9, <2>1, <2>2 DEF Articles
  <2>4. QED
    BY <1>7, <2>1, <2>2, <2>3
<1>12. ReposAt(nodes, Articles(nodes)) = repos
  <2>1. ReposAt(nodes, Articles(nodes)) \subseteq repos
    BY <1>10 DEF ReposAt
  <2>2. repos \subseteq ReposAt(nodes, Articles(nodes))
    BY <1>11 DEF ReposAt
  <2>3. QED
    BY <2>1, <2>2
<1>13. QED
  BY <1>1, <1>8, <1>12

LEMMA TrendingIsRead ==
    ASSUME source \in Watched, site \in Sites(source.type), source.type = "github_trending"
    PROVE  SiteIsRead
<1> DEFINE page(w) == Page(TrendingPage(site[w], w))
           of == [w \in 1..3 |-> page(w)]
           repos(answer, w) == ReposAt(Nodes(answer.of[w]), Articles(Nodes(answer.of[w])))
<1>1. site \in [1..3 -> SUBSET Repositories]
  BY DEF Sites, Lists
<1>2. Render = [kind |-> "windows", of |-> of]
  BY DEF Render
<1>3. ASSUME NEW w \in 1..3
      PROVE  IsList(Nodes(page(w))) /\ ReposAt(Nodes(page(w)), Articles(Nodes(page(w)))) = site[w]
  BY <1>1, TrendingPageIsRead
<1>4. \A answer : Fetch(source, answer) = FetchTrending(source, answer)
  BY DEF Fetch
<1>5. ASSUME NEW nodes
      PROVE  ReposAt(nodes, Articles(nodes)) = {} <=> Articles(nodes) = {}
  BY DEF ReposAt
<1>6. Content = UNION {site[w] : w \in 1..3} /\ HasContent = (\A w \in 1..3 : site[w] # {})
  BY DEF Content, HasContent
<1> HIDE DEF page
<1>7. /\ Render.kind = "windows"
      /\ \A w \in 1..3 : Render.of[w] = page(w)
  BY <1>2
<1>8. IF \E w \in 1..3 : Articles(Nodes(Render.of[w])) = {} THEN FetchTrending(source, Render) = Failed
      ELSE /\ FetchTrending(source, Render).ok = TRUE
           /\ IsList(FetchTrending(source, Render).items)
           /\ Ids(FetchTrending(source, Render).items)
                  = repos(Render, 1) \cup repos(Render, 2) \cup repos(Render, 3)
  BY <1>3, <1>7, TrendingReadsWindows
<1>9. \A w \in 1..3 : repos(Render, w) = site[w]
  BY <1>3, <1>7
<1>10. (\E w \in 1..3 : Articles(Nodes(Render.of[w])) = {}) <=> ~HasContent
  BY <1>5, <1>6, <1>9
<1>11. site[1] \cup site[2] \cup site[3] = UNION {site[w] : w \in 1..3}
  <2>1. 1..3 = {1, 2, 3}
    OBVIOUS
  <2>2. QED
    BY <2>1
<1>12. 1 \in 1..3 /\ 2 \in 1..3 /\ 3 \in 1..3
  OBVIOUS
<1>13. ASSUME NEW answer \in Outages
       PROVE  FetchTrending(source, answer) = Failed
  <2>1. CASE answer = NoAnswer
    <3>1. NoAnswer.kind # "windows"
      BY DEF NoAnswer
    <3>2. QED
      BY <2>1, <3>1 DEF FetchTrending
  <2>2. CASE answer # NoAnswer
    <3>1. PICK w \in 1..3, a \in {NoAnswer, Challenge} : answer = [Render EXCEPT !.of[w] = a]
      BY <2>2 DEF Outages
    <3>2. /\ answer.kind = "windows" /\ answer.of[w] = a
          /\ \A v \in 1..3 : v # w => answer.of[v] = page(v)
      BY <1>2, <3>1
    <3>3. IsList(Nodes(a)) /\ Articles(Nodes(a)) = {}
      <4>1. Nodes(NoAnswer) = <<>>
        BY DEF Nodes, NoAnswer
      <4> DEFINE script == Element("script", {}, "are you human?")
      <4>2. Nodes(Challenge) = <<script>> /\ script.tag # "article"
        BY DEF Nodes, Challenge, Page, Element
      <4> HIDE DEF script
      <4>3. IsList(<<>>) /\ Articles(<<>>) = {}
        BY DEF IsList, Articles
      <4>4. IsList(<<script>>) /\ Articles(<<script>>) = {}
        <5>1. IsList(<<script>>) /\ \A i \in DOMAIN <<script>> : <<script>>[i] = script
          BY DEF IsList
        <5>2. QED
          BY <4>2, <5>1 DEF Articles
      <4>5. QED
        BY <4>1, <4>2, <4>3, <4>4
    <3>4. \A v \in 1..3 : IsList(Nodes(answer.of[v]))
      BY <1>3, <3>2, <3>3
    <3>5. Articles(Nodes(answer.of[w])) = {}
      BY <3>2, <3>3
    <3>6. QED
      BY <3>2, <3>4, <3>5, TrendingReadsWindows
  <2>3. QED
    BY <2>1, <2>2
<1> HIDE DEF repos, of
<1>14. /\ FetchTrending(source, Render).ok = HasContent
       /\ HasContent => /\ IsList(FetchTrending(source, Render).items)
                        /\ Ids(FetchTrending(source, Render).items) = Content
  BY <1>6, <1>8, <1>9, <1>10, <1>11, <1>12, Verdicts
<1>15. QED
  BY <1>4, <1>13, <1>14, Verdicts DEF SiteIsRead, SingleTypes

-----------------------------------------------------------------------------

\* The milestones of a shipment at a step.
NotBlank(text) == text # ""
Marked(steps, n, step) ==
    \A k \in 1..n : steps[k].label # "" /\ (steps[k].reached <=> k = step)
Rated(steps, n, step, percent) ==
    /\ NotBlank(percent)
    /\ \A k \in 1..n : steps[k].percent = IF k <= step THEN "100"
                                          ELSE IF k = step + 1 THEN percent ELSE "0"

\* The percent is that of the step under way, or of the last one.
LEMMA ProgressIsRead ==
    ASSUME NEW n \in Nat, NEW step \in 1..n, NEW percent,
           NEW steps, DOMAIN steps = 1..n,
           Marked(steps, n, step), Rated(steps, n, step, percent)
    PROVE  /\ Progress(steps).step = steps[step].label
           /\ Progress(steps).percent = IF step = n THEN "100" ELSE percent
<1> DEFINE labelled == {i \in DOMAIN steps : steps[i].label # ""}
           reached  == {i \in labelled : steps[i].reached}
           ahead    == {i \in labelled \ reached : /\ steps[i].percent # ""
                                                   /\ \E j \in reached : j < i}
<1>1. labelled = 1..n /\ reached = {step}
  BY DEF Marked
<1>2. \A k \in 1..n : steps[k].percent # ""
  BY DEF Rated, NotBlank
<1>3. \A i \in ahead : i \in 1..n /\ step < i
  BY <1>1
<1>4. \A i \in 1..n : step < i => i \in ahead
  <2> SUFFICES ASSUME NEW i \in 1..n, step < i PROVE i \in ahead
    OBVIOUS
  <2>1. i \in labelled /\ i \notin reached /\ step \in reached
    <3>1. i \in 1..n /\ i # step
      OBVIOUS
    <3> HIDE DEF labelled, reached
    <3>2. QED
      BY <1>1, <3>1
  <2>2. steps[i].percent # ""
    BY <1>2
  <2>3. QED
    <3> HIDE DEF labelled, reached
    <3> QED BY <2>1, <2>2
<1>5. Progress(steps) = IF reached = {} THEN [step |-> "", percent |-> ""]
          ELSE [step    |-> steps[Max(reached)].label,
                percent |-> steps[IF ahead = {} THEN Max(reached) ELSE Min(ahead)].percent]
  BY DEF Progress
<1> HIDE DEF labelled, reached, ahead
<1>6. Max(reached) = step /\ reached # {}
  <2>1. step \in reached /\ reached \subseteq Nat /\ \A y \in reached : y <= step
    BY <1>1
  <2>2. QED
    BY <2>1, MaxIsGreatest
<1>7. /\ Progress(steps).step = steps[step].label
      /\ Progress(steps).percent = steps[IF ahead = {} THEN step ELSE Min(ahead)].percent
  <2> DEFINE at == IF ahead = {} THEN step ELSE Min(ahead)
  <2>1. Progress(steps) = [step |-> steps[step].label, percent |-> steps[at].percent]
    BY <1>5, <1>6
  <2> HIDE DEF at
  <2>2. /\ Progress(steps).step = steps[step].label
        /\ Progress(steps).percent = steps[at].percent
    BY <2>1
  <2>3. QED
    BY <2>2 DEF at
<1>8. CASE step = n
  <2>1. ahead = {}
    BY <1>3, <1>8
  <2>2. steps[step].percent = "100"
    BY DEF Rated
  <2>3. QED
    BY <1>7, <1>8, <2>1, <2>2
<1>9. CASE step # n
  <2>1. step + 1 \in 1..n /\ step < step + 1 /\ ~(step + 1 <= step)
    BY <1>9
  <2>2. step + 1 \in ahead
    BY <1>4, <2>1
  <2>3. ahead \in SUBSET Nat /\ ahead # {}
    BY <1>3, <2>2
  <2>4. Min(ahead) \in ahead /\ Min(ahead) <= step + 1
    BY <2>2, <2>3, MinIsLeast
  <2>5. Min(ahead) = step + 1
    BY <1>3, <2>4
  <2>6. steps[step + 1].percent = percent
    BY <2>1 DEF Rated
  <2>7. QED
    BY <1>7, <1>9, <2>2, <2>5, <2>6
<1>10. QED
  BY <1>8, <1>9

LEMMA AmazonIsRead ==
    ASSUME source \in Watched, site \in Sites(source.type), source.type = "amazon"
    PROVE  SiteIsRead
<1> DEFINE steps == [k \in DOMAIN Milestones |->
                       [label |-> Milestones[k], reached |-> k = site.step,
                        percent |-> IF k <= site.step THEN "100"
                                    ELSE IF k = site.step + 1 THEN site.percent ELSE "0"]]
           list == [tag |-> "div", classes |-> {"pt-status-milestones"},
                    text |-> "Delivery status", count |-> StepCount(site.step),
                    milestones |-> steps]
           Lists1(nodes) == Kept(nodes, {i \in DOMAIN nodes :
                                           "pt-status-milestones" \in nodes[i].classes})
           value == <<Milestones[site.step], StepCount(site.step),
                      IF site.step = Len(Milestones) THEN "100" ELSE site.percent>>
           item == Item(value, value, "Delivery status", "")
<1>1. site.step \in DOMAIN Milestones /\ site.percent \in Percents
  BY DEF Sites, Lists, Shipments
<1>2. Nodes(Render) = <<list>>
  BY DEF Render, Nodes, Page, ShipmentPage
<1>3. \A answer : Fetch(source, answer) = FetchAmazon(source, answer)
  BY DEF Fetch
<1>4. /\ Progress(steps).step = Milestones[site.step] /\ Progress(steps).step # ""
      /\ Progress(steps).percent = IF site.step = Len(Milestones) THEN "100" ELSE site.percent
  <2> DEFINE n == Len(Milestones)
             step == site.step
             percent == site.percent
  <2>0. Milestones \in Seq(STRING \ {""})
    BY SitesAssumption
  <2>1. n \in Nat /\ DOMAIN Milestones = 1..n
    BY <2>0, LenProperties
  <2>2. step \in 1..n /\ DOMAIN steps = 1..n
    BY <1>1, <2>1
  <2>7. percent # "" /\ \A k \in 1..n : Milestones[k] # ""
    <3>1. Percents \subseteq STRING \ {""}
      BY SitesAssumption
    <3>2. \A k \in 1..n : Milestones[k] \in STRING \ {""}
      BY <2>0, ElementOfSeq
    <3> HIDE DEF n
    <3>3. QED
      BY <1>1, <3>1, <3>2
  <2>3. (\A k \in 1..n : steps[k].label = Milestones[k]) /\ Marked(steps, n, step)
    BY <2>1, <2>7 DEF Marked
  <2>4. Rated(steps, n, step, percent)
    <3>1. \A k \in 1..n : steps[k].percent = IF k <= step THEN "100"
                                             ELSE IF k = step + 1 THEN percent ELSE "0"
      BY <2>1
    <3> HIDE DEF steps, percent
    <3>2. QED
      BY <2>7, <3>1 DEF Rated, NotBlank
  <2> HIDE DEF steps, n, step, percent
  <2>5. /\ Progress(steps).step = steps[step].label
        /\ Progress(steps).percent = IF step = n THEN "100" ELSE percent
    BY <2>1, <2>2, <2>3, <2>4, ProgressIsRead
  <2>6. QED
    <3>1. steps[step].label = Milestones[step] /\ Milestones[step] # ""
      BY <2>2, <2>3, <2>7
    <3>2. QED
      BY <2>5, <3>1 DEF n, step, percent
<1>5. /\ list.classes = {"pt-status-milestones"} /\ list.text = "Delivery status"
      /\ list.count = StepCount(site.step) /\ list.milestones = steps
  OBVIOUS
<1> HIDE DEF list, steps
<1>6. Lists1(<<list>>) # <<>> /\ Lists1(<<list>>)[1] = list
  <2> DEFINE nodes == <<list>>
             I == {i \in DOMAIN nodes : "pt-status-milestones" \in nodes[i].classes}
  <2>1. I = {1} /\ nodes[1] = list
    <3>1. nodes[1] = list /\ DOMAIN nodes = {1}
      OBVIOUS
    <3>2. "pt-status-milestones" \in nodes[1].classes
      BY <1>5
    <3> HIDE DEF nodes
    <3>3. QED
      BY <3>1, <3>2
  <2>2. Lists1(nodes) = Kept(nodes, I)
    OBVIOUS
  <2> HIDE DEF I, nodes, Lists1
  <2>3. I \in SUBSET (1..1) /\ 1 \in Nat
    BY <2>1
  <2>4. /\ \A i \in I : \E k \in 1..Cardinality(I) :
                 Ascending(I)[k] = i /\ Kept(nodes, I)[k] = nodes[i]
        /\ Kept(nodes, I) = <<>> <=> I = {}
    BY <2>3, KeptEntries
  <2>5. Cardinality(I) = 1
    BY <2>1, FS_Singleton
  <2>6. Kept(nodes, I)[1] = list /\ Kept(nodes, I) # <<>>
    BY <2>1, <2>4, <2>5
  <2>7. QED
    BY <2>2, <2>6 DEF nodes
<1>7. ASSUME NEW answer
      PROVE  LET lists == Lists1(Nodes(answer))
                 seen  == Progress(lists[1].milestones)
                 worth == <<seen.step, lists[1].count, seen.percent>>
             IN  FetchAmazon(source, answer) =
                     IF lists = <<>> \/ lists[1].text = "" \/ seen.step = "" THEN Failed
                     ELSE Got(<<Item(worth, worth, lists[1].text, "")>>)
  BY DEF FetchAmazon
<1> HIDE DEF Lists1
<1>8. FetchAmazon(source, Render) = Got(<<item>>)
  BY <1>2, <1>4, <1>5, <1>6, <1>7
<1>9. ASSUME NEW answer \in Outages
      PROVE  FetchAmazon(source, answer) = Failed
  <2>1. answer \in {NoAnswer, Challenge, OtherDocument}
    BY DEF Outages
  <2> DEFINE script == Element("script", {}, "are you human?")
  <2>2. Nodes(answer) = <<>> \/ Nodes(answer) = <<script>>
    <3>1. Nodes(NoAnswer) = <<>> /\ Nodes(OtherDocument) = <<>>
      BY DEF Nodes, NoAnswer, OtherDocument
    <3>2. Nodes(Challenge) = <<script>>
      BY DEF Nodes, Challenge, Page
    <3> HIDE DEF script
    <3>3. QED
      BY <2>1, <3>1, <3>2
  <2>3. script.classes = {}
    BY DEF Element
  <2> HIDE DEF script
  <2>4. Lists1(Nodes(answer)) = <<>>
    <3> DEFINE nodes == Nodes(answer)
               I == {i \in DOMAIN nodes : "pt-status-milestones" \in nodes[i].classes}
    <3>1. I = {}
      <4>1. \A i \in DOMAIN <<script>> : <<script>>[i] = script
        OBVIOUS
      <4>2. QED
        BY <2>2, <2>3, <4>1
    <3>2. Lists1(nodes) = Kept(nodes, I)
      BY DEF Lists1
    <3> HIDE DEF I, nodes
    <3>3. I \in SUBSET (1..0) /\ 0 \in Nat
      BY <3>1
    <3>4. Kept(nodes, I) = <<>>
      BY <3>1, <3>3, KeptEntries
    <3>5. QED
      BY <3>2, <3>4 DEF nodes
  <2>5. QED
    BY <1>7, <2>4
<1>10. Content = {value} /\ HasContent = TRUE
  BY DEF Content, HasContent
<1>11. item.id = value
  BY DEF Item
<1> HIDE DEF item, value
<1>12. IsList(<<item>>) /\ Ids(<<item>>) = {value} /\ Len(<<item>>) = 1
  BY <1>11 DEF IsList, Ids
<1>13. QED
  BY <1>3, <1>8, <1>9, <1>10, <1>12, Verdicts DEF SiteIsRead

-----------------------------------------------------------------------------
(* page_llm: one item, the texts of the page in order.                     *)

\* The entries of a list that are not blank, and the first of each text.
Written(entries) == {i \in DOMAIN entries : entries[i] # ""}
Firsts(entries) ==
    {i \in DOMAIN entries : /\ entries[i] # ""
                            /\ \A j \in 1..(i - 1) : entries[j] # entries[i]}

LEMMA FirstsAreWritten ==
    ASSUME NEW entries, IsList(entries)
    PROVE  Firsts(entries) =
               {i \in Written(entries) :
                   \A j \in Written(entries) : j < i => entries[j] # entries[i]}
<1> DEFINE n == Len(entries)
           W == Written(entries)
<1>1. n \in Nat /\ DOMAIN entries = 1..n
  BY DEF IsList
<1>2. /\ W \subseteq 1..n
      /\ \A i \in W, j \in DOMAIN entries : entries[j] = entries[i] => j \in W
  BY <1>1 DEF Written
<1>3. Firsts(entries) = {i \in W : \A j \in 1..(i - 1) : entries[j] # entries[i]}
  BY DEF Firsts, Written
<1> HIDE DEF W, n
<1>4. ASSUME NEW i \in W
      PROVE  (\A j \in 1..(i - 1) : entries[j] # entries[i])
                <=> (\A j \in W : j < i => entries[j] # entries[i])
  <2>1. \A j \in 1..(i - 1) : j \in DOMAIN entries /\ j < i
    BY <1>1, <1>2
  <2>2. \A j \in W : j < i => j \in 1..(i - 1)
    BY <1>1, <1>2
  <2>3. QED
    BY <1>2, <2>1, <2>2
<1>5. QED
  BY <1>3, <1>4 DEF W

\* The texts a page_llm source keeps of a list's page.
LEMMA PageTexts ==
    ASSUME NEW entries \in Seq(Entries), NEW selector, selector.tag = "li",
           selector.classes # {}, selector.classes \subseteq {"attachedfile", "new"}
    PROVE  LET parts == Listing(selector, ListPage(entries))
           IN  /\ IsList(parts) /\ Firsts(entries) \in SUBSET (1..Len(entries))
               /\ [i \in DOMAIN parts |-> parts[i].id] = Kept(entries, Firsts(entries))
<1> DEFINE nodes == ListPage(entries)
           parts == Listing(selector, nodes)
           n == Len(entries)
           W == Written(entries)
           F == Firsts(entries)
           hits == Hits(selector, nodes)
           first == FirstHits(selector, nodes)
           m == Cardinality(F)
           at == Ascending(F)
           g == [k \in 1..m |-> 2 + at[k]]
<1>1. /\ IsList(nodes)
      /\ \A i \in DOMAIN nodes : Matches(selector, nodes[i]) <=>
            \E j \in DOMAIN entries : i = 2 + j
      /\ \A j \in DOMAIN entries : 2 + j \in DOMAIN nodes /\ nodes[2 + j].text = entries[j]
  BY ListPageHits
<1>2. IsList(entries) /\ n \in Nat /\ DOMAIN entries = 1..n
  <2>1. n \in Nat /\ DOMAIN entries = 1..n
    OBVIOUS
  <2>2. QED
    BY <2>1 DEF IsList
<1> HIDE DEF nodes
<1>3. \A i : i \in hits <=> \E j \in W : i = 2 + j
  BY <1>1 DEF Hits, Written
<1>4. F = {i \in W : \A j \in W : j < i => entries[j] # entries[i]}
  BY <1>2, FirstsAreWritten
<1>5. first = {i \in hits : \A j \in hits : j < i => nodes[j].text # nodes[i].text}
  BY DEF FirstHits
<1>6. W \subseteq DOMAIN entries
  BY DEF Written
<1>7. /\ DOMAIN parts = 1..Cardinality(first) /\ Len(parts) = Cardinality(first)
      /\ Cardinality(first) \in Nat
      /\ \A k \in 1..Cardinality(first) : parts[k].id = nodes[Ascending(first)[k]].text
  BY <1>1, ListingIsInOrder
<1> HIDE DEF W, F, hits, first, n, parts
<1>8. ASSUME NEW j \in W
      PROVE  2 + j \in first <=> j \in F
  <2>1. 2 + j \in hits /\ nodes[2 + j].text = entries[j] /\ j \in Nat
    BY <1>1, <1>2, <1>3, <1>6
  <2>2. \A i \in W : /\ 2 + i \in hits /\ nodes[2 + i].text = entries[i]
                     /\ 2 + i < 2 + j <=> i < j
    BY <1>1, <1>2, <1>3, <1>6
  <2>3. QED
    BY <1>3, <1>4, <1>5, <2>1, <2>2
<1>9. first \in SUBSET Nat /\ F \in SUBSET (1..n)
  <2>1. first \subseteq hits /\ F \subseteq W
    BY <1>4, <1>5
  <2>2. QED
    BY <1>2, <1>3, <1>6, <2>1
<1>10. /\ m \in Nat /\ DOMAIN Kept(entries, F) = 1..m
       /\ \A k \in 1..m : at[k] \in F /\ Kept(entries, F)[k] = entries[at[k]]
       /\ IsFiniteSet(F)
  <2>1. n \in Nat /\ F \in SUBSET (1..n)
    BY <1>2, <1>9
  <2>2. QED
    BY ONLY <2>1, KeptEntries
<1>11. /\ \A i \in F : \E k \in 1..m : at[k] = i
       /\ \A k, l \in 1..m : k < l => at[k] < at[l]
  <2>1. F \in SUBSET Nat /\ IsFiniteSet(F)
    BY <1>9, <1>10
  <2>2. QED
    BY ONLY <2>1, AscendingLists
<1>12. \A k \in 1..m : at[k] \in W /\ at[k] \in Nat /\ at[k] \in DOMAIN entries
  BY <1>2, <1>4, <1>6, <1>10
<1> HIDE DEF at, m
<1>13. \A k \in 1..m : g[k] = 2 + at[k]
  OBVIOUS
<1> HIDE DEF g
<1>14. /\ \A k \in 1..m : g[k] \in first
       /\ \A i \in first : \E k \in 1..m : g[k] = i
       /\ \A k, l \in 1..m : k < l => g[k] < g[l]
  <2>1. \A k \in 1..m : g[k] \in first
    BY <1>8, <1>10, <1>12, <1>13
  <2>2. ASSUME NEW i \in first
        PROVE  \E k \in 1..m : g[k] = i
    <3>1. PICK j \in W : i = 2 + j
      BY <1>3, <1>5
    <3>2. j \in F
      BY <1>8, <3>1
    <3>3. QED
      BY <1>11, <1>13, <3>1, <3>2
  <2>3. ASSUME NEW k \in 1..m, NEW l \in 1..m, k < l
        PROVE  g[k] < g[l]
    <3>1. at[k] < at[l] /\ at[k] \in Nat /\ at[l] \in Nat
      BY <1>11, <1>12, <2>3
    <3>2. QED
      BY <1>13, <3>1
  <2>4. QED
    BY <2>1, <2>2, <2>3
<1>15. Cardinality(first) = m /\ \A k \in 1..m : Ascending(first)[k] = g[k]
  <2>1. first \in SUBSET Nat /\ m \in Nat
    BY <1>9, <1>10
  <2>2. QED
    <3>1. ListsInOrder(first, m, g)
      BY <1>14 DEF ListsInOrder
    <3>2. QED
      BY <2>1, <3>1, AscendingIsUnique
<1>16. ASSUME NEW k \in 1..m
       PROVE  parts[k].id = Kept(entries, F)[k]
  <2>1. parts[k].id = nodes[Ascending(first)[k]].text
    BY <1>7, <1>15
  <2>2. Ascending(first)[k] = 2 + at[k] /\ at[k] \in DOMAIN entries
    BY <1>12, <1>13, <1>15
  <2>3. nodes[2 + at[k]].text = entries[at[k]]
    BY <1>1, <2>2
  <2>4. QED
    BY <1>10, <2>1, <2>2, <2>3
<1>17. [i \in DOMAIN parts |-> parts[i].id] = Kept(entries, F)
  <2>1. DOMAIN parts = 1..m
    BY <1>7, <1>15
  <2>2. Kept(entries, F) = [k \in 1..m |-> Kept(entries, F)[k]]
    BY DEF Kept, m
  <2>3. QED
    BY <1>16, <2>1, <2>2
<1>18. QED
  BY <1>7, <1>9, <1>17 DEF IsList, parts, nodes, F, n

LEMMA PageIsRead ==
    ASSUME source \in Watched, site \in Sites(source.type), source.type = "page_llm"
    PROVE  SiteIsRead
<1> DEFINE parts == Listing(source.selector, ListPage(site))
           texts == Kept(site, Firsts(site))
           text == IF Len(texts) <= MaxParts THEN texts
                   ELSE Append(SubSeq(texts, 1, MaxParts), "(truncated)")
<1>1. /\ source.selector.tag = "li" /\ source.selector.classes # {}
      /\ source.selector.classes \subseteq {"attachedfile", "new"}
  BY WatchedAssumption
<1>2. site \in Seq(Entries)
  BY ListsAreSequences DEF Lists
<1>3. /\ IsList(parts) /\ Firsts(site) \in SUBSET (1..Len(site))
      /\ [i \in DOMAIN parts |-> parts[i].id] = texts
  BY <1>1, <1>2, PageTexts
<1>4. Nodes(Render) = ListPage(site)
  BY DEF Render, Nodes, Page
<1>5. \A answer : Fetch(source, answer) = FetchPage(source, answer)
  BY DEF Fetch
<1>6. FetchPage(source, Render) = IF parts = <<>> THEN Failed ELSE Got(<<Plain(text)>>)
  BY <1>3, <1>4 DEF FetchPage
<1>7. \A answer \in Outages : FetchPage(source, answer) = Failed
  BY <1>1, NothingToList DEF FetchPage, Outages
<1>8. /\ Cardinality(Firsts(site)) \in Nat
      /\ DOMAIN texts = 1..Cardinality(Firsts(site))
      /\ Len(texts) = Cardinality(Firsts(site))
  <2>1. Len(site) \in Nat
    BY <1>2
  <2>2. QED
    BY <1>3, <2>1, KeptEntries
<1> DEFINE m == Cardinality(Firsts(site))
           S == {texts[i] : i \in 1..m}
<1>9. texts \in Seq(S)
  <2>1. texts = [k \in 1..m |-> texts[k]]
    BY DEF Kept
  <2>2. texts \in [1..m -> S]
    BY <2>1
  <2>3. m \in Nat
    BY <1>8
  <2> HIDE DEF texts, m, S
  <2>4. QED
    BY ONLY <2>2, <2>3
<1>10. TextOf(site) = text
  <2>1. TextOf(site) = IF Len(texts) > MaxParts
                       THEN Append(SubSeq(texts, 1, MaxParts), "(truncated)") ELSE texts
    BY DEF TextOf, Firsts
  <2>2. Len(texts) \in Nat /\ MaxParts \in Nat
    BY <1>8, PagesAssumption
  <2> HIDE DEF texts
  <2>3. QED
    BY <2>1, <2>2
<1> HIDE DEF texts, m, S
<1>11. text = <<>> <=> texts = <<>>
  <2>1. CASE Len(texts) <= MaxParts
    BY <2>1
  <2>2. CASE ~(Len(texts) <= MaxParts)
    <3> DEFINE short == SubSeq(texts, 1, MaxParts)
    <3>1. Len(texts) \in Nat /\ MaxParts \in Nat \ {0} /\ MaxParts <= Len(texts) /\ 1 \in 1..Len(texts) + 1
          /\ MaxParts \in 0..Len(texts)
      BY <1>8, <2>2, PagesAssumption DEF m
    <3>2. short \in Seq(S)
      BY <1>9, <3>1, SubSeqProperties
    <3> HIDE DEF short
    <3>3. Len(Append(short, "(truncated)")) = Len(short) + 1 /\ Len(short) \in Nat
      <4>1. short \in Seq(S \cup {"(truncated)"})
        BY <3>2
      <4>2. QED
        BY <4>1, AppendProperties
    <3>4. Append(short, "(truncated)") # <<>>
      BY <3>3
    <3>5. texts # <<>>
      BY <2>2, <3>1
    <3>6. QED
      BY <2>2, <3>4, <3>5 DEF short
  <2>3. QED
    BY <2>1, <2>2
<1>12. parts = <<>> <=> texts = <<>>
  BY <1>3, <1>8 DEF IsList
<1>13. Content = {text} \ {<<>>} /\ (HasContent <=> Content # {})
  BY <1>10 DEF Content, HasContent
<1> HIDE DEF text, parts
<1>14. IsList(<<Plain(text)>>) /\ Ids(<<Plain(text)>>) = {text} /\ Len(<<Plain(text)>>) = 1
  <2>1. Plain(text).id = text
    BY DEF Plain, Item
  <2> DEFINE item == Plain(text)
  <2> HIDE DEF item
  <2>2. IsList(<<item>>) /\ Ids(<<item>>) = {item.id} /\ Len(<<item>>) = 1
    BY DEF IsList, Ids
  <2>3. QED
    BY <2>1, <2>2 DEF item
<1>15. QED
  BY <1>5, <1>6, <1>7, <1>11, <1>12, <1>13, <1>14, Verdicts DEF SiteIsRead

-----------------------------------------------------------------------------
(* nfvl: each posted game has one row, under the heading of its date.      *)

GameDates == {g.date : g \in Games}
Posted(schedule) == {g \in Games : schedule.stage[g] > 1}
PostedOn(schedule, d) == {g \in Games : g.date = d /\ schedule.stage[g] > 1}
RowOf(schedule, g) == Row(g, schedule.stage[g], schedule.older)
HeadingOf(d) == [tag |-> "h5", text |-> d]
DayRows(schedule, d) ==
    [i \in DOMAIN SetToSeq(PostedOn(schedule, d)) |->
        RowOf(schedule, SetToSeq(PostedOn(schedule, d))[i])]
DayPage(schedule, d) == <<HeadingOf(d), HeaderRow>> \o DayRows(schedule, d)
PageNodes(schedule) ==
    {HeadingOf(d) : d \in GameDates} \cup {HeaderRow} \cup {RowOf(schedule, g) : g \in Games}

\* The ID and the title a posted game is to have.
KeyOf(schedule, g) ==
    IF Stages[schedule.stage[g]] = "linked" THEN <<"nfvl", g.number>>
    ELSE <<"nfvl", g.date, g.away, g.home>>

LEMMA GamesAreTyped ==
    /\ IsFiniteSet(Games)
    /\ \A g \in Games : /\ g.date # "" /\ g.away # "" /\ g.home # ""
                        /\ g.number \in Nat \ {0}
BY SitesAssumption

\* A game's row is read as the game, whatever its layout.
LEMMA RowIsRead ==
    ASSUME NEW g \in Games, NEW stage \in 1..4, NEW older \in BOOLEAN, NEW date
    PROVE  LET row == Row(g, stage, older)
               game == ParseRow(row, date)
           IN  /\ row.tag = "tr" /\ IsGame(row)
               /\ game.date = date /\ game.away = g.away /\ game.home = g.home
               /\ game.gameID = IF Stages[stage] = "linked" THEN g.number ELSE 0
<1> DEFINE played == Stages[stage] \in {"final", "linked"}
           score  == IF played THEN "2" ELSE ""
           c1 == Cell(IF played THEN "Final" ELSE "8:15 PM", "")
           s  == Cell(score, "")
           a  == Cell(g.away, g.away)
           h  == Cell(g.home, g.home)
           v  == Cell("gym", "")
           no == Cell("7", "")
           row == Row(g, stage, older)
           away == AwayCell(row.cells)
<1>1. /\ row.tag = "tr" /\ row.gameID = IF Stages[stage] = "linked" THEN g.number ELSE 0
      /\ row.cells = <<c1>> \o (IF older THEN <<no>> ELSE <<>>) \o <<a, s, h, s, v>>
  BY DEF Row
<1>2. a.team = g.away /\ h.team = g.home /\ a.team # "" /\ h.team # ""
  BY GamesAreTyped DEF Cell
<1>3. no.text \in Numbers
  <2>1. "7" \in Numbers
    BY SitesAssumption
  <2>2. QED
    BY <2>1 DEF Cell
<1> HIDE DEF row, c1, s, a, h, v, no
<1> DEFINE front == <<c1>> \o (IF older THEN <<no>> ELSE <<>>)
           rest == <<a, s, h, s, v>>
           S == {c1, s, a, h, v, no}
<1>4. /\ front \in Seq(S) /\ Len(front) = IF older THEN 2 ELSE 1
      /\ older => front[2] = no
  <2> DEFINE one == <<c1>>
             two == IF older THEN <<no>> ELSE <<>>
  <2>1. /\ one \in Seq(S) /\ two \in Seq(S) /\ Len(one) = 1
        /\ Len(two) = IF older THEN 1 ELSE 0
        /\ older => two[1] = no
    <3>1. one \in Seq(S) /\ Len(one) = 1
      OBVIOUS
    <3>2. CASE older
      <4>1. <<no>> \in Seq(S) /\ Len(<<no>>) = 1 /\ <<no>>[1] = no
        OBVIOUS
      <4>2. two = <<no>>
        BY <3>2
      <4> HIDE DEF one, two, S
      <4>3. QED
        BY <3>1, <3>2, <4>1, <4>2
    <3>3. CASE ~older
      <4>1. <<>> \in Seq(S) /\ Len(<<>>) = 0
        OBVIOUS
      <4>2. two = <<>>
        BY <3>3
      <4> HIDE DEF one, two, S
      <4>3. QED
        BY <3>1, <3>3, <4>1, <4>2
    <3>4. QED
      BY <3>2, <3>3
  <2> HIDE DEF one, two, S
  <2>2. /\ one \o two \in Seq(S) /\ Len(one \o two) = Len(one) + Len(two)
        /\ \A i \in 1..Len(two) : (one \o two)[Len(one) + i] = two[i]
    BY <2>1, OneAfterTheOther
  <2>3. older => 1 \in 1..Len(two) /\ Len(one) + 1 = 2
    BY <2>1
  <2>4. older => (one \o two)[2] = no
    BY <2>1, <2>2, <2>3
  <2>5. QED
    BY <2>1, <2>2, <2>4 DEF one, two
<1>5. /\ Len(row.cells) >= 6 /\ away + 2 \in 1..7
      /\ row.cells[away] = a /\ row.cells[away + 2] = h
  <2>1. rest \in Seq(S) /\ Len(rest) = 5 /\ rest[1] = a /\ rest[3] = h
    OBVIOUS
  <2> HIDE DEF front, rest, S
  <2>2. row.cells = front \o rest
    BY <1>1 DEF front, rest
  <2>3. /\ Len(row.cells) = Len(front) + Len(rest)
        /\ \A i \in 1..Len(front) : row.cells[i] = front[i]
        /\ \A i \in 1..Len(rest) : row.cells[Len(front) + i] = rest[i]
    <3>1. front \in Seq(S) /\ rest \in Seq(S)
      BY <1>4, <2>1
    <3>2. /\ Len(front \o rest) = Len(front) + Len(rest)
          /\ \A i \in 1..Len(front) : (front \o rest)[i] = front[i]
          /\ \A i \in 1..Len(rest) : (front \o rest)[Len(front) + i] = rest[i]
      BY ONLY <3>1, OneAfterTheOther
    <3>3. QED
      BY <2>2, <3>2
  <2>4. row.cells[Len(front) + 1] = a /\ row.cells[Len(front) + 3] = h
    BY <2>1, <2>3
  <2>5. CASE older
    <3>1. Len(row.cells) = 7 /\ row.cells[2] = no /\ row.cells[3] = a /\ row.cells[5] = h
      BY <1>4, <2>1, <2>3, <2>4, <2>5
    <3>2. away = 3
      BY <1>3, <3>1 DEF AwayCell
    <3>3. QED
      BY <3>1, <3>2
  <2>6. CASE ~older
    <3>1. Len(row.cells) = 6 /\ row.cells[2] = a /\ row.cells[4] = h
      BY <1>4, <2>1, <2>3, <2>4, <2>6
    <3>2. away = 2
      BY <3>1 DEF AwayCell
    <3>3. QED
      BY <3>1, <3>2
  <2>7. QED
    BY <2>5, <2>6
<1>6. IsGame(row)
  BY <1>2, <1>5 DEF IsGame
<1>7. /\ ParseRow(row, date).date = date
      /\ ParseRow(row, date).away = row.cells[away].team
      /\ ParseRow(row, date).home = row.cells[away + 2].team
      /\ ParseRow(row, date).gameID = row.gameID
  BY DEF ParseRow
<1>8. QED
  BY <1>1, <1>2, <1>5, <1>6, <1>7 DEF row

LEMMA AwayCells ==
    \A cells : AwayCell(cells) \in 1..7
BY DEF AwayCell

LEMMA HeadingsAreNoGames ==
    ASSUME NEW d, d # ""
    PROVE  /\ HeaderRow.tag = "tr" /\ ~IsGame(HeaderRow) /\ ~IsHeading(HeaderRow)
           /\ HeadingOf(d).tag # "tr" /\ IsHeading(HeadingOf(d)) /\ HeadingOf(d).text = d
<1>1. HeaderRow.tag = "tr" /\ \A i \in 1..7 : HeaderRow.cells[i].team = ""
  BY DEF HeaderRow, Cell
<1>2. AwayCell(HeaderRow.cells) \in 1..7
  BY AwayCells
<1>3. ~IsGame(HeaderRow)
  BY <1>1, <1>2 DEF IsGame
<1>4. ~IsHeading(HeaderRow)
  BY <1>1 DEF IsHeading
<1>5. HeadingOf(d).tag = "h5" /\ HeadingOf(d).text = d
  BY DEF HeadingOf
<1>6. IsHeading(HeadingOf(d))
  BY <1>5 DEF IsHeading
<1>7. QED
  BY <1>1, <1>3, <1>4, <1>5, <1>6

\* What is on the page of one date.
LEMMA DayIsRead ==
    ASSUME NEW schedule \in Schedules, NEW d \in GameDates
    PROVE  LET day == DayPage(schedule, d)
               list == SetToSeq(PostedOn(schedule, d))
               m == Len(list)
           IN  /\ day \in Seq(PageNodes(schedule)) /\ m \in Nat /\ Len(day) = 2 + m
               /\ day[1] = HeadingOf(d) /\ day[2] = HeaderRow
               /\ \A k \in 1..m : /\ 2 + k \in 1..Len(day)
                                  /\ list[k] \in PostedOn(schedule, d)
                                  /\ day[2 + k] = RowOf(schedule, list[k])
               /\ \A i \in 1..Len(day) : i = 1 \/ i = 2 \/ \E k \in 1..m : i = 2 + k
               /\ \A g \in PostedOn(schedule, d) : \E k \in 1..m : list[k] = g
               /\ \A k, l \in 1..m : list[k] = list[l] => k = l
<1> DEFINE today == PostedOn(schedule, d)
           list == SetToSeq(today)
           m == Len(list)
           head == <<HeadingOf(d), HeaderRow>>
           rows == DayRows(schedule, d)
           S == PageNodes(schedule)
           day == DayPage(schedule, d)
<1>1. IsFiniteSet(today)
  <2>1. today \subseteq Games
    BY DEF PostedOn
  <2>2. QED
    BY <2>1, GamesAreTyped, FS_Subset
<1>2. /\ m \in Nat /\ DOMAIN list = 1..m /\ \A k \in 1..m : list[k] \in today
      /\ \A g \in today : \E k \in 1..m : list[k] = g
      /\ \A k, l \in 1..m : list[k] = list[l] => k = l
  <2>1. /\ Cardinality(today) \in Nat /\ list \in [1..Cardinality(today) -> today]
        /\ Len(list) = Cardinality(today)
        /\ \A g \in today : \E k \in 1..Cardinality(today) : list[k] = g
        /\ \A k, l \in 1..Cardinality(today) : list[k] = list[l] => k = l
    BY <1>1, SetToSeqLists
  <2> HIDE DEF list
  <2>2. QED
    BY <2>1
<1>3. day = head \o rows
  BY DEF DayPage
<1>4. head \in Seq(S) /\ Len(head) = 2 /\ head[1] = HeadingOf(d) /\ head[2] = HeaderRow
  <2>1. HeadingOf(d) \in S /\ HeaderRow \in S
    BY DEF PageNodes
  <2> HIDE DEF S
  <2>2. QED
    BY <2>1
<1>5. /\ DOMAIN rows = 1..m /\ rows = [k \in 1..m |-> rows[k]]
      /\ \A k \in 1..m : rows[k] = RowOf(schedule, list[k])
  <2>1. rows = [k \in DOMAIN list |-> RowOf(schedule, list[k])]
    BY DEF DayRows
  <2> HIDE DEF list, m, rows
  <2>2. QED
    BY <1>2, <2>1
<1>6. rows \in Seq(S) /\ Len(rows) = m
  <2>1. \A k \in 1..m : rows[k] \in S
    <3>1. \A g \in today : RowOf(schedule, g) \in S
      BY DEF PageNodes, PostedOn
    <3> HIDE DEF list, m, rows, S, today
    <3>2. QED
      BY <1>2, <1>5, <3>1
  <2> HIDE DEF list, m, rows, S
  <2>2. rows \in [1..m -> S]
    BY <1>5, <2>1
  <2>3. QED
    BY <1>2, <2>2
<1> HIDE DEF list, m, head, rows, S, day, today
<1>7. /\ head \o rows \in Seq(S) /\ Len(head \o rows) = Len(head) + Len(rows)
      /\ \A i \in 1..Len(head) : i \in 1..Len(head \o rows) /\ (head \o rows)[i] = head[i]
      /\ \A i \in 1..Len(rows) : /\ Len(head) + i \in 1..Len(head \o rows)
                                 /\ (head \o rows)[Len(head) + i] = rows[i]
      /\ \A i \in 1..Len(head \o rows) :
            i \in 1..Len(head) \/ \E j \in 1..Len(rows) : i = Len(head) + j
  <2>1. head \in Seq(S) /\ rows \in Seq(S)
    BY <1>4, <1>6
  <2>2. QED
    BY ONLY <2>1, OneAfterTheOther
<1>8. 1 \in 1..2 /\ 2 \in 1..2 /\ \A i \in 1..2 : i = 1 \/ i = 2
  OBVIOUS
<1>9. /\ day \in Seq(S) /\ Len(day) = 2 + m
      /\ day[1] = HeadingOf(d) /\ day[2] = HeaderRow
      /\ \A k \in 1..m : 2 + k \in 1..Len(day) /\ day[2 + k] = RowOf(schedule, list[k])
      /\ \A i \in 1..Len(day) : i = 1 \/ i = 2 \/ \E k \in 1..m : i = 2 + k
  <2>1. Len(head) = 2 /\ Len(rows) = m /\ day = head \o rows
    BY <1>3, <1>4, <1>6
  <2>2. day \in Seq(S) /\ Len(day) = 2 + m
    BY <1>7, <2>1
  <2>3. day[1] = HeadingOf(d) /\ day[2] = HeaderRow
    BY <1>4, <1>7, <1>8, <2>1
  <2>4. \A k \in 1..m : 2 + k \in 1..Len(day) /\ day[2 + k] = RowOf(schedule, list[k])
    BY <1>5, <1>7, <2>1
  <2>5. \A i \in 1..Len(day) : i = 1 \/ i = 2 \/ \E k \in 1..m : i = 2 + k
    BY <1>7, <1>8, <2>1
  <2>6. QED
    BY <2>2, <2>3, <2>4, <2>5
<1>10. QED
  BY <1>2, <1>9 DEF list, m, day, today, S

\* Each of the games has its row at place[g], and there are no other games.
Placed(nodes, games, place, schedule) ==
    /\ nodes \in Seq(PageNodes(schedule))
    /\ \A g \in games : /\ place[g] \in 1..Len(nodes)
                        /\ nodes[place[g]] = RowOf(schedule, g)
                        /\ DateAbove(nodes, place[g]) = g.date
    /\ \A i \in 1..Len(nodes) : nodes[i].tag = "tr" /\ IsGame(nodes[i])
                                    => \E g \in games : place[g] = i

\* A further date adds its games.
LEMMA MoreDates ==
    ASSUME NEW schedule \in Schedules, NEW d \in GameDates, NEW nodes,
           NEW games \in SUBSET Games, \A g \in games : g.date # d,
           NEW place, Placed(nodes, games, place, schedule)
    PROVE  \E new : Placed(nodes \o DayPage(schedule, d),
                           games \cup PostedOn(schedule, d), new, schedule)
<1> DEFINE today == PostedOn(schedule, d)
           list == SetToSeq(today)
           m == Len(list)
           n == Len(nodes)
           day == DayPage(schedule, d)
           all == nodes \o day
           S == PageNodes(schedule)
           nth(g) == CHOOSE k \in 1..m : list[k] = g
           new == [g \in games \cup today |-> IF g \in games THEN place[g] ELSE n + (2 + nth(g))]
<1>1. /\ day \in Seq(S) /\ m \in Nat /\ Len(day) = 2 + m
      /\ day[1] = HeadingOf(d) /\ day[2] = HeaderRow
      /\ \A k \in 1..m : /\ 2 + k \in 1..Len(day) /\ list[k] \in today
                         /\ day[2 + k] = RowOf(schedule, list[k])
      /\ \A i \in 1..Len(day) : i = 1 \/ i = 2 \/ \E k \in 1..m : i = 2 + k
      /\ \A g \in today : \E k \in 1..m : list[k] = g
      /\ \A k, l \in 1..m : list[k] = list[l] => k = l
  BY DayIsRead
<1>2. \A g \in today : g \in Games /\ g.date = d
  BY DEF PostedOn
<1>3. /\ nodes \in Seq(S)
      /\ \A g \in games : /\ place[g] \in 1..n /\ nodes[place[g]] = RowOf(schedule, g)
                          /\ DateAbove(nodes, place[g]) = g.date
      /\ \A i \in 1..n : nodes[i].tag = "tr" /\ IsGame(nodes[i])
                             => \E g \in games : place[g] = i
  BY DEF Placed
<1> HIDE DEF today, list, m, n, day, all, S
<1>4. /\ all \in Seq(S) /\ n \in Nat /\ Len(all) = n + (2 + m)
      /\ \A i \in 1..n : i \in 1..Len(all) /\ all[i] = nodes[i]
      /\ \A i \in 1..(2 + m) : n + i \in 1..Len(all) /\ all[n + i] = day[i]
      /\ \A i \in 1..Len(all) : i \in 1..n \/ \E j \in 1..(2 + m) : i = n + j
  <2>1. nodes \in Seq(S) /\ day \in Seq(S)
    BY <1>1, <1>3
  <2>2. /\ nodes \o day \in Seq(S) /\ Len(nodes) \in Nat
        /\ Len(nodes \o day) = Len(nodes) + Len(day)
        /\ \A i \in 1..Len(nodes) : i \in 1..Len(nodes \o day) /\ (nodes \o day)[i] = nodes[i]
        /\ \A i \in 1..Len(day) : /\ Len(nodes) + i \in 1..Len(nodes \o day)
                                  /\ (nodes \o day)[Len(nodes) + i] = day[i]
        /\ \A i \in 1..Len(nodes \o day) :
              i \in 1..Len(nodes) \/ \E j \in 1..Len(day) : i = Len(nodes) + j
    BY ONLY <2>1, OneAfterTheOther
  <2>3. Len(day) = 2 + m
    BY <1>1
  <2>4. QED
    BY <2>2, <2>3 DEF all, n
\* The rows of the new date.
<1>5. /\ HeaderRow.tag = "tr" /\ ~IsGame(HeaderRow) /\ ~IsHeading(HeaderRow)
      /\ HeadingOf(d).tag # "tr" /\ IsHeading(HeadingOf(d)) /\ HeadingOf(d).text = d
  <2>1. d # ""
    BY GamesAreTyped DEF GameDates
  <2>2. QED
    BY <2>1, HeadingsAreNoGames
<1>6. ASSUME NEW g \in Games
      PROVE  RowOf(schedule, g).tag = "tr" /\ ~IsHeading(RowOf(schedule, g))
  <2>1. schedule.stage[g] \in 1..4 /\ schedule.older \in BOOLEAN
    BY DEF Schedules
  <2>2. RowOf(schedule, g).tag = "tr"
    BY <2>1, RowIsRead DEF RowOf
  <2>3. QED
    BY <2>2 DEF IsHeading
<1>7. /\ all[n + 1] = HeadingOf(d) /\ all[n + 2] = HeaderRow
      /\ \A k \in 1..m : /\ n + (2 + k) \in 1..Len(all)
                         /\ all[n + (2 + k)] = RowOf(schedule, list[k])
  <2>1. 1 \in 1..(2 + m) /\ 2 \in 1..(2 + m) /\ \A k \in 1..m : 2 + k \in 1..(2 + m)
    BY <1>1
  <2>2. QED
    BY <1>1, <1>4, <2>1
<1>8. ASSUME NEW k \in 1..m
      PROVE  DateAbove(all, n + (2 + k)) = d
  <2> DEFINE i == n + (2 + k)
  <2>1. i \in Nat /\ n + 1 \in 1..(i - 1) /\ \A y \in 1..(i - 1) : y \in 1..Len(all)
    BY <1>1, <1>4
  <2>2. ASSUME NEW y \in 1..(i - 1), IsHeading(all[y])
        PROVE  y <= n + 1
    <3>1. CASE y \in 1..n
      BY <1>4, <3>1
    <3>2. CASE y \notin 1..n
      <4>1. PICK j \in 1..(2 + m) : y = n + j
        BY <1>4, <2>1, <3>2
      <4>2. all[y] = day[j]
        BY <1>4, <4>1
      <4>3. j = 1 \/ j = 2 \/ \E l \in 1..m : j = 2 + l
        BY <1>1
      <4>4. ~IsHeading(day[2]) /\ \A l \in 1..m : ~IsHeading(day[2 + l])
        <5>1. ASSUME NEW l \in 1..m
              PROVE  ~IsHeading(day[2 + l])
          <6>1. list[l] \in Games
            BY <1>1, <1>2
          <6>2. day[2 + l] = RowOf(schedule, list[l])
            BY <1>1
          <6>3. QED
            BY <1>6, <6>1, <6>2
        <5>2. QED
          BY <1>1, <1>5, <5>1
      <4>5. j = 1
        BY <2>2, <4>2, <4>3, <4>4
      <4>6. QED
        BY <1>4, <4>1, <4>5
    <3>3. QED
      BY <3>1, <3>2
  <2> HIDE DEF i
  <2>3. n + 1 \in Heads(all, i) /\ \A y \in Heads(all, i) : y <= n + 1
    BY <1>5, <1>7, <2>1, <2>2 DEF Heads
  <2>4. DateAbove(all, i) = all[n + 1].text
    BY <2>1, <2>3, DatesAbove
  <2>5. QED
    BY <1>5, <1>7, <2>4 DEF i
<1>9. ASSUME NEW k \in 1..Len(nodes)
      PROVE  DateAbove(all, k) = DateAbove(nodes, k)
  <2>1. k \in Nat /\ \A j \in 1..(k - 1) : j \in 1..n
    BY <1>4 DEF n
  <2>2. \A j \in 1..(k - 1) : all[j] = nodes[j]
    BY <1>4, <2>1
  <2>3. QED
    BY <2>1, <2>2, DatesAbove
\* Where the games of the new date are.
<1>10. ASSUME NEW g \in today
       PROVE  nth(g) \in 1..m /\ list[nth(g)] = g /\ new[g] = n + (2 + nth(g))
  <2>1. nth(g) \in 1..m /\ list[nth(g)] = g
    BY <1>1
  <2>2. g \notin games
    BY <1>2
  <2> HIDE DEF nth
  <2>3. QED
    BY <2>1, <2>2
<1>11. \A g \in games : new[g] = place[g]
  OBVIOUS
<1> HIDE DEF nth, new
<1>12. ASSUME NEW g \in games \cup today
       PROVE  /\ new[g] \in 1..Len(all) /\ all[new[g]] = RowOf(schedule, g)
              /\ DateAbove(all, new[g]) = g.date
  <2>1. CASE g \in games
    <3>1. place[g] \in 1..n /\ new[g] = place[g]
      BY <1>3, <1>11, <2>1
    <3>2. DateAbove(all, place[g]) = g.date
      BY <1>3, <1>9, <2>1, <3>1 DEF n
    <3>3. QED
      BY <1>3, <1>4, <2>1, <3>1, <3>2
  <2>2. CASE g \in today
    <3>1. nth(g) \in 1..m /\ list[nth(g)] = g /\ new[g] = n + (2 + nth(g))
      BY <1>10, <2>2
    <3>2. DateAbove(all, n + (2 + nth(g))) = d
      BY <1>8, <3>1
    <3>3. QED
      BY <1>2, <1>7, <2>2, <3>1, <3>2
  <2>3. QED
    BY <2>1, <2>2
<1>13. ASSUME NEW i \in 1..Len(all), all[i].tag = "tr", IsGame(all[i])
       PROVE  \E g \in games \cup today : new[g] = i
  <2>1. CASE i \in 1..n
    <3>1. all[i] = nodes[i]
      BY <1>4, <2>1
    <3>2. PICK g \in games : place[g] = i
      BY <1>3, <1>13, <2>1, <3>1
    <3>3. QED
      BY <1>11, <3>2
  <2>2. CASE i \notin 1..n
    <3>1. PICK j \in 1..(2 + m) : i = n + j
      BY <1>4, <2>2
    <3>2. all[i] = day[j]
      BY <1>4, <3>1
    <3>3. j = 1 \/ j = 2 \/ \E k \in 1..m : j = 2 + k
      BY <1>1
    <3>4. PICK k \in 1..m : j = 2 + k
      BY <1>1, <1>5, <1>13, <3>2, <3>3
    <3>5. list[k] \in today /\ nth(list[k]) = k
      <4>1. list[k] \in today
        BY <1>1
      <4>2. nth(list[k]) \in 1..m /\ list[nth(list[k])] = list[k]
        BY <1>10, <4>1
      <4>3. QED
        BY <1>1, <4>1, <4>2
    <3>6. new[list[k]] = i
      BY <1>10, <3>1, <3>4, <3>5
    <3>7. QED
      BY <3>5, <3>6
  <2>3. QED
    BY <2>1, <2>2
<1>14. Placed(all, games \cup today, new, schedule)
  BY <1>4, <1>12, <1>13 DEF Placed, S
<1>15. QED
  BY <1>14 DEF all, day, today

LEMMA ScheduleIsPlaced ==
    ASSUME NEW schedule \in Schedules
    PROVE  \E place : Placed(SchedulePage(schedule), Posted(schedule), place, schedule)
<1> DEFINE dates == SetToSeq(GameDates)
           n == Len(dates)
           seqs == [i \in DOMAIN dates |-> DayPage(schedule, dates[i])]
           Upto(t) == {g \in Posted(schedule) : \E i \in 1..t : dates[i] = g.date}
<1>1. SchedulePage(schedule) = FlattenSeq(seqs)
  BY DEF SchedulePage, GameDates, DayPage, DayRows, HeadingOf, RowOf, PostedOn
<1>2. IsFiniteSet(GameDates)
  <2> DEFINE f == [g \in Games |-> g.date]
  <2>1. \A d \in GameDates : \E g \in Games : f[g] = d
    BY DEF GameDates
  <2> HIDE DEF f
  <2>2. QED
    <3>1. IsFiniteSet(Games)
      BY GamesAreTyped
    <3>2. QED
      BY ONLY <2>1, <3>1, NoMoreThan
<1>3. /\ n \in Nat /\ DOMAIN dates = 1..n /\ \A i \in 1..n : dates[i] \in GameDates
      /\ \A d \in GameDates : \E i \in 1..n : dates[i] = d
      /\ \A i, j \in 1..n : dates[i] = dates[j] => i = j
  <2>1. /\ Cardinality(GameDates) \in Nat /\ dates \in [1..Cardinality(GameDates) -> GameDates]
        /\ Len(dates) = Cardinality(GameDates)
        /\ \A d \in GameDates : \E i \in 1..Cardinality(GameDates) : dates[i] = d
        /\ \A i, j \in 1..Cardinality(GameDates) : dates[i] = dates[j] => i = j
    BY <1>2, SetToSeqLists
  <2> HIDE DEF dates
  <2>2. QED
    BY <2>1
<1>4. \A g \in Posted(schedule) : g \in Games /\ g.date \in GameDates
  BY DEF Posted, GameDates
<1>5. \A d : PostedOn(schedule, d) = {g \in Posted(schedule) : g.date = d}
  BY DEF Posted, PostedOn
<1> HIDE DEF dates
<1>6. Len(seqs) = n /\ \A i \in 1..n : seqs[i] = DayPage(schedule, dates[i])
  BY <1>3
<1>7. Placed(<<>>, {}, <<>>, schedule)
  <2>1. <<>> \in Seq(PageNodes(schedule)) /\ \A i \in 1..Len(<<>>) : FALSE
    OBVIOUS
  <2>2. QED
    BY <2>1 DEF Placed
<1>8. CASE n = 0
  <2>1. Posted(schedule) = {}
    BY <1>3, <1>4, <1>8
  <2>2. seqs = <<>>
    BY <1>3, <1>8
  <2> HIDE DEF seqs, n
  <2>3. FlattenSeq(seqs) = <<>>
    BY <1>6, <1>8, <2>2 DEF FlattenSeq
  <2>4. QED
    BY <1>1, <1>7, <2>1, <2>3
<1>9. CASE n # 0
  <2> HIDE DEF seqs
  <2>1. PICK flat : /\ flat[1] = seqs[1]
                    /\ \A i \in 2..n : flat[i] = flat[i - 1] \o seqs[i]
                    /\ FlattenSeq(seqs) = flat[n]
    <3>1. Len(seqs) \in Nat \ {0}
      BY <1>3, <1>6, <1>9
    <3>2. \E flat : /\ flat[1] = seqs[1]
                    /\ \A i \in 2..Len(seqs) : flat[i] = flat[i - 1] \o seqs[i]
                    /\ FlattenSeq(seqs) = flat[Len(seqs)]
      BY ONLY <3>1, FlattenSteps
    <3>3. QED
      BY <1>6, <3>2
  <2> HIDE DEF n
  <2> DEFINE At(t) == IF t = 0 THEN <<>> ELSE flat[t]
             K == {t \in 0..n : \E place : Placed(At(t), Upto(t), place, schedule)}
  <2>2. 0 \in K
    <3>1. Upto(0) = {} /\ 0 \in 0..n
      BY <1>3
    <3>2. Placed(At(0), Upto(0), <<>>, schedule)
      BY <1>7, <3>1
    <3> HIDE DEF At, Upto
    <3>3. QED
      BY <3>1, <3>2
  <2>3. ASSUME NEW t \in 1..n, t - 1 \in K
        PROVE  t \in K
    <3> DEFINE d == dates[t]
    <3>1. PICK place : Placed(At(t - 1), Upto(t - 1), place, schedule)
      BY <2>3
    <3>2. d \in GameDates /\ t - 1 \in 0..n /\ t \in 0..n
      BY <1>3
    <3>3. \A g \in Upto(t - 1) : g \in Games /\ g.date # d
      <4>1. \A i \in 1..(t - 1) : i \in 1..n /\ i # t
        BY <1>3
      <4>2. QED
        BY <1>3, <1>4, <4>1
    <3>4. Upto(t) = Upto(t - 1) \cup PostedOn(schedule, d)
      <4>1. \A i : i \in 1..t <=> i \in 1..(t - 1) \/ i = t
        BY <1>3
      <4>2. QED
        BY <1>5, <4>1
    <3>5. At(t) = At(t - 1) \o DayPage(schedule, d)
      <4>1. CASE t = 1
        <5>1. At(t - 1) = <<>> /\ At(t) = DayPage(schedule, d)
          BY <1>6, <2>1, <4>1
        <5>2. DayPage(schedule, d) \in Seq(PageNodes(schedule))
          BY <3>2, DayIsRead
        <5>3. <<>> \o DayPage(schedule, d) = DayPage(schedule, d)
          BY <5>2, ConcatEmptySeq
        <5>4. QED
          BY <5>1, <5>3
      <4>2. CASE t # 1
        <5>1. t \in 2..n /\ t - 1 # 0 /\ t # 0
          BY <4>2
        <5>2. At(t) = flat[t] /\ At(t - 1) = flat[t - 1]
          BY <5>1
        <5>3. QED
          BY <1>6, <2>1, <5>1, <5>2
      <4>3. QED
        BY <4>1, <4>2
    <3> HIDE DEF d, At, Upto
    <3>6. \E new : Placed(At(t - 1) \o DayPage(schedule, d),
                          Upto(t - 1) \cup PostedOn(schedule, d), new, schedule)
      <4>1. Upto(t - 1) \in SUBSET Games
        BY <3>3
      <4>2. QED
        BY <3>1, <3>2, <3>3, <4>1, MoreDates
    <3>7. QED
      BY <3>2, <3>4, <3>5, <3>6
  <2>4. n \in K
    <3>1. n \in Nat /\ n \in 0..n
      BY <1>3
    <3> HIDE DEF K
    <3>2. \A t \in 0..n : t \in K
      BY <2>2, <2>3, <3>1, Induction
    <3>3. QED
      BY <3>1, <3>2
  <2>5. Upto(n) = Posted(schedule)
    BY <1>3, <1>4
  <2>6. At(n) = FlattenSeq(seqs)
    BY <1>9, <2>1
  <2>7. QED
    BY <1>1, <2>4, <2>5, <2>6
<1>10. QED
  BY <1>8, <1>9

\* The items are the posted games, one each.
Listed(items, schedule) ==
    /\ IsList(items)
    /\ \E pos :
          /\ \A g \in Posted(schedule) :
                /\ pos[g] \in DOMAIN items
                /\ items[pos[g]].id = KeyOf(schedule, g)
                /\ items[pos[g]].title[1] = g.date
                /\ items[pos[g]].title[3] = g.away
                /\ items[pos[g]].title[4] = g.home
          /\ \A k \in DOMAIN items : \E g \in Posted(schedule) : pos[g] = k

LEMMA GamesAreItems ==
    ASSUME NEW g \in Games, NEW schedule \in Schedules
    PROVE  LET item == GameItem(ParseRow(RowOf(schedule, g), g.date))
           IN  /\ item.id = KeyOf(schedule, g)
               /\ item.title[1] = g.date /\ item.title[3] = g.away /\ item.title[4] = g.home
<1> DEFINE game == ParseRow(RowOf(schedule, g), g.date)
           stage == schedule.stage[g]
<1>1. stage \in 1..4 /\ schedule.older \in BOOLEAN
  BY DEF Schedules
<1>2. /\ game.date = g.date /\ game.away = g.away /\ game.home = g.home
      /\ game.gameID = IF Stages[stage] = "linked" THEN g.number ELSE 0
  BY <1>1, RowIsRead DEF RowOf
<1> HIDE DEF game
<1>3. /\ GameItem(game).id = GameKey(game)
      /\ GameItem(game).title = <<game.date, game.status, game.away, game.home>>
  BY DEF GameItem, Item
<1>4. GameKey(game) = KeyOf(schedule, g)
  <2>1. g.number # 0
    BY GamesAreTyped
  <2>2. QED
    BY <1>2, <2>1 DEF GameKey, KeyOf
<1>5. /\ GameItem(game).title[1] = game.date /\ GameItem(game).title[3] = game.away
      /\ GameItem(game).title[4] = game.home
  BY <1>3
<1>6. QED
  BY <1>2, <1>3, <1>4, <1>5 DEF game

LEMMA ScheduleIsRead ==
    ASSUME source.type = "nfvl", site \in Schedules
    PROVE  LET result == FetchNFVL(source, Page(SchedulePage(site)))
           IN  IF Posted(site) = {} THEN result = Failed
               ELSE result.ok = TRUE /\ Listed(result.items, site)
<1> DEFINE nodes == SchedulePage(site)
           games == Posted(site)
           parsed == ParseSchedule(nodes)
           items == [i \in DOMAIN parsed |-> GameItem(parsed[i])]
<1>1. PICK place : Placed(nodes, games, place, site)
  BY ScheduleIsPlaced
<1>2. Nodes(Page(nodes)) = nodes
  BY DEF Nodes, Page
<1>3. FetchNFVL(source, Page(nodes)) = IF parsed = <<>> THEN Failed ELSE Got(items)
  BY <1>2 DEF FetchNFVL
<1> HIDE DEF nodes
<1>4. games \subseteq Games
  BY DEF Posted
<1> HIDE DEF games
<1>5. /\ IsList(nodes) /\ DOMAIN nodes = 1..Len(nodes)
      /\ \A g \in games : /\ place[g] \in 1..Len(nodes)
                          /\ nodes[place[g]] = RowOf(site, g)
                          /\ DateAbove(nodes, place[g]) = g.date
      /\ \A i \in 1..Len(nodes) : nodes[i].tag = "tr" /\ IsGame(nodes[i])
                                      => \E g \in games : place[g] = i
  BY <1>1 DEF Placed, IsList
<1>6. ASSUME NEW g \in games
      PROVE  RowOf(site, g).tag = "tr" /\ IsGame(RowOf(site, g))
  <2>1. g \in Games /\ site.stage[g] \in 1..4 /\ site.older \in BOOLEAN
    BY <1>4 DEF Schedules
  <2>2. QED
    BY <2>1, RowIsRead DEF RowOf
<1>7. RowsAreAt(nodes, games, place)
  <2>1. GameRows(nodes) \subseteq {place[g] : g \in games}
    BY <1>5 DEF GameRows
  <2>2. {place[g] : g \in games} \subseteq GameRows(nodes)
    BY <1>5, <1>6 DEF GameRows
  <2>3. QED
    BY <2>1, <2>2 DEF RowsAreAt
<1>8. /\ IsList(parsed) /\ (parsed = <<>> <=> games = {})
      /\ \E pos :
            /\ \A g \in games :
                  /\ pos[g] \in DOMAIN parsed
                  /\ parsed[pos[g]] = ParseRow(nodes[place[g]], DateAbove(nodes, place[g]))
            /\ \A k \in DOMAIN parsed : \E g \in games : pos[g] = k
  <2>1. IsList(nodes)
    BY <1>5
  <2>2. QED
    BY ONLY <1>7, <2>1, ScheduleIsParsed
<1> HIDE DEF parsed
<1>9. PICK pos :
          /\ \A g \in games :
                /\ pos[g] \in DOMAIN parsed
                /\ parsed[pos[g]] = ParseRow(RowOf(site, g), g.date)
          /\ \A k \in DOMAIN parsed : \E g \in games : pos[g] = k
  BY <1>5, <1>8
<1>10. IsList(items) /\ DOMAIN items = DOMAIN parsed
  BY <1>8 DEF IsList
<1>11. ASSUME NEW g \in games
       PROVE  /\ pos[g] \in DOMAIN items
              /\ items[pos[g]].id = KeyOf(site, g)
              /\ items[pos[g]].title[1] = g.date
              /\ items[pos[g]].title[3] = g.away
              /\ items[pos[g]].title[4] = g.home
  <2>1. items[pos[g]] = GameItem(ParseRow(RowOf(site, g), g.date)) /\ g \in Games
    BY <1>4, <1>9
  <2> HIDE DEF items
  <2>2. QED
    BY <1>9, <1>10, <2>1, GamesAreItems
<1> HIDE DEF items
<1>12. Listed(items, site)
  BY <1>9, <1>10, <1>11 DEF Listed, games
<1>13. QED
  BY <1>3, <1>8, <1>12, Verdicts DEF nodes, games

\* The IDs are then the content of the site.
LEMMA ListedIsContent ==
    ASSUME NEW items, NEW schedule, Listed(items, schedule)
    PROVE  Ids(items) = {KeyOf(schedule, g) : g \in Posted(schedule)}
<1>1. PICK pos :
          /\ \A g \in Posted(schedule) : /\ pos[g] \in DOMAIN items
                                         /\ items[pos[g]].id = KeyOf(schedule, g)
          /\ \A k \in DOMAIN items : \E g \in Posted(schedule) : pos[g] = k
  BY DEF Listed
<1>2. Ids(items) \subseteq {KeyOf(schedule, g) : g \in Posted(schedule)}
  BY <1>1 DEF Ids
<1>3. {KeyOf(schedule, g) : g \in Posted(schedule)} \subseteq Ids(items)
  BY <1>1 DEF Ids
<1>4. QED
  BY <1>2, <1>3

LEMMA NFVLIsRead ==
    ASSUME source \in Watched, site \in Sites(source.type), source.type = "nfvl"
    PROVE  SiteIsRead
<1>1. site \in Schedules
  BY DEF Sites, Lists
<1>2. Render = Page(SchedulePage(site)) /\ \A answer : Fetch(source, answer) = FetchNFVL(source, answer)
  BY DEF Render, Fetch
<1>3. /\ Content = {KeyOf(site, g) : g \in Posted(site)}
      /\ HasContent <=> Content # {}
  BY DEF Content, HasContent, KeyOf, Posted
<1>4. HasContent <=> Posted(site) # {}
  BY <1>3
<1>5. IF Posted(site) = {} THEN Fetch(source, Render) = Failed
      ELSE Fetch(source, Render).ok = TRUE /\ Listed(Fetch(source, Render).items, site)
  <2> DEFINE result == FetchNFVL(source, Page(SchedulePage(site)))
  <2>1. IF Posted(site) = {} THEN result = Failed
        ELSE result.ok = TRUE /\ Listed(result.items, site)
    BY <1>1, ScheduleIsRead
  <2>2. Fetch(source, Render) = result
    BY <1>2
  <2> HIDE DEF result
  <2>3. QED
    BY <2>1, <2>2
<1>6. ASSUME NEW answer \in Outages
      PROVE  Fetch(source, answer) = Failed
  <2> DEFINE script == Element("script", {}, "are you human?")
             nodes == Nodes(answer)
  <2>1. answer \in {NoAnswer, Challenge, OtherDocument}
    BY DEF Outages
  <2>2. nodes = <<>> \/ nodes = <<script>>
    <3>1. Nodes(NoAnswer) = <<>> /\ Nodes(OtherDocument) = <<>>
      BY DEF Nodes, NoAnswer, OtherDocument
    <3>2. Nodes(Challenge) = <<script>>
      BY DEF Nodes, Challenge, Page
    <3> HIDE DEF script
    <3>3. QED
      BY <2>1, <3>1, <3>2
  <2>3. script.tag # "tr"
    BY DEF Element
  <2> HIDE DEF script, nodes
  <2>4. IsList(nodes) /\ GameRows(nodes) = {}
    <3>1. IsList(<<>>) /\ IsList(<<script>>) /\ <<script>>[1] = script
          /\ DOMAIN <<>> = {} /\ DOMAIN <<script>> = {1}
      BY DEF IsList
    <3>2. QED
      BY <2>2, <2>3, <3>1 DEF GameRows
  <2>5. RowsAreAt(nodes, {}, <<>>)
    BY <2>4 DEF RowsAreAt
  <2>6. ParseSchedule(nodes) = <<>>
    BY <2>4, <2>5, ScheduleIsParsed
  <2>7. QED
    BY <1>2, <2>6 DEF FetchNFVL, nodes
<1>7. HasContent => IsList(Fetch(source, Render).items) /\ Ids(Fetch(source, Render).items) = Content
  BY <1>3, <1>4, <1>5, ListedIsContent DEF Listed
<1>8. QED
  BY <1>4, <1>5, <1>6, <1>7, Verdicts DEF SiteIsRead, SingleTypes

-----------------------------------------------------------------------------
(* What a check finds, whatever the source and the site.                   *)

LEMMA EverySiteIsRead ==
    ASSUME source \in Watched, site \in Sites(source.type)
    PROVE  SiteIsRead /\ HasContent \in BOOLEAN /\ source.type \in SourceTypes
<1>1. source.type \in {"html", "page_llm", "json", "json_value", "nfvl", "amazon",
                       "github_trending", "github_file"}
  BY WatchedAssumption
<1>2. SiteIsRead
  BY <1>1, HTMLIsRead, PageIsRead, JSONIsRead, JSONValueIsRead, NFVLIsRead, AmazonIsRead,
     TrendingIsRead, FileIsRead
<1>3. HasContent \in BOOLEAN
  <2>1. CASE source.type = "json"
    BY <2>1 DEF HasContent
  <2>2. CASE source.type = "github_trending"
    BY <2>2 DEF HasContent
  <2>3. CASE source.type \notin {"json", "github_trending"}
    BY <2>3 DEF HasContent
  <2>4. QED
    BY <2>1, <2>2, <2>3
<1>4. QED
  BY <1>1, <1>2, <1>3 DEF SourceTypes

\* The items a check calls added are those with an ID the baseline lacks.
LEMMA AddedIsNew ==
    ASSUME NEW items, IsList(items)
    PROVE  LET added == AddedOf(items)
           IN  /\ IsList(added) /\ Ids(added) = Ids(items) \ baseline
               /\ added = <<>> <=> Ids(items) \ baseline = {}
               /\ added = <<>> <=> Len(added) = 0
               /\ Len(items) = 1 => Len(added) <= 1
               /\ IsFiniteSet(Ids(added)) /\ Cardinality(Ids(added)) <= Len(added)
<1> DEFINE n == Len(items)
           I == {i \in DOMAIN items : items[i].id \notin baseline}
           added == Kept(items, I)
<1>1. AddedOf(items) = added
  BY DEF AddedOf
<1>2. n \in Nat /\ DOMAIN items = 1..n /\ I \in SUBSET (1..n)
  BY DEF IsList
<1>3. \A i \in 1..n : i \in I <=> items[i].id \notin baseline
  BY <1>2
<1> HIDE DEF I, n
<1>4. /\ IsFiniteSet(I) /\ Cardinality(I) \in Nat
      /\ DOMAIN added = 1..Cardinality(I) /\ Len(added) = Cardinality(I)
      /\ \A k \in 1..Cardinality(I) : Ascending(I)[k] \in I /\ added[k] = items[Ascending(I)[k]]
      /\ \A i \in I : \E k \in 1..Cardinality(I) : Ascending(I)[k] = i /\ added[k] = items[i]
      /\ added = <<>> <=> I = {}
  BY <1>2, KeptEntries
<1> HIDE DEF added
<1>5. Ids(added) = Ids(items) \ baseline
  <2>1. Ids(added) \subseteq Ids(items) \ baseline
    <3> SUFFICES ASSUME NEW k \in 1..Cardinality(I)
                 PROVE  added[k].id \in Ids(items) \ baseline
      BY <1>4 DEF Ids
    <3>1. Ascending(I)[k] \in I /\ Ascending(I)[k] \in 1..n
      BY <1>2, <1>4
    <3>2. QED
      BY <1>2, <1>3, <1>4, <3>1 DEF Ids
  <2>2. Ids(items) \ baseline \subseteq Ids(added)
    <3> SUFFICES ASSUME NEW i \in 1..n, items[i].id \notin baseline
                 PROVE  items[i].id \in Ids(added)
      BY <1>2 DEF Ids
    <3>1. PICK k \in 1..Cardinality(I) : added[k] = items[i]
      BY <1>3, <1>4
    <3>2. QED
      BY <1>4, <3>1 DEF Ids
  <2>3. QED
    BY <2>1, <2>2
<1>6. added = <<>> <=> Ids(items) \ baseline = {}
  <2>1. I = {} <=> Ids(items) \ baseline = {}
    BY <1>2, <1>3 DEF Ids
  <2>2. QED
    BY <1>4, <2>1
<1>7. added = <<>> <=> Len(added) = 0
  BY <1>4, FS_EmptySet
<1>8. n = 1 => Len(added) <= 1
  <2> SUFFICES ASSUME n = 1 PROVE Cardinality(I) <= 1
    BY <1>4
  <2>1. I \subseteq {1}
    BY <1>2
  <2>2. IsFiniteSet({1}) /\ Cardinality({1}) = 1
    BY FS_Singleton
  <2>3. QED
    BY <2>1, <2>2, FS_Subset
<1>9. IsFiniteSet(Ids(added)) /\ Cardinality(Ids(added)) <= Len(added)
  <2> DEFINE f == [k \in 1..Cardinality(I) |-> added[k].id]
  <2>1. \A t \in Ids(added) : \E k \in 1..Cardinality(I) : f[k] = t
    BY <1>4 DEF Ids
  <2>2. IsFiniteSet(1..Cardinality(I)) /\ Cardinality(1..Cardinality(I)) = Cardinality(I)
    BY <1>4, FS_Interval
  <2> HIDE DEF f
  <2>3. QED
    BY <1>4, <2>1, <2>2, NoMoreThan
<1>10. QED
  BY <1>1, <1>4, <1>5, <1>6, <1>7, <1>8, <1>9 DEF IsList, n

\* The answers a check may get.
Asked(answer, own) ==
    \/ answer = Render /\ own = HasContent
    \/ answer \in Outages /\ own = FALSE

LEMMA ChecksAsk ==
    ASSUME Next
    PROVE  \/ SiteChanges
           \/ \E answer, own : Asked(answer, own) /\ Check(answer, own)
BY DEF Next, CheckSite, CheckDuringOutage, Asked

\* A check reads the content, or fails.
LEMMA CheckReads ==
    ASSUME TypeOK, NEW answer, NEW own, Asked(answer, own)
    PROVE  /\ Fetch(source, answer).ok = own /\ own \in BOOLEAN
           /\ own => /\ answer = Render
                     /\ IsList(Fetch(source, answer).items)
                     /\ Ids(Fetch(source, answer).items) = Content
                     /\ source.type \in SingleTypes => Len(Fetch(source, answer).items) = 1
<1>1. source \in Watched /\ site \in Sites(source.type)
  BY DEF TypeOK
<1>2. SiteIsRead /\ HasContent \in BOOLEAN
  BY <1>1, EverySiteIsRead
<1>3. CASE answer = Render /\ own = HasContent
  BY <1>2, <1>3 DEF SiteIsRead
<1>4. CASE answer \in Outages /\ own = FALSE
  BY <1>2, <1>4 DEF SiteIsRead
<1>5. QED
  BY <1>3, <1>4 DEF Asked

-----------------------------------------------------------------------------
(* What a check tells of a difference.                                     *)

\* The notice names and counts what is new, and what is gone that its type
\* reports.
Fair(n, new, due) ==
    /\ n.told /\ n.told \in BOOLEAN /\ n.summary = <<>>
    /\ Ids(n.added) \subseteq new /\ Ids(n.removed) \subseteq due
    /\ new # {} => n.added # <<>>
    /\ due # {} => n.removed # <<>>
    /\ Ids(n.added) = new \/ Len(n.added) \in {MaxListed, MaxLines}
    /\ \/ Ids(n.removed) = due \/ Len(n.removed) = MaxListed
       \/ Len(n.added) + Len(n.removed) >= MaxLines
    /\ n.counts[1] >= Cardinality(new)
    /\ n.counts[2] = Cardinality(due)

LEMMA NamesAreFair ==
    ASSUME NEW n, NEW added, NEW removed, Names(n, added, removed),
           NEW new, new = Ids(added), NEW due, Ids(removed) = due,
           IsList(added), IsList(removed), IsFiniteSet(new), Cardinality(new) <= Len(added),
           Len(removed) = Cardinality(due)
    PROVE  Fair(n, new, due)
<1>1. /\ Len(added) \in Nat /\ DOMAIN added = 1..Len(added)
      /\ Len(removed) \in Nat /\ DOMAIN removed = 1..Len(removed)
  BY DEF IsList
<1>2. Cardinality(new) \in Nat
  BY FS_CardinalityType
<1>3. Len(added) >= Cardinality(new)
  BY <1>1, <1>2
<1>4. (new # {} => Len(added) # 0) /\ (due # {} => Len(removed) # 0)
  BY <1>1 DEF Ids
<1>5. QED
  BY <1>3, <1>4 DEF Names, Shows, Fair

\* What a check says of a difference: nothing if a model waved it through, a
\* fair notice or a summary otherwise.
Told(n, new, due, r) ==
    IF source.type = "page_llm" /\ r \in Replies /\ Waves(source, r) THEN n = Silence
    ELSE \/ Fair(n, new, due)
         \/ n.told /\ n.told \in BOOLEAN /\ n.summary # <<>>

LEMMA RepliesAreLists ==
    ASSUME NEW r \in Replies
    PROVE  IsList(r.blocks)
<1>1. r.blocks \in Seq([type : STRING, text : STRING])
  BY PageWatchAssumption
<1>2. QED
  BY <1>1, LenProperties DEF IsList

LEMMA SilenceIsSilent ==
    Silence.told = FALSE /\ Silence.summary = <<>>
BY DEF Silence

\* The removals a notice has to tell.
DueOf(gone) ==
    IF \/ source.type = "github_file"
       \/ source.type \in {"html", "json"} /\ source.ignore_removals
    THEN {} ELSE gone

\* In whatever order a map gives the removed IDs, each is an item, once.
LEMMA RemovalsAreListed ==
    ASSUME NEW gone, IsFiniteSet(gone), NEW order \in SetToSeqs(gone)
    PROVE  LET removed == [i \in DOMAIN order |-> Plain(order[i])]
           IN  /\ IsList(removed) /\ Ids(removed) = gone
               /\ Len(removed) = Cardinality(gone)
<1> DEFINE removed == [i \in DOMAIN order |-> Plain(order[i])]
<1>1. /\ IsList(order) /\ Len(order) = Cardinality(gone)
      /\ \A k \in DOMAIN order : order[k] \in gone
      /\ \A x \in gone : \E k \in DOMAIN order : order[k] = x
  BY AnyOrder
<1>2. \A x : Plain(x).id = x
  BY DEF Plain, Item
<1>3. DOMAIN removed = DOMAIN order /\ \A k \in DOMAIN order : removed[k].id = order[k]
  BY <1>2
<1>4. IsList(removed) /\ Len(removed) = Len(order)
  BY <1>1 DEF IsList
<1> HIDE DEF removed
<1>5. Ids(removed) \subseteq gone
  BY <1>1, <1>3 DEF Ids
<1>6. gone \subseteq Ids(removed)
  BY <1>1, <1>3 DEF Ids
<1>7. QED
  BY <1>1, <1>4, <1>5, <1>6 DEF removed

LEMMA DifferencesAreTold ==
    ASSUME TypeOK, NEW answer, Asked(answer, TRUE), DiffCheck(answer)
    PROVE  LET new   == Content \ baseline
               gone  == baseline \ Content
               worth == new # {} \/ (gone # {} /\ ~source.ignore_removals)
           IN  /\ baseline' = Content
               /\ reply' \in Replies \cup {NoAnswer}
               /\ IF worth THEN Told(notice', new, DueOf(gone), reply') ELSE notice' = Silence
<1> DEFINE items   == Fetch(source, answer).items
           added   == AddedOf(items)
           new     == Content \ baseline
           gone    == baseline \ Content
           dropped == added = <<>> /\ (gone = {} \/ source.ignore_removals)
           hidden  == source.ignore_removals /\ source.type \in {"html", "json"}
           removed(order) == IF hidden THEN <<>> ELSE [i \in DOMAIN order |-> Plain(order[i])]
<1>1. /\ IsList(items) /\ Ids(items) = Content
      /\ source.type \in SingleTypes => Len(items) = 1
  BY CheckReads
<1>2. /\ source.type \in SourceTypes
      /\ source.ignore_removals \in BOOLEAN
  BY EverySiteIsRead, WatchedAssumption DEF TypeOK
<1>3. /\ baseline # NoBaseline /\ IsFiniteSet(baseline) /\ source.type # "github_trending"
      /\ source.type \in SingleTypes => Cardinality(baseline) <= 1
  BY DEF DiffCheck, TypeOK, SingleTypes
<1>4. IdsOf(items) = Content
  BY <1>1 DEF IdsOf, Ids
<1>5. /\ baseline' = Content
      /\ \E r \in (IF source.type = "page_llm" /\ ~dropped THEN Replies ELSE {NoAnswer}),
            order \in SetToSeqs(gone) :
               /\ notice' = IF dropped THEN Silence ELSE Format(source, added, removed(order), r)
               /\ reply' = r
  BY <1>4 DEF DiffCheck
<1>6. PICK r \in (IF source.type = "page_llm" /\ ~dropped THEN Replies ELSE {NoAnswer}),
           order \in SetToSeqs(gone) :
              /\ notice' = IF dropped THEN Silence ELSE Format(source, added, removed(order), r)
              /\ reply' = r
  BY <1>5
<1>7. /\ IsList(added) /\ Ids(added) = new /\ (added = <<>> <=> new = {})
      /\ Len(items) = 1 => Len(added) <= 1
      /\ IsFiniteSet(new) /\ Cardinality(new) <= Len(added)
  BY <1>1, AddedIsNew
<1> HIDE DEF items, added
<1>8. /\ IsFiniteSet(gone) /\ Cardinality(gone) <= Cardinality(baseline)
      /\ Cardinality(gone) \in Nat /\ Cardinality(baseline) \in Nat
  BY <1>3, FS_Subset, FS_CardinalityType
<1> DEFINE list == removed(order)
           shown == Reported(source, list)
<1>9. /\ IsList(list) /\ IsList(shown)
      /\ source.type \in SingleTypes => Len(list) <= 1
      /\ Ids(shown) = DueOf(gone) /\ Len(shown) = Cardinality(DueOf(gone))
  <2> DEFINE all == [i \in DOMAIN order |-> Plain(order[i])]
  <2>1. IsList(all) /\ Ids(all) = gone /\ Len(all) = Cardinality(gone)
    BY <1>6, <1>8, RemovalsAreListed
  <2>2. IsList(<<>>) /\ Ids(<<>>) = {} /\ Len(<<>>) = 0 /\ Cardinality({}) = 0
    BY NothingListed, FS_EmptySet
  <2>3. list = IF hidden THEN <<>> ELSE all
    OBVIOUS
  <2> HIDE DEF all, list, gone
  <2>4. IsList(list) /\ (source.type \in SingleTypes => Len(list) <= 1)
    BY <1>3, <1>8, <2>1, <2>2, <2>3
  <2>5. shown = IF source.type = "github_file" THEN <<>> ELSE list
    BY <1>3 DEF Reported
  <2> HIDE DEF shown
  <2>6. CASE source.type = "github_file" \/ hidden
    <3>1. DueOf(gone) = {} /\ shown = <<>>
      BY <2>3, <2>5, <2>6 DEF DueOf
    <3>2. QED
      BY <2>2, <2>4, <3>1
  <2>7. CASE source.type # "github_file" /\ ~hidden
    <3>1. DueOf(gone) = gone /\ shown = all
      BY <2>3, <2>5, <2>7 DEF DueOf
    <3>2. QED
      BY <2>1, <2>4, <3>1
  <2>8. QED
    BY <2>6, <2>7
<1> HIDE DEF removed, list, shown
<1>10. dropped <=> ~(new # {} \/ (gone # {} /\ ~source.ignore_removals))
  BY <1>2, <1>7
<1>11. CASE dropped
  BY <1>5, <1>6, <1>10, <1>11
<1>12. CASE ~dropped
  <2> DEFINE n == Format(source, added, list, r)
  <2>1. notice' = n /\ reply' = r /\ (source.type = "page_llm" => r \in Replies)
        /\ r \in Replies \cup {NoAnswer}
    BY <1>6, <1>12 DEF list
  <2>2. /\ source.type = "page_llm" => IsList(r.blocks)
        /\ source.type \in SingleTypes => Len(added) <= 1
    BY <1>1, <1>7, <2>1, RepliesAreLists
  <2>3. IF source.type = "page_llm" /\ Waves(source, r) THEN n = Silence
        ELSE \/ Names(n, added, shown)
             \/ n.told /\ n.told \in BOOLEAN /\ n.summary # <<>>
    BY <1>2, <1>7, <1>9, <2>2, FormatIsFair DEF shown
  <2> DEFINE due == DueOf(gone)
  <2>4. Ids(shown) = due /\ Len(shown) = Cardinality(due)
    BY <1>9
  <2> HIDE DEF n, new, gone, due
  <2>5. Names(n, added, shown) => Fair(n, new, due)
    BY <1>7, <1>9, <2>4, NamesAreFair
  <2>6. Told(n, new, due, r)
    BY <2>1, <2>3, <2>5 DEF Told
  <2>7. Told(notice', new, due, reply')
    BY <2>1, <2>6
  <2>8. QED
    BY <1>5, <1>10, <1>12, <2>1, <2>7 DEF new, gone, due
<1>13. QED
  BY <1>11, <1>12

\* The repos trending has not shown before are all told.
LEMMA NewReposAreTold ==
    ASSUME TypeOK, NEW answer, Asked(answer, TRUE), TrendingCheck(answer)
    PROVE  LET new == Content \ baseline
           IN  /\ baseline' = baseline \cup Content
               /\ reply' = NoAnswer
               /\ IF new # {} THEN Fair(notice', new, {}) ELSE notice' = Silence
<1> DEFINE items == Fetch(source, answer).items
           added == AddedOf(items)
           new   == Content \ baseline
           n     == Format(source, added, <<>>, NoAnswer)
<1>1. IsList(items) /\ Ids(items) = Content /\ IdsOf(items) = Ids(items)
  BY CheckReads DEF IdsOf, Ids
<1>2. source.type = "github_trending" /\ source.type \in SourceTypes
      /\ source.type \notin SingleTypes
  BY DEF TrendingCheck, SourceTypes, SingleTypes
<1>3. /\ baseline' = baseline \cup Content /\ reply' = NoAnswer
      /\ notice' = IF added = <<>> THEN Silence ELSE n
  BY <1>1 DEF TrendingCheck
<1>4. /\ IsList(added) /\ Ids(added) = new /\ (added = <<>> <=> new = {})
      /\ IsFiniteSet(new) /\ Cardinality(new) <= Len(added)
  BY <1>1, AddedIsNew
<1>5. IsList(<<>>) /\ Ids(<<>>) = {} /\ Len(<<>>) = Cardinality({})
  BY NothingListed, FS_EmptySet
<1> HIDE DEF items, added
<1>6. Reported(source, <<>>) = <<>>
  BY DEF Reported
<1>7. \/ Names(n, added, <<>>)
      \/ n.told /\ n.told \in BOOLEAN /\ n.summary # <<>>
  BY <1>2, <1>4, <1>5, <1>6, FormatIsFair
<1>8. n.summary = <<>>
  BY <1>2 DEF Format, FormatTrending, Notice, Silence
<1> HIDE DEF n, new
<1>9. Fair(n, new, {})
  <2>1. Names(n, added, <<>>)
    BY <1>7, <1>8
  <2>2. QED
    BY <1>4, <1>5, <2>1, NamesAreFair
<1>10. QED
  BY <1>3, <1>4, <1>9 DEF new

-----------------------------------------------------------------------------
(* A check, whatever its answer: it fails, it is the first, or it compares. *)

Fails(own) ==
    /\ own = FALSE
    /\ baseline' = IF baseline = NoBaseline THEN {} ELSE baseline
    /\ notice' = Silence /\ reply' = NoAnswer /\ announced' = announced
Begins(own) ==
    /\ own = TRUE /\ baseline = NoBaseline /\ baseline' = Content
    /\ notice' = Silence /\ reply' = NoAnswer /\ announced' = announced
Collects(own, answer) ==
    /\ own = TRUE /\ baseline # NoBaseline /\ source.type = "github_trending"
    /\ TrendingCheck(answer)
Compares(own, answer) ==
    /\ own = TRUE /\ baseline # NoBaseline /\ source.type # "github_trending"
    /\ DiffCheck(answer)

LEMMA ChecksEnd ==
    ASSUME TypeOK, NEW answer, NEW own, Asked(answer, own), Check(answer, own)
    PROVE  Fails(own) \/ Begins(own) \/ Collects(own, answer) \/ Compares(own, answer)
<1>1. /\ Fetch(source, answer).ok = own /\ own \in BOOLEAN
      /\ own => Ids(Fetch(source, answer).items) = Content
  BY CheckReads
<1>2. CASE FetchFails(answer)
  BY <1>1, <1>2 DEF FetchFails, Fails
<1>3. CASE FirstRun(answer)
  <2>1. own = TRUE
    BY <1>1, <1>3 DEF FirstRun
  <2>2. IdsOf(Fetch(source, answer).items) = Content
    BY <1>1, <2>1 DEF IdsOf, Ids
  <2>3. QED
    BY <1>3, <2>1, <2>2 DEF FirstRun, Begins
<1>4. CASE TrendingCheck(answer)
  BY <1>1, <1>4 DEF TrendingCheck, Collects
<1>5. CASE DiffCheck(answer)
  BY <1>1, <1>5 DEF DiffCheck, Compares
<1>6. QED
  BY <1>2, <1>3, <1>4, <1>5 DEF Check

\* Content a site of the type can have.
LEMMA ContentIsTyped ==
    ASSUME TypeOK, HasContent
    PROVE  /\ IsFiniteSet(Content)
           /\ source.type \in {"html", "json"} => "" \notin Content
           /\ source.type \in {"json_value", "amazon", "page_llm", "github_file"}
                 => Cardinality(Content) <= 1
<1> DEFINE items == Fetch(source, Render).items
           n == Len(items)
           f == [i \in 1..n |-> items[i].id]
<1>1. Asked(Render, HasContent)
  BY DEF Asked
<1>2. /\ IsList(items) /\ Ids(items) = Content
      /\ source.type \in SingleTypes => Len(items) = 1
  BY <1>1, CheckReads
<1> HIDE DEF items
<1>3. n \in Nat /\ DOMAIN items = 1..n
  BY <1>2 DEF IsList
<1>4. \A x \in Content : \E i \in 1..n : f[i] = x
  BY <1>2, <1>3 DEF Ids
<1> HIDE DEF f
<1>5. IsFiniteSet(1..n) /\ Cardinality(1..n) = n
  <2> HIDE DEF n
  <2> QED BY <1>3, FS_Interval
<1>6. IsFiniteSet(Content) /\ Cardinality(Content) <= n
  BY <1>4, <1>5, NoMoreThan
<1>7. source.type \in {"html", "json"} => "" \notin Content
  BY DEF Content
<1>8. source.type \in {"json_value", "amazon", "page_llm", "github_file"} => n = 1
  BY <1>2 DEF SingleTypes
<1>9. QED
  BY <1>6, <1>7, <1>8

-----------------------------------------------------------------------------
(* The type invariant.                                                     *)

\* The type invariant without what it says of the history counter.
LEMMA ChecksKeepTypes ==
    ASSUME TypeOK, NEW answer, NEW own, Asked(answer, own), Check(answer, own),
           announced' \in [Matchups -> 0..MaxAnnounced]
    PROVE  TypeOK'
<1> DEFINE Typed(ids) ==
               /\ IsFiniteSet(ids)
               /\ source.type \in {"html", "json"} => "" \notin ids
               /\ source.type \in {"json_value", "amazon", "page_llm", "github_file"}
                     => Cardinality(ids) <= 1
<1>1. source' = source /\ site' = site /\ source \in Watched /\ site \in Sites(source.type)
  BY DEF Check, TypeOK
<1>2. baseline # NoBaseline => Typed(baseline)
  BY DEF TypeOK
<1>3. own \in BOOLEAN /\ (own => answer = Render /\ HasContent)
  <2>1. own \in BOOLEAN
    BY CheckReads
  <2>2. QED
    BY <2>1 DEF Asked
<1>4. own => Typed(Content)
  BY <1>3, ContentIsTyped
<1>5. Typed({})
  BY FS_EmptySet
<1> HIDE DEF Typed
<1>6. /\ notice'.told \in BOOLEAN /\ reply' \in Replies \cup {NoAnswer}
      /\ baseline' # NoBaseline => Typed(baseline')
  <2>1. CASE Fails(own)
    BY <1>2, <1>5, <2>1, SilenceIsSilent DEF Fails
  <2>2. CASE Begins(own)
    BY <1>4, <2>2, SilenceIsSilent DEF Begins
  <2>3. CASE Collects(own, answer)
    <3>1. /\ baseline' = baseline \cup Content /\ reply' = NoAnswer
          /\ notice'.told \in BOOLEAN
      BY <2>3, NewReposAreTold, SilenceIsSilent DEF Fair, Collects
    <3>2. IsFiniteSet(baseline \cup Content)
      BY <1>2, <1>4, <2>3, FS_Union DEF Typed, Collects
    <3>3. QED
      BY <2>3, <3>1, <3>2 DEF Typed, Collects
  <2>4. CASE Compares(own, answer)
    <3>1. /\ baseline' = Content /\ reply' \in Replies \cup {NoAnswer}
          /\ notice'.told \in BOOLEAN
      BY <2>4, DifferencesAreTold, SilenceIsSilent DEF Told, Fair, Compares
    <3>2. QED
      BY <1>4, <2>4, <3>1 DEF Compares
  <2>5. QED
    BY <2>1, <2>2, <2>3, <2>4, ChecksEnd
<1>7. QED
  BY <1>1, <1>6 DEF TypeOK, Typed

\* An announcement counts no further than the cap.
LEMMA AnnouncementsAreTyped ==
    ASSUME TypeOK, NEW answer, NEW own, Asked(answer, own), Check(answer, own)
    PROVE  announced' \in [Matchups -> 0..MaxAnnounced]
<1>1. announced \in [Matchups -> 0..MaxAnnounced]
  BY DEF TypeOK
<1>2. CASE announced' = announced
  BY <1>1, <1>2
<1>3. CASE TrendingCheck(answer)
  BY <1>1, <1>3 DEF TrendingCheck
<1>4. CASE own = TRUE /\ DiffCheck(answer)
  <2> DEFINE added == AddedOf(Fetch(source, answer).items)
             Rows(m) == {i \in DOMAIN added : /\ added[i].title[1] = m.date
                                              /\ added[i].title[3] = m.away
                                              /\ added[i].title[4] = m.home}
             now(m) == announced[m] + Cardinality(Rows(m))
  <2>1. IsList(added)
    BY <1>4, CheckReads, AddedIsNew
  <2>2. source.type = "nfvl" => announced' = [m \in Matchups |-> IF now(m) > MaxAnnounced
                                                                 THEN MaxAnnounced ELSE now(m)]
    BY <1>4 DEF DiffCheck, Announce
  <2>3. source.type # "nfvl" => announced' = announced
    BY <1>4 DEF DiffCheck
  <2> HIDE DEF added
  <2>4. \A m : Cardinality(Rows(m)) \in Nat
    <3>1. IsFiniteSet(DOMAIN added)
      BY <2>1, FS_Interval DEF IsList
    <3>2. QED
      BY <3>1, FS_Subset, FS_CardinalityType
  <2> HIDE DEF Rows
  <2>5. MaxAnnounced \in Nat
    BY PageWatchAssumption
  <2>6. \A m \in Matchups : (IF now(m) > MaxAnnounced THEN MaxAnnounced ELSE now(m)) \in 0..MaxAnnounced
    BY <1>1, <2>4, <2>5
  <2>7. QED
    BY <1>1, <2>2, <2>3, <2>6
<1>5. Fails(own) \/ Begins(own) \/ Collects(own, answer) \/ Compares(own, answer)
  BY ChecksEnd
<1>6. QED
  BY <1>2, <1>3, <1>4, <1>5 DEF Fails, Begins, Collects, Compares

LEMMA TypedAtFirst == Init => TypeOK
<1> SUFFICES ASSUME Init PROVE TypeOK
  OBVIOUS
<1>1. announced \in [Matchups -> 0..MaxAnnounced]
  BY PageWatchAssumption DEF Init
<1>2. QED
  BY <1>1, SilenceIsSilent DEF Init, TypeOK

\* Every step keeps the types.
LEMMA StepsKeepTypes ==
    ASSUME TypeOK, [Next]_vars
    PROVE  TypeOK'
<1>1. CASE SiteChanges
  BY <1>1 DEF SiteChanges, TypeOK
<1>2. CASE \E answer, own : Asked(answer, own) /\ Check(answer, own)
  BY <1>2, ChecksKeepTypes, AnnouncementsAreTyped
<1>3. CASE UNCHANGED vars
  BY <1>3 DEF vars, TypeOK
<1>4. QED
  BY <1>1, <1>2, <1>3, ChecksAsk

\* Whatever the sites and outages, the state stays well typed: every baseline
\* is a finite set, without a blank ID where blank entries are skipped, and of
\* one ID at most where the source has one value (check.go, One and RecordError).
THEOREM TypeCorrect == Spec => []TypeOK
BY TypedAtFirst, StepsKeepTypes, PTL DEF Spec

-----------------------------------------------------------------------------
(* The baseline is the site.                                               *)

BaselineInv == TypeOK /\ BaselineIsTheSite

\* What was known of the site and what is, seen from the baseline.
LEMMA ChecksFollowTheSite ==
    ASSUME BaselineInv, NEW answer, NEW own, Asked(answer, own), Check(answer, own)
    PROVE  known' = baseline' /\ before' = baseline
<1>1. TypeOK /\ known = baseline
  BY DEF BaselineInv, BaselineIsTheSite
<1>2. /\ before' = known
      /\ known' = CASE ~own /\ known = NoBaseline -> {}
                    [] ~own /\ known # NoBaseline -> known
                    [] own /\ source.type = "github_trending" /\ known # NoBaseline ->
                           known \cup Content
                    [] OTHER -> Content
  BY DEF Check, Witness
<1>3. CASE Fails(own)
  BY <1>1, <1>2, <1>3 DEF Fails
<1>4. CASE Begins(own)
  BY <1>1, <1>2, <1>4 DEF Begins
<1>5. CASE Collects(own, answer)
  <2>1. own = TRUE /\ source.type = "github_trending" /\ baseline # NoBaseline
        /\ TrendingCheck(answer)
    BY <1>5 DEF Collects
  <2>2. baseline' = baseline \cup Content
    BY <1>1, <2>1, NewReposAreTold
  <2>3. QED
    BY <1>1, <1>2, <2>1, <2>2
<1>6. CASE Compares(own, answer)
  <2>1. own = TRUE /\ source.type # "github_trending" /\ baseline # NoBaseline
        /\ DiffCheck(answer)
    BY <1>6 DEF Compares
  <2>2. baseline' = Content
    BY <1>1, <2>1, DifferencesAreTold
  <2>3. QED
    BY <1>1, <1>2, <2>1, <2>2
<1>7. QED
  BY <1>1, <1>3, <1>4, <1>5, <1>6, ChecksEnd

LEMMA StepsFollowTheSite ==
    ASSUME BaselineInv, [Next]_vars
    PROVE  BaselineInv'
<1>1. TypeOK'
  BY StepsKeepTypes DEF BaselineInv
<1>2. BaselineIsTheSite'
  <2>1. CASE SiteChanges
    BY <2>1 DEF SiteChanges, BaselineInv, BaselineIsTheSite
  <2>2. CASE \E answer, own : Asked(answer, own) /\ Check(answer, own)
    BY <2>2, ChecksFollowTheSite DEF BaselineIsTheSite
  <2>3. CASE UNCHANGED vars
    BY <2>3 DEF vars, BaselineInv, BaselineIsTheSite
  <2>4. QED
    BY <2>1, <2>2, <2>3, ChecksAsk
<1>3. QED
  BY <1>1, <1>2 DEF BaselineInv

\* For every source, site and order of outages, the baseline is what was on
\* the site when it last served a page of its own: each fetcher reads its page,
\* in every layout, spelling and repetition, as the content, and none takes an
\* outage for a page.
THEOREM BaselineFollowsTheSite == Spec => []BaselineIsTheSite
<1>1. Init => BaselineInv
  BY TypedAtFirst DEF Init, BaselineInv, BaselineIsTheSite
<1>2. BaselineInv /\ [Next]_vars => BaselineInv'
  BY StepsFollowTheSite
<1>3. BaselineInv => BaselineIsTheSite
  BY DEF BaselineInv
<1>4. QED
  BY <1>1, <1>2, <1>3, PTL DEF Spec

-----------------------------------------------------------------------------
(* Every change is told.                                                   *)

TellInv == BaselineInv /\ ChangeIsTold

LEMMA ChecksTell ==
    ASSUME BaselineInv, NEW answer, NEW own, Asked(answer, own), Check(answer, own)
    PROVE  ChangeIsTold'
<1> DEFINE new   == known' \ before'
           gone  == IF source.type = "github_trending" THEN {} ELSE before' \ known'
           due   == DueOf(gone)
           worth == /\ before' # NoBaseline
                    /\ new # {} \/ (gone # {} /\ ~source.ignore_removals)
           waved == source.type = "page_llm" /\ reply' \in Replies /\ Waves(source, reply')
<1>1. TypeOK
  BY DEF BaselineInv
<1>2. known' = baseline' /\ before' = baseline /\ source' = source
  BY ChecksFollowTheSite DEF Check
<1>3. SUFFICES ASSUME IF worth THEN Told(notice', new, due, reply') ELSE notice' = Silence
               PROVE  ChangeIsTold'
  <2>1. CASE Fails(own)
    BY <1>2, <1>3, <2>1 DEF Fails
  <2>2. CASE Begins(own)
    BY <1>2, <1>3, <2>2 DEF Begins
  <2>3. CASE Collects(own, answer)
    <3>1. /\ own = TRUE /\ source.type = "github_trending" /\ baseline # NoBaseline
          /\ TrendingCheck(answer)
      BY <2>3 DEF Collects
    <3>2. /\ baseline' = baseline \cup Content
          /\ IF Content \ baseline # {} THEN Fair(notice', Content \ baseline, {})
             ELSE notice' = Silence
      BY <1>1, <3>1, NewReposAreTold
    <3>3. new = Content \ baseline /\ gone = {} /\ due = {}
      BY <1>2, <3>1, <3>2 DEF DueOf
    <3>4. worth <=> new # {}
      BY <1>2, <3>1, <3>3
    <3> HIDE DEF new, gone, due, worth
    <3>5. worth => Told(notice', new, due, reply')
      BY <3>1, <3>2, <3>3, <3>4 DEF Told
    <3>6. QED
      BY <1>3, <3>2, <3>3, <3>4, <3>5
  <2>4. CASE Compares(own, answer)
    <3>1. /\ own = TRUE /\ source.type # "github_trending" /\ baseline # NoBaseline
          /\ DiffCheck(answer)
      BY <2>4 DEF Compares
    <3> DEFINE fresh  == Content \ baseline
               lost   == baseline \ Content
               differ == fresh # {} \/ (lost # {} /\ ~source.ignore_removals)
    <3>2. /\ baseline' = Content
          /\ IF differ THEN Told(notice', fresh, DueOf(lost), reply') ELSE notice' = Silence
      BY <1>1, <3>1, DifferencesAreTold
    <3>3. new = fresh /\ gone = lost /\ (worth <=> differ)
      BY <1>2, <3>1, <3>2
    <3>4. due = DueOf(lost)
      BY <3>3
    <3> HIDE DEF new, gone, due, fresh, lost, worth, differ
    <3>5. QED
      BY <1>3, <3>2, <3>3, <3>4
  <2>5. QED
    BY <1>1, <2>1, <2>2, <2>3, <2>4, ChecksEnd
<1>4. waved <=> Waved'
  BY <1>2 DEF Waved, Said, Heard, Waves, SaidIn, ReadOf
<1>5. ChangeIsTold' <=>
         /\ notice'.told <=> worth /\ ~Waved'
         /\ notice'.told /\ notice'.summary = <<>> =>
               /\ Ids(notice'.added) \subseteq new /\ Ids(notice'.removed) \subseteq due
               /\ new # {} => notice'.added # <<>>
               /\ due # {} => notice'.removed # <<>>
               /\ Ids(notice'.added) = new \/ Len(notice'.added) \in {MaxListed, MaxLines}
               /\ \/ Ids(notice'.removed) = due \/ Len(notice'.removed) = MaxListed
                  \/ Len(notice'.added) + Len(notice'.removed) >= MaxLines
               /\ notice'.counts[1] >= Cardinality(new)
               /\ notice'.counts[2] = Cardinality(due)
  BY <1>2 DEF ChangeIsTold, IdsOf, Ids, DueOf
<1> HIDE DEF new, gone, due, worth, waved
<1>6. CASE ~worth
  BY <1>3, <1>5, <1>6, SilenceIsSilent
<1>7. CASE worth
  <2>1. CASE waved
    <3>1. notice' = Silence
      BY <1>3, <1>7, <2>1 DEF Told, waved
    <3>2. QED
      BY <1>4, <1>5, <2>1, <3>1, SilenceIsSilent
  <2>2. CASE ~waved
    <3>1. \/ Fair(notice', new, due)
          \/ notice'.told /\ notice'.told \in BOOLEAN /\ notice'.summary # <<>>
      BY <1>3, <1>7, <2>2 DEF Told, waved
    <3>2. QED
      BY <1>4, <1>5, <1>7, <2>2, <3>1 DEF Fair
  <2>3. QED
    BY <2>1, <2>2
<1>8. QED
  BY <1>6, <1>7

\* What a check told is judged by what it saw, whatever the site is now.
LEMMA ToldStaysTold ==
    ASSUME ChangeIsTold, UNCHANGED <<source, notice, reply, known, before>>
    PROVE  ChangeIsTold'
BY DEF ChangeIsTold, Waved, Said, Heard

\* Every change of the site is told, once, by the next check that sees it, and
\* nothing else is, for every source, site, model reply and order of outages: a
\* change goes untold exactly if it is an ignored removal or a model answered
\* that it is none, and a notice without a summary counts the additions and the
\* removals its type reports and names them up to its limits (check.go, One;
\* json.go, formatListDiff; page_llm.go, Format).
THEOREM ChangesAreTold == Spec => []ChangeIsTold
<1>1. Init => TellInv
  <2>1. Init => BaselineInv
    BY TypedAtFirst DEF Init, BaselineInv, BaselineIsTheSite
  <2>2. Init => ChangeIsTold
    BY SilenceIsSilent DEF Init, ChangeIsTold
  <2>3. QED
    BY <2>1, <2>2 DEF TellInv
<1>2. TellInv /\ [Next]_vars => TellInv'
  <2> SUFFICES ASSUME TellInv, [Next]_vars PROVE TellInv'
    OBVIOUS
  <2>1. BaselineInv'
    BY StepsFollowTheSite DEF TellInv
  <2>2. ChangeIsTold'
    <3>1. CASE SiteChanges
      <4>1. UNCHANGED <<source, notice, reply, known, before>>
        BY <3>1 DEF SiteChanges
      <4>2. QED
        BY <4>1, ToldStaysTold DEF TellInv
    <3>2. CASE \E answer, own : Asked(answer, own) /\ Check(answer, own)
      BY <3>2, ChecksTell DEF TellInv
    <3>3. CASE UNCHANGED vars
      <4>1. UNCHANGED <<source, notice, reply, known, before>>
        BY <3>3 DEF vars
      <4>2. QED
        BY <4>1, ToldStaysTold DEF TellInv
    <3>4. QED
      BY <3>1, <3>2, <3>3, ChecksAsk
  <2>3. QED
    BY <2>1, <2>2 DEF TellInv
<1>3. TellInv => ChangeIsTold
  BY DEF TellInv
<1>4. QED
  BY <1>1, <1>2, <1>3, PTL DEF Spec

-----------------------------------------------------------------------------
(* A game is announced when it is posted, and when its boxscore appears.   *)

KeysOf(schedule) == {KeyOf(schedule, g) : g \in Posted(schedule)}
GamesOf(m) == {g \in Games : [date |-> g.date, away |-> g.away, home |-> g.home] = m}
PostedOf(schedule, m) == {g \in GamesOf(m) : schedule.stage[g] > 1}
LinkedOf(schedule, m) == {g \in GamesOf(m) : Stages[schedule.stage[g]] = "linked"}
Due(schedule, m) == Cardinality(PostedOf(schedule, m)) + Cardinality(LinkedOf(schedule, m))

\* What a schedule never goes back on.
Follows(old, new) == \A g \in Games : old.stage[g] <= new.stage[g]

\* The baseline is that of some schedule the site has had, and what was
\* announced until then is accounted for by it.
Accounted ==
    source.type = "nfvl" =>
        \E seen \in Schedules :
            /\ Follows(seen, site)
            /\ IF baseline = NoBaseline THEN \A g \in Games : seen.stage[g] = 1
               ELSE baseline = KeysOf(seen)
            /\ \A m \in Matchups : announced[m] <= Due(seen, m)

AnnouncedInv == TypeOK /\ Accounted

LEMMA LinkedIsLast ==
    ASSUME NEW stage \in 1..4
    PROVE  Stages[stage] = "linked" <=> stage = 4
<1>1. stage = 1 \/ stage = 2 \/ stage = 3 \/ stage = 4
  OBVIOUS
<1>2. Stages[1] = "absent" /\ Stages[2] = "posted" /\ Stages[3] = "final" /\ Stages[4] = "linked"
  BY DEF Stages
<1>3. QED
  BY <1>1, <1>2

\* A schedule that follows another owes at least what the other owes, and one
\* more for each game whose key is new.
LEMMA NewKeysAreDue ==
    ASSUME NEW old \in Schedules, NEW new \in Schedules, Follows(old, new), NEW m
    PROVE  LET fresh == {g \in PostedOf(new, m) : KeyOf(new, g) \notin KeysOf(old)}
           IN  /\ IsFiniteSet(fresh) /\ Cardinality(fresh) \in Nat
               /\ Due(old, m) \in Nat /\ Due(new, m) \in Nat
               /\ Due(old, m) + Cardinality(fresh) <= Due(new, m)
<1> DEFINE fresh == {g \in PostedOf(new, m) : KeyOf(new, g) \notin KeysOf(old)}
           P == PostedOf(old, m)
           Q == PostedOf(new, m)
           L == LinkedOf(old, m)
           M == LinkedOf(new, m)
<1>1. \A g \in Games : /\ old.stage[g] \in 1..4 /\ new.stage[g] \in 1..4
                       /\ old.stage[g] <= new.stage[g]
  BY DEF Schedules, Follows
<1>2. \A g \in GamesOf(m) : g \in Games
  BY DEF GamesOf
<1>3. P \subseteq Q
  BY <1>1, <1>2 DEF PostedOf
<1>4. L \subseteq M
  <2> SUFFICES ASSUME NEW g \in GamesOf(m), Stages[old.stage[g]] = "linked"
               PROVE  Stages[new.stage[g]] = "linked"
    BY DEF LinkedOf
  <2>1. old.stage[g] = 4
    BY <1>1, <1>2, LinkedIsLast
  <2>2. new.stage[g] = 4
    BY <1>1, <1>2, <2>1
  <2>3. QED
    BY <1>1, <1>2, <2>2, LinkedIsLast
<1>5. fresh \subseteq (Q \ P) \cup (M \ L)
  <2> SUFFICES ASSUME NEW g \in Q, KeyOf(new, g) \notin KeysOf(old), g \in P
               PROVE  g \in M \ L
    OBVIOUS
  <2>1. g \in GamesOf(m) /\ g \in Games /\ g \in Posted(old)
    BY <1>2 DEF PostedOf, Posted
  <2>2. KeyOf(new, g) # KeyOf(old, g)
    BY <2>1 DEF KeysOf
  <2>3. CASE Stages[new.stage[g]] = "linked"
    BY <2>1, <2>2, <2>3 DEF KeyOf, LinkedOf
  <2>4. CASE Stages[new.stage[g]] # "linked"
    <3>1. Stages[old.stage[g]] # "linked"
      BY <1>4, <2>1, <2>4 DEF LinkedOf
    <3>2. QED
      BY <2>2, <2>4, <3>1 DEF KeyOf
  <2>5. QED
    BY <2>3, <2>4
<1>6. IsFiniteSet(Q) /\ IsFiniteSet(M) /\ IsFiniteSet(P) /\ IsFiniteSet(L)
  <2>1. IsFiniteSet(Games)
    BY GamesAreTyped
  <2>2. Q \subseteq Games /\ M \subseteq Games /\ P \subseteq Games /\ L \subseteq Games
    BY <1>2 DEF PostedOf, LinkedOf
  <2> HIDE DEF P, Q, L, M
  <2>3. QED
    BY <2>1, <2>2, FS_Subset
<1> HIDE DEF P, Q, L, M, fresh
<1>7. /\ IsFiniteSet(Q \ P) /\ Cardinality(Q \ P) = Cardinality(Q) - Cardinality(P)
      /\ IsFiniteSet(M \ L) /\ Cardinality(M \ L) = Cardinality(M) - Cardinality(L)
  <2>1. Q \cap P = P /\ M \cap L = L
    BY <1>3, <1>4
  <2>2. IsFiniteSet(Q \ P) /\ Cardinality(Q \ P) = Cardinality(Q) - Cardinality(Q \cap P)
    BY <1>6, FS_Difference
  <2>3. IsFiniteSet(M \ L) /\ Cardinality(M \ L) = Cardinality(M) - Cardinality(M \cap L)
    BY <1>6, FS_Difference
  <2>4. QED
    BY <2>1, <2>2, <2>3
<1>8. /\ Cardinality(P) \in Nat /\ Cardinality(Q) \in Nat /\ Cardinality(L) \in Nat
      /\ Cardinality(M) \in Nat
  BY <1>6, FS_CardinalityType
<1> DEFINE A == Q \ P
           B == M \ L
<1>9. /\ IsFiniteSet(A \cup B) /\ Cardinality(A \cup B) \in Nat
      /\ Cardinality(A \cup B) <= Cardinality(A) + Cardinality(B)
  <2>1. IsFiniteSet(A) /\ IsFiniteSet(B)
    BY <1>7
  <2> HIDE DEF A, B
  <2>2. /\ IsFiniteSet(A \cup B)
        /\ Cardinality(A \cup B) = Cardinality(A) + Cardinality(B) - Cardinality(A \cap B)
    BY <2>1, FS_Union
  <2>3. IsFiniteSet(A \cap B)
    BY <2>1, FS_Subset
  <2>4. Cardinality(A) \in Nat /\ Cardinality(B) \in Nat /\ Cardinality(A \cap B) \in Nat
        /\ Cardinality(A \cup B) \in Nat
    BY <2>1, <2>2, <2>3, FS_CardinalityType
  <2>5. QED
    BY <2>2, <2>4
<1>10. /\ IsFiniteSet(fresh) /\ Cardinality(fresh) \in Nat
       /\ Cardinality(fresh) <= Cardinality(A \cup B)
  <2>1. fresh \subseteq A \cup B
    BY <1>5
  <2> HIDE DEF A, B
  <2>2. QED
    BY <1>9, <2>1, FS_Subset, FS_CardinalityType
<1>11. Due(old, m) = Cardinality(P) + Cardinality(L) /\ Due(new, m) = Cardinality(Q) + Cardinality(M)
  BY DEF Due, P, Q, L, M
<1>12. QED
  <2>1. /\ Cardinality(A) = Cardinality(Q) - Cardinality(P)
        /\ Cardinality(B) = Cardinality(M) - Cardinality(L)
    BY <1>7
  <2> HIDE DEF A, B
  <2>2. Cardinality(fresh) <= (Cardinality(Q) - Cardinality(P)) + (Cardinality(M) - Cardinality(L))
    BY <1>8, <1>9, <1>10, <2>1
  <2>3. QED
    BY <1>8, <1>10, <1>11, <2>2 DEF fresh

\* The added rows of a matchup are those of its games with a new key, one each.
LEMMA RowsAreNewGames ==
    ASSUME NEW items, NEW schedule \in Schedules, Listed(items, schedule), NEW m \in Matchups
    PROVE  LET added == AddedOf(items)
               rows  == {i \in DOMAIN added : /\ added[i].title[1] = m.date
                                              /\ added[i].title[3] = m.away
                                              /\ added[i].title[4] = m.home}
               fresh == {g \in PostedOf(schedule, m) : KeyOf(schedule, g) \notin baseline}
           IN  IsFiniteSet(fresh) =>
                   IsFiniteSet(rows) /\ Cardinality(rows) <= Cardinality(fresh)
<1> DEFINE n == Len(items)
           I == {i \in DOMAIN items : items[i].id \notin baseline}
           added == Kept(items, I)
           c == Cardinality(I)
           at == Ascending(I)
           rows == {i \in DOMAIN added : /\ added[i].title[1] = m.date
                                         /\ added[i].title[3] = m.away
                                         /\ added[i].title[4] = m.home}
           fresh == {g \in PostedOf(schedule, m) : KeyOf(schedule, g) \notin baseline}
<1>1. AddedOf(items) = added
  BY DEF AddedOf
<1>2. /\ IsList(items)
      /\ \E pos :
            /\ \A g \in Posted(schedule) :
                  /\ pos[g] \in DOMAIN items
                  /\ items[pos[g]].id = KeyOf(schedule, g)
                  /\ items[pos[g]].title[1] = g.date
                  /\ items[pos[g]].title[3] = g.away
                  /\ items[pos[g]].title[4] = g.home
            /\ \A k \in DOMAIN items : \E g \in Posted(schedule) : pos[g] = k
  BY DEF Listed
<1>3. PICK pos :
            /\ \A g \in Posted(schedule) :
                  /\ pos[g] \in DOMAIN items
                  /\ items[pos[g]].id = KeyOf(schedule, g)
                  /\ items[pos[g]].title[1] = g.date
                  /\ items[pos[g]].title[3] = g.away
                  /\ items[pos[g]].title[4] = g.home
            /\ \A k \in DOMAIN items : \E g \in Posted(schedule) : pos[g] = k
  BY <1>2
<1>4. n \in Nat /\ DOMAIN items = 1..n /\ I \in SUBSET (1..n) /\ I \in SUBSET Nat
  BY <1>2 DEF IsList
<1>5. \A i \in I : items[i].id \notin baseline /\ i \in DOMAIN items
  OBVIOUS
<1> HIDE DEF I, n
<1>6. /\ IsFiniteSet(I) /\ c \in Nat /\ DOMAIN added = 1..c
      /\ \A k \in 1..c : at[k] \in I /\ added[k] = items[at[k]]
  <2>1. n \in Nat /\ I \in SUBSET (1..n)
    BY <1>4
  <2>2. QED
    BY ONLY <2>1, KeptEntries
<1>7. \A k, l \in 1..c : k < l => at[k] < at[l]
  BY <1>4, <1>6, AscendingLists
<1> HIDE DEF added, c, at
<1>8. \A k, l \in 1..c : at[k] = at[l] => k = l
  <2> SUFFICES ASSUME NEW k \in 1..c, NEW l \in 1..c, at[k] = at[l]
               PROVE  ~(k < l) /\ ~(l < k)
    BY <1>6
  <2>1. at[k] \in Nat /\ at[l] \in Nat
    BY <1>4, <1>6
  <2>2. ~(at[k] < at[l]) /\ ~(at[l] < at[k])
    BY <2>1
  <2>3. QED
    BY <1>7, <2>2
<1> DEFINE f == [g \in fresh |-> CHOOSE k \in 1..c : at[k] = pos[g]]
<1>9. ASSUME NEW k \in rows
      PROVE  \E g \in fresh : f[g] = k
  <2>1. /\ k \in 1..c /\ added[k].title[1] = m.date /\ added[k].title[3] = m.away
        /\ added[k].title[4] = m.home
    BY <1>6
  <2>2. at[k] \in I /\ at[k] \in DOMAIN items /\ added[k] = items[at[k]]
    BY <1>5, <1>6, <2>1
  <2>3. PICK g \in Posted(schedule) : pos[g] = at[k]
    BY <1>3, <2>2
  <2>4. g.date = m.date /\ g.away = m.away /\ g.home = m.home
    BY <1>3, <2>1, <2>2, <2>3
  <2>5. KeyOf(schedule, g) \notin baseline
    BY <1>3, <1>5, <2>2, <2>3
  <2>6. g \in PostedOf(schedule, m)
    <3>1. m = [date |-> m.date, away |-> m.away, home |-> m.home]
      BY DEF Matchups
    <3>2. g \in GamesOf(m)
      BY <2>4, <3>1 DEF GamesOf, Posted
    <3>3. QED
      BY <3>2 DEF PostedOf, Posted
  <2>7. g \in fresh
    BY <2>5, <2>6
  <2>8. f[g] = CHOOSE l \in 1..c : at[l] = pos[g]
    BY <2>7
  <2>9. f[g] \in 1..c /\ at[f[g]] = pos[g]
    BY <2>1, <2>3, <2>8
  <2>10. f[g] = k
    BY <1>8, <2>1, <2>3, <2>9
  <2>11. QED
    BY <2>7, <2>10
<1> HIDE DEF f, fresh, rows
<1>10. IsFiniteSet(fresh) => IsFiniteSet(rows) /\ Cardinality(rows) <= Cardinality(fresh)
  BY <1>9, NoMoreThan
<1>11. QED
  BY <1>1, <1>10 DEF rows, fresh

LEMMA AtFirstNothingIsDue ==
    ASSUME NEW seen \in Schedules, \A g \in Games : seen.stage[g] = 1, NEW m
    PROVE  Due(seen, m) = 0 /\ KeysOf(seen) = {}
<1>1. PostedOf(seen, m) = {} /\ Posted(seen) = {}
  BY DEF PostedOf, Posted, GamesOf
<1>2. LinkedOf(seen, m) = {}
  <2>1. Stages[1] # "linked"
    BY DEF Stages
  <2>2. QED
    BY <2>1 DEF LinkedOf, GamesOf
<1>3. QED
  BY <1>1, <1>2, FS_EmptySet DEF Due, KeysOf

\* No set of keys passes for the absence of a baseline.
LEMMA KeysAreABaseline ==
    ASSUME NEW seen
    PROVE  KeysOf(seen) # NoBaseline /\ {} # NoBaseline
<1>1. KeysOf(seen) \in SUBSET GameKeys
  BY DEF KeysOf, KeyOf, Posted, GameKeys
<1>2. {} \in SUBSET GameKeys
  OBVIOUS
<1>3. QED
  BY <1>1, <1>2, NoBaselineAssumption

\* A comparison announces no more than has become due since.
LEMMA ComparisonsAreDue ==
    ASSUME TypeOK, source.type = "nfvl", NEW answer, Asked(answer, TRUE), DiffCheck(answer),
           NEW seen \in Schedules, Follows(seen, site), baseline = KeysOf(seen),
           \A m \in Matchups : announced[m] <= Due(seen, m)
    PROVE  baseline' = KeysOf(site) /\ \A m \in Matchups : announced'[m] <= Due(site, m)
<1> DEFINE items == Fetch(source, answer).items
           added == AddedOf(items)
           rows(m) == {i \in DOMAIN added : /\ added[i].title[1] = m.date
                                            /\ added[i].title[3] = m.away
                                            /\ added[i].title[4] = m.home}
           now(m) == announced[m] + Cardinality(rows(m))
           fresh(m) == {g \in PostedOf(site, m) : KeyOf(site, g) \notin baseline}
<1>1. site \in Schedules
  BY DEF TypeOK, Sites, Lists
<1>2. Fetch(source, answer).ok = TRUE /\ answer = Render
  BY CheckReads
<1>3. Fetch(source, Render) = FetchNFVL(source, Page(SchedulePage(site)))
  BY DEF Fetch, Render
<1>4. Listed(items, site)
  <2> DEFINE result == FetchNFVL(source, Page(SchedulePage(site)))
  <2>1. IF Posted(site) = {} THEN result = Failed
        ELSE result.ok = TRUE /\ Listed(result.items, site)
    BY <1>1, ScheduleIsRead
  <2>2. Fetch(source, answer) = result
    BY <1>2, <1>3
  <2> HIDE DEF result
  <2>3. result # Failed
    BY <1>2, <2>2, Verdicts
  <2>4. QED
    BY <2>1, <2>2, <2>3
<1>5. baseline' = KeysOf(site)
  <2>1. baseline' = Content
    BY DifferencesAreTold
  <2>2. Content = KeysOf(site)
    BY DEF Content, KeysOf, KeyOf, Posted
  <2>3. QED
    BY <2>1, <2>2
<1>6. announced' = [m \in Matchups |-> IF now(m) > MaxAnnounced THEN MaxAnnounced ELSE now(m)]
  BY DEF DiffCheck, Announce
<1>7. ASSUME NEW m \in Matchups
      PROVE  announced'[m] <= Due(site, m)
  <2>1. /\ IsFiniteSet(fresh(m)) /\ Cardinality(fresh(m)) \in Nat
        /\ Due(seen, m) \in Nat /\ Due(site, m) \in Nat
        /\ Due(seen, m) + Cardinality(fresh(m)) <= Due(site, m)
    BY <1>1, NewKeysAreDue
  <2> HIDE DEF items
  <2>2. IsFiniteSet(rows(m)) /\ Cardinality(rows(m)) <= Cardinality(fresh(m))
    BY <1>1, <1>4, <2>1, RowsAreNewGames
  <2>3. announced'[m] = IF now(m) > MaxAnnounced THEN MaxAnnounced ELSE now(m)
    BY <1>6
  <2> HIDE DEF rows, fresh
  <2>4. Cardinality(rows(m)) \in Nat
    BY <2>2, FS_CardinalityType
  <2>5. announced[m] \in Nat /\ MaxAnnounced \in Nat
    <3>1. announced[m] \in 0..MaxAnnounced
      BY DEF TypeOK
    <3>2. QED
      BY <3>1, PageWatchAssumption
  <2>6. announced[m] <= Due(seen, m)
    OBVIOUS
  <2>7. now(m) \in Nat /\ now(m) <= Due(site, m)
    BY <2>1, <2>2, <2>4, <2>5, <2>6
  <2> HIDE DEF now
  <2>8. QED
    BY <2>1, <2>3, <2>5, <2>7
<1>8. QED
  BY <1>5, <1>7

LEMMA ChecksAreDue ==
    ASSUME AnnouncedInv, NEW answer, NEW own, Asked(answer, own), Check(answer, own)
    PROVE  Accounted'
<1>1. TypeOK /\ source' = source /\ site' = site
  BY DEF AnnouncedInv, Check
<1> SUFFICES ASSUME source.type = "nfvl" PROVE Accounted'
  BY <1>1 DEF Accounted
<1>2. site \in Schedules /\ Follows(site, site)
  <2>1. site \in Schedules
    BY <1>1 DEF TypeOK, Sites, Lists
  <2>2. QED
    BY <2>1 DEF Schedules, Follows
<1>3. PICK seen \in Schedules :
          /\ Follows(seen, site)
          /\ IF baseline = NoBaseline THEN \A g \in Games : seen.stage[g] = 1
             ELSE baseline = KeysOf(seen)
          /\ \A m \in Matchups : announced[m] <= Due(seen, m)
  BY DEF AnnouncedInv, Accounted
<1> DEFINE Accounts(old) ==
               /\ Follows(old, site) /\ baseline' # NoBaseline /\ baseline' = KeysOf(old)
               /\ \A m \in Matchups : announced'[m] <= Due(old, m)
<1>4. SUFFICES \E old \in Schedules : Accounts(old)
  <2>1. PICK old \in Schedules : Accounts(old)
    BY <1>4
  <2>2. Follows(old, site')
    BY <1>1, <2>1
  <2>3. QED
    BY <1>1, <2>1, <2>2 DEF Accounted, Follows, KeysOf, KeyOf, Posted, Due, PostedOf, LinkedOf
<1>5. \A old : KeysOf(old) # NoBaseline /\ {} # NoBaseline
  BY KeysAreABaseline
<1>6. CASE Fails(own)
  <2>1. baseline = NoBaseline => KeysOf(seen) = {}
    BY <1>3, AtFirstNothingIsDue
  <2>2. baseline' = KeysOf(seen) /\ announced' = announced
    BY <1>3, <1>6, <2>1 DEF Fails
  <2>3. QED
    BY <1>3, <1>5, <2>2
<1>7. CASE Begins(own)
  <2>1. baseline' = Content /\ Content = KeysOf(site) /\ announced' = announced
    BY <1>7 DEF Begins, Content, KeysOf, KeyOf, Posted
  <2>2. ASSUME NEW m \in Matchups
        PROVE  announced'[m] <= Due(site, m)
    <3>1. announced[m] <= Due(seen, m) /\ announced[m] \in Nat
      <4>1. announced[m] \in 0..MaxAnnounced
        BY <1>1 DEF TypeOK
      <4>2. QED
        BY <1>3, <4>1, PageWatchAssumption
    <3> DEFINE fresh == {g \in PostedOf(site, m) : KeyOf(site, g) \notin KeysOf(seen)}
    <3>2. /\ Due(seen, m) \in Nat /\ Due(site, m) \in Nat /\ Cardinality(fresh) \in Nat
          /\ Due(seen, m) + Cardinality(fresh) <= Due(site, m)
      BY <1>2, <1>3, NewKeysAreDue
    <3> HIDE DEF fresh
    <3>3. announced[m] <= Due(site, m)
      BY <3>1, <3>2
    <3>4. QED
      BY <2>1, <3>3
  <2>3. QED
    BY <1>2, <1>5, <2>1, <2>2
<1>8. CASE Compares(own, answer)
  <2>1. own = TRUE /\ DiffCheck(answer) /\ baseline = KeysOf(seen)
    BY <1>3, <1>8 DEF Compares
  <2>2. baseline' = KeysOf(site) /\ \A m \in Matchups : announced'[m] <= Due(site, m)
    BY <1>1, <1>3, <2>1, ComparisonsAreDue
  <2>3. QED
    BY <1>2, <1>5, <2>2
<1>9. CASE Collects(own, answer)
  BY <1>9 DEF Collects
<1>10. QED
  BY <1>1, <1>6, <1>7, <1>8, <1>9, ChecksEnd

\* A game is announced at most once for its posting and at most once more for
\* its boxscore, which changes its ID: never for its results, after an outage,
\* for the layout or the order of the rows (nfvl.go, Fetch).
THEOREM GamesAreAnnouncedOnce == Spec => []GameAnnouncedOnce
<1>1. Init => AnnouncedInv
  <2> SUFFICES ASSUME Init PROVE AnnouncedInv
    OBVIOUS
  <2>1. TypeOK
    BY TypedAtFirst
  <2> SUFFICES ASSUME source.type = "nfvl" PROVE AnnouncedInv
    BY <2>1 DEF AnnouncedInv, Accounted
  <2> DEFINE seen == [stage |-> [g \in Games |-> 1], older |-> TRUE]
  <2>2. seen \in Schedules /\ \A g \in Games : seen.stage[g] = 1
    BY DEF Schedules
  <2>3. site \in Schedules
    BY <2>1 DEF TypeOK, Sites, Lists
  <2> HIDE DEF seen
  <2>4. Follows(seen, site)
    BY <2>2, <2>3 DEF Follows, Schedules
  <2>5. \A m \in Matchups : announced[m] <= Due(seen, m)
    BY <2>2, AtFirstNothingIsDue DEF Init
  <2>6. baseline = NoBaseline
    BY DEF Init
  <2>7. QED
    BY <2>1, <2>2, <2>4, <2>5, <2>6 DEF AnnouncedInv, Accounted
<1>2. AnnouncedInv /\ [Next]_vars => AnnouncedInv'
  <2> SUFFICES ASSUME AnnouncedInv, [Next]_vars PROVE AnnouncedInv'
    OBVIOUS
  <2>1. TypeOK'
    BY StepsKeepTypes DEF AnnouncedInv
  <2>2. CASE SiteChanges
    <3>1. UNCHANGED <<source, baseline, announced>> /\ MayBecome(source.type, site, site')
      BY <2>2 DEF SiteChanges
    <3> SUFFICES ASSUME source.type = "nfvl" PROVE AnnouncedInv'
      BY <2>1, <3>1 DEF AnnouncedInv, Accounted
    <3>2. PICK seen \in Schedules :
              /\ Follows(seen, site)
              /\ IF baseline = NoBaseline THEN \A g \in Games : seen.stage[g] = 1
                 ELSE baseline = KeysOf(seen)
              /\ \A m \in Matchups : announced[m] <= Due(seen, m)
      BY DEF AnnouncedInv, Accounted
    <3>3. site \in Schedules /\ site' \in Schedules
      BY <2>1, <3>1 DEF AnnouncedInv, TypeOK, Sites, Lists
    <3>4. \A g \in Games : site'.stage[g] >= site.stage[g]
      BY <3>1 DEF MayBecome, Lists
    <3>5. Follows(seen, site')
      <4>1. \A g \in Games : /\ seen.stage[g] \in Nat /\ site.stage[g] \in Nat
                             /\ site'.stage[g] \in Nat /\ seen.stage[g] <= site.stage[g]
        BY <3>2, <3>3 DEF Follows, Schedules
      <4>2. QED
        BY <3>4, <4>1 DEF Follows
    <3>6. Accounted'
      BY <3>1, <3>2, <3>5 DEF Accounted, Follows, KeysOf, KeyOf, Posted, Due, PostedOf, LinkedOf
    <3>7. QED
      BY <2>1, <3>6 DEF AnnouncedInv
  <2>3. CASE \E answer, own : Asked(answer, own) /\ Check(answer, own)
    BY <2>1, <2>3, ChecksAreDue DEF AnnouncedInv
  <2>4. CASE UNCHANGED vars
    BY <2>1, <2>4 DEF vars, AnnouncedInv, Accounted, Follows, KeysOf, KeyOf, Posted, Due,
                     PostedOf, LinkedOf
  <2>5. QED
    BY <2>2, <2>3, <2>4, ChecksAsk
<1>3. AnnouncedInv => GameAnnouncedOnce
  <2> SUFFICES ASSUME AnnouncedInv, source.type = "nfvl", NEW m \in Matchups
               PROVE  announced[m] <= Due(site, m)
    BY DEF GameAnnouncedOnce, Due, PostedOf, LinkedOf, GamesOf
  <2>1. PICK seen \in Schedules :
            Follows(seen, site) /\ announced[m] <= Due(seen, m)
    BY DEF AnnouncedInv, Accounted
  <2>2. site \in Schedules
    BY DEF AnnouncedInv, TypeOK, Sites, Lists
  <2> DEFINE fresh == {g \in PostedOf(site, m) : KeyOf(site, g) \notin KeysOf(seen)}
  <2>3. /\ Due(seen, m) \in Nat /\ Due(site, m) \in Nat /\ Cardinality(fresh) \in Nat
        /\ Due(seen, m) + Cardinality(fresh) <= Due(site, m)
    BY <2>1, <2>2, NewKeysAreDue
  <2> HIDE DEF fresh
  <2>4. announced[m] \in Nat
    <3>1. announced[m] \in 0..MaxAnnounced
      BY DEF AnnouncedInv, TypeOK
    <3>2. QED
      BY <3>1, PageWatchAssumption
  <2>5. QED
    BY <2>1, <2>3, <2>4
<1>4. QED
  BY <1>1, <1>2, <1>3, PTL DEF Spec
=============================================================================
