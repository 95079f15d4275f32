--------------------------- MODULE HandoverProofs ---------------------------
(***************************************************************************)
(* Proofs about Handover for every finite set of sources, every set of     *)
(* URLs and every number of configs, edits and failed fetches: no runner   *)
(* loses its cell, no item gets into a baseline in silence, and a live     *)
(* runner formats and publishes with its own config.                       *)
(***************************************************************************)
EXTENDS Handover, FiniteSetTheorems, SequenceTheorems, TLAPS

USE IDAssumption, URLAssumption, BoundAssumption

\* A runner belongs to a config the daemon has or had, and what the phase of
\* its check needs is there.
Underway ==
    \A r \in Runners :
        /\ ~In(r, "none") => r[1] <= dgen
        /\ In(r, "none") => ~run[r].live
        /\ In(r, "fetch") => run[r].url \in URLs
        /\ In(r, "diff") \/ In(r, "publish") => run[r].from \in IDs
        /\ In(r, "publish") => run[r].id \in IDs /\ run[r].base # None

Inv == TypeOK /\ Underway

\* What NothingSilent says of the baselines holds of the copies that the
\* checks under way have taken.
Accounted(items, id) ==
    /\ items \subseteq Told
    /\ id \notin mixed => items \subseteq known[id]

CopiesAccounted ==
    \A r \in Runners :
        (In(r, "diff") \/ In(r, "publish")) /\ run[r].base # None =>
            Accounted(run[r].base, run[r].from)

SilentInv == Inv /\ NothingSilent /\ CopiesAccounted

\* Client and summarizer are those of the daemon's config, except between the
\* two halves of Reload, and only its runners live.
Installed ==
    /\ client = dgen
    /\ pc # "replace" => summ = dgen
    /\ \A r \in Runners : run[r].live =>
          r[1] = summ /\ pc # "launch"

ConfigInv == Inv /\ Installed /\ LiveRunnersUseTheirConfig

-----------------------------------------------------------------------------
LEMMA SlotCount == Cardinality(IDs) \in Nat /\ Slots \subseteq Nat
BY FS_CardinalityType DEF Slots

LEMMA FirstURLs == \A id \in IDs : FirstURL(id) \in URLs
BY DEF FirstURL

LEMMA PageItems == ASSUME NEW u \in URLs PROVE Page(u) \subseteq Items
BY DEF Page, Items

LEMMA RunnerTypes ==
    /\ Fresh \in Run /\ NoCheck \in Run
    /\ Fresh.phase = "wait" /\ Fresh.live /\ Fresh.topic = 0
    /\ NoCheck.phase = "none" /\ ~NoCheck.live
<1>1. NoCheck \in Run
  BY DEF NoCheck, Run
<1>2. Fresh \in Run
  BY <1>1 DEF Fresh, Run
<1>3. Fresh.phase = "wait" /\ Fresh.live /\ Fresh.topic = 0
  BY DEF Fresh, NoCheck
<1>4. QED
  BY <1>1, <1>2, <1>3 DEF NoCheck

\* The array of a loaded list: its sources are in the front cells.
LEMMA ArrayHolds ==
    ASSUME NEW list \in Seq(Source), Len(list) \in 0..Cardinality(IDs)
    PROVE  /\ Array(list) \in [Slots -> Source \cup {Free}]
           /\ \A i \in 1..Len(list) : Array(list)[i] \in Source
BY SlotCount DEF Array, Slots

LEMMA TypeInit == Init => Inv
<1> SUFFICES ASSUME Init PROVE Inv
  OBVIOUS
<1> DEFINE Order == {list \in [Slots -> IDs] :
                        \A i, j \in Slots : i # j => list[i] # list[j]}
           order == CHOOSE list \in [Slots -> IDs] :
                        \A i, j \in Slots : i # j => list[i] # list[j]
<1>1. order \in [Slots -> IDs]
  <2>1. PICK list \in Bijection(1..Cardinality(IDs), IDs) : TRUE
    BY FS_CardinalityType DEF ExistsBijection
  <2>2. /\ list \in [Slots -> IDs]
        /\ \A i, j \in Slots : i # j => list[i] # list[j]
    BY <2>1 DEF Bijection, Injection, IsInjective, Slots
  <2>3. QED
    BY <2>2
<1>2. file = [i \in Slots |-> [id |-> order[i], url |-> FirstURL(order[i])]]
  BY DEF Init
<1>3. /\ file \in Seq(Source) /\ Len(file) = Cardinality(IDs)
      /\ \A i \in Slots : file[i] \in Source
  <2>1. \A i \in Slots : [id |-> order[i], url |-> FirstURL(order[i])] \in Source
    BY <1>1, FirstURLs DEF Source
  <2> HIDE DEF order
  <2>2. file \in [1..Cardinality(IDs) -> Source]
    BY <1>2, <2>1 DEF Slots
  <2>3. QED
    BY <2>2, SlotCount DEF Slots
<1> HIDE DEF order
<1>4. site \in [URLs -> Nat]
  BY DEF Init
<1>5. baseline \in [IDs -> SUBSET Items]
  <2>1. \A i \in Slots : Page(file[i].url) \subseteq Items
    BY <1>3, PageItems DEF Source
  <2>2. \A id \in IDs :
          UNION {Page(file[i].url) : i \in {j \in Slots : file[j].id = id}} \subseteq Items
    BY <2>1
  <2>3. QED
    BY <2>2 DEF Init
<1>6. /\ cells \in [Gens -> [Slots -> Source \cup {Free}]]
      /\ length \in [Gens -> 0..Cardinality(IDs)]
      /\ \A g \in Gens : \A i \in 1..length[g] : cells[g][i] \in Source
      /\ \A i \in Slots : cells[1][i] \in Source
  <2>1. <<>> \in Seq(Source) /\ Len(<<>>) \in 0..Cardinality(IDs)
    BY SlotCount
  <2>2. Array(<<>>) \in [Slots -> Source \cup {Free}]
    BY <2>1, ArrayHolds
  <2>3. /\ Array(file) \in [Slots -> Source \cup {Free}]
        /\ \A i \in 1..Len(file) : Array(file)[i] \in Source
    BY <1>3, SlotCount, ArrayHolds
  <2>4. /\ cells = [g \in Gens |-> IF g = 1 THEN Array(file) ELSE Array(<<>>)]
        /\ length = [g \in Gens |-> IF g = 1 THEN Len(file) ELSE 0]
    BY DEF Init
  <2>5. 1 \in Gens
    BY DEF Gens
  <2>6. QED
    BY <1>3, <2>2, <2>3, <2>4, <2>5, SlotCount DEF Slots
<1>7. {dgen, wgen, client, summ} \subseteq Gens
  BY DEF Init, Gens
<1>8. /\ run \in [Runners -> Run]
      /\ \A r \in Runners : IF r[1] = 1 THEN run[r] = Fresh ELSE run[r] = NoCheck
  BY RunnerTypes DEF Init
<1>9. \A r \in Runners : In(r, "none") \/ Cell(r) \in Source
  BY <1>6, <1>8 DEF In, Cell, Runners, NoCheck
<1>10. edits \in 0..MaxEdits /\ errors \in 0..MaxErrors
  BY DEF Init
<1>11. TypeOK
  BY <1>3, <1>4, <1>5, <1>6, <1>7, <1>8, <1>9, <1>10, SlotCount DEF Init, TypeOK
<1>12. Underway
  BY <1>8 DEF Init, Underway, In, Fresh, NoCheck, Runners, Gens
<1>13. QED
  BY <1>11, <1>12 DEF Inv

-----------------------------------------------------------------------------
\* Every check under way is that of a runner whose cell holds a source.
LEMMA CellHolds ==
    ASSUME Inv, NEW r \in Runners, ~In(r, "none")
    PROVE  Cell(r) \in Source /\ Cell(r).id \in IDs /\ Cell(r).url \in URLs
BY DEF Inv, TypeOK, Source

\* A step of one runner: it is enough to look at its new record and at what it
\* wrote.
LEMMA CheckStep ==
    ASSUME Inv, NEW r \in Runners, NEW new \in Run,
           ~In(r, "none"),
           run' = [run EXCEPT ![r] = new],
           new.phase = "none" => ~new.live,
           new.phase = "fetch" => new.url \in URLs,
           new.phase \in {"diff", "publish"} => new.from \in IDs,
           new.phase = "publish" => new.id \in IDs /\ new.base # None,
           UNCHANGED sharedVars,
           baseline' \in [IDs -> (SUBSET Items) \cup {None}],
           known' \in [IDs -> SUBSET Items], mixed' \in SUBSET IDs,
           edits' \in 0..MaxEdits, errors' \in 0..MaxErrors
    PROVE  Inv'
<1>1. run' \in [Runners -> Run]
  BY DEF Inv, TypeOK
<1>2. /\ run'[r] = new
      /\ \A q \in Runners : q # r => run'[q] = run[q]
  BY DEF Inv, TypeOK
<1>3. /\ UNCHANGED <<site, file, pending, cells, length, dgen, wgen, client, summ, pc>>
      /\ \A q \in Runners : Cell(q)' = Cell(q)
  BY DEF sharedVars, reloadVars, Cell
<1>4. \A q \in Runners : In(q, "none")' \/ Cell(q)' \in Source
  BY <1>2, <1>3 DEF Inv, TypeOK, In
<1>5. TypeOK'
  BY <1>1, <1>3, <1>4 DEF Inv, TypeOK
<1>6. Underway'
  BY <1>2, <1>3 DEF Inv, Underway, In
<1>7. QED
  BY <1>5, <1>6 DEF Inv

\* A request for n sources in the array: they are in its front cells.
LEMMA StoreStep ==
    ASSUME Inv, NEW array \in [Slots -> Source \cup {Free}],
           NEW n \in 0..Cardinality(IDs), Store(array, n),
           \A i \in 1..n : array[i] \in Source,
           \A i \in Slots : cells[wgen][i] \in Source => array[i] \in Source
    PROVE  Inv'
<1>1. /\ cells' = [cells EXCEPT ![wgen] = array]
      /\ length' = [length EXCEPT ![wgen] = n]
      /\ file' = SubSeq(array, 1, n) /\ pending' = TRUE
      /\ edits < MaxEdits /\ edits' = edits + 1
      /\ UNCHANGED <<site, baseline, dgen, wgen, client, summ, pc, run, known, mixed, errors>>
  BY DEF Store, reloadVars, histVars
<1>2. wgen \in Gens
  BY DEF Inv, TypeOK
<1>3. /\ cells' \in [Gens -> [Slots -> Source \cup {Free}]]
      /\ length' \in [Gens -> 0..Cardinality(IDs)]
      /\ \A g \in Gens : \A i \in 1..length'[g] : cells'[g][i] \in Source
  BY <1>1, <1>2 DEF Inv, TypeOK
<1>4. file' \in Seq(Source) /\ Len(file') \in 0..Cardinality(IDs)
  <2>1. 1 \in Int /\ n \in Int /\ n - 1 + 1 = n
    BY SlotCount
  <2>2. /\ SubSeq(array, 1, n) \in Seq(Source)
        /\ Len(SubSeq(array, 1, n)) = IF 1 <= n THEN n - 1 + 1 ELSE 0
    BY <2>1, SubSeqProperties
  <2>3. QED
    BY <1>1, <2>1, <2>2, SlotCount
<1>5. \A r \in Runners : In(r, "none")' \/ Cell(r)' \in Source
  <2> SUFFICES ASSUME NEW r \in Runners, ~In(r, "none")'
               PROVE  Cell(r)' \in Source
    OBVIOUS
  <2>1. Cell(r) \in Source
    BY <1>1 DEF In, Inv, TypeOK
  <2>2. r[1] \in Gens /\ r[2] \in Slots
    BY DEF Runners
  <2>3. QED
    BY <1>1, <1>2, <2>1, <2>2 DEF Cell, Inv, TypeOK
<1>6. edits' \in 0..MaxEdits
  BY <1>1 DEF Inv, TypeOK
<1>7. TypeOK'
  BY <1>1, <1>3, <1>4, <1>5, <1>6 DEF Inv, TypeOK
<1>8. Underway'
  BY <1>1 DEF Inv, Underway, In
<1>9. QED
  BY <1>7, <1>8 DEF Inv

-----------------------------------------------------------------------------
\* After its check a runner waits or ends.
LEMMA WaitsOrEnds ==
    ASSUME Inv, NEW r \in Runners, ~In(r, "none"), Wait(r),
           UNCHANGED sharedVars,
           baseline' \in [IDs -> (SUBSET Items) \cup {None}],
           known' \in [IDs -> SUBSET Items], mixed' \in SUBSET IDs,
           edits' \in 0..MaxEdits, errors' \in 0..MaxErrors
    PROVE  Inv'
<1> DEFINE new == IF run[r].live THEN Fresh ELSE NoCheck
<1>1. /\ new \in Run /\ new.phase \in {"wait", "none"}
      /\ new.phase = "none" => ~new.live
  BY RunnerTypes
<1>2. run' = [run EXCEPT ![r] = new]
  BY DEF Wait
<1> HIDE DEF new
<1>3. QED
  BY <1>1, <1>2, CheckStep

LEMMA CheckType ==
    ASSUME Inv, NEW r \in Runners, Check(r)
    PROVE  Inv'
<1>1. ~In(r, "none")
  BY DEF Check, Begin, Fetched, FetchFails, FirstRun, Same, Diff, Publish, In
<1>2. Cell(r).id \in IDs /\ Cell(r).url \in URLs
  BY <1>1, CellHolds
<1>3. run[r] \in Run
  BY DEF Inv, TypeOK
<1>4. /\ baseline \in [IDs -> (SUBSET Items) \cup {None}]
      /\ known \in [IDs -> SUBSET Items] /\ mixed \in SUBSET IDs
      /\ edits \in 0..MaxEdits /\ errors \in 0..MaxErrors
      /\ client \in Gens
  BY DEF Inv, TypeOK
<1>5. CASE Begin(r)
  <2> DEFINE new == [run[r] EXCEPT !.phase = "fetch", !.url = Cell(r).url]
  <2>1. new \in Run /\ new.phase = "fetch" /\ new.url \in URLs
    BY <1>2, <1>3 DEF Run
  <2>2. run' = [run EXCEPT ![r] = new]
    BY <1>5, <1>3 DEF Begin, Inv, TypeOK, Run
  <2>3. UNCHANGED <<sharedVars, baseline, histVars, cntVars>>
    BY <1>5 DEF Begin
  <2> HIDE DEF new
  <2>4. QED
    BY <1>1, <1>4, <2>1, <2>2, <2>3, CheckStep DEF histVars, cntVars
<1>6. CASE Fetched(r)
  <2> DEFINE new == [run[r] EXCEPT !.phase = "diff", !.page = Page(run[r].url),
                                   !.url = None, !.from = Cell(r).id,
                                   !.base = baseline[Cell(r).id]]
  <2>0. Page(run[r].url) \subseteq Items
    BY <1>6, PageItems DEF Fetched, Inv, Underway
  <2>1. new \in Run /\ new.phase = "diff" /\ new.from \in IDs
    BY <1>2, <1>3, <1>4, <2>0 DEF Run
  <2>2. run' = [run EXCEPT ![r] = new]
    BY <1>6, <1>3 DEF Fetched, Inv, TypeOK, Run
  <2>3. UNCHANGED <<sharedVars, baseline, histVars, cntVars>>
    BY <1>6 DEF Fetched
  <2> HIDE DEF new
  <2>4. QED
    BY <1>1, <1>4, <2>1, <2>2, <2>3, CheckStep DEF histVars, cntVars
<1>7. CASE FetchFails(r)
  <2>1. baseline' \in [IDs -> (SUBSET Items) \cup {None}]
    BY <1>2, <1>4, <1>7 DEF FetchFails
  <2>2. errors' \in 0..MaxErrors
    BY <1>4, <1>7 DEF FetchFails
  <2>3. Wait(r) /\ UNCHANGED <<sharedVars, known, mixed, edits>>
    BY <1>7 DEF FetchFails, histVars
  <2>4. QED
    BY <1>1, <1>4, <2>1, <2>2, <2>3, WaitsOrEnds
<1>8. ASSUME NEW id \in IDs, Remembers(r, id), Wait(r), UNCHANGED sharedVars,
             known' \in [IDs -> SUBSET Items], mixed' \in SUBSET IDs,
             UNCHANGED cntVars
      PROVE  Inv'
  <2>1. run[r].page \subseteq Items
    BY <1>3 DEF Run
  <2>2. baseline' \in [IDs -> (SUBSET Items) \cup {None}]
    BY <1>4, <1>8, <2>1 DEF Remembers
  <2>3. QED
    BY <1>1, <1>4, <1>8, <2>2, WaitsOrEnds DEF cntVars
<1>9. \A id \in IDs, items \in SUBSET Items :
         Knows(id, items) => known' \in [IDs -> SUBSET Items]
  BY <1>4 DEF Knows
<1>10. \A id \in IDs : Mixes(r, id) => mixed' \in SUBSET IDs
  BY <1>4 DEF Mixes
<1>11. CASE FirstRun(r)
  <2>1. Knows(Cell(r).id, run[r].page) /\ run[r].page \subseteq Items
    BY <1>3, <1>11 DEF FirstRun, Run
  <2>2. known' \in [IDs -> SUBSET Items]
    BY <1>2, <1>9, <2>1
  <2>3. QED
    BY <1>2, <1>4, <1>8, <1>11, <2>2 DEF FirstRun
<1>12. CASE Same(r)
  BY <1>2, <1>4, <1>8, <1>10, <1>12 DEF Same
<1>13. CASE Diff(r)
  <2> DEFINE new == [run[r] EXCEPT !.phase = "publish", !.id = Cell(r).id,
                                   !.topic = client]
  <2>0. client \in 0..MaxGens
    BY <1>4 DEF Gens
  <2>1. /\ new \in Run /\ new.phase = "publish" /\ new.id \in IDs
        /\ new.from = run[r].from /\ new.base = run[r].base
    BY <1>2, <1>3, <2>0 DEF Run
  <2>2. run[r].from \in IDs /\ run[r].base # None
    BY <1>13 DEF Diff, Inv, Underway
  <2>3. run' = [run EXCEPT ![r] = new]
    BY <1>13, <1>3 DEF Diff, Inv, TypeOK, Run
  <2>4. UNCHANGED <<sharedVars, baseline, histVars, cntVars>>
    BY <1>13 DEF Diff
  <2> HIDE DEF new
  <2>5. QED
    BY <1>1, <1>4, <2>1, <2>2, <2>3, <2>4, CheckStep DEF histVars, cntVars
<1>14. CASE Publish(r)
  <2>1. run[r].id \in IDs
    BY <1>14 DEF Publish, Inv, Underway
  <2>2. run[r].page \ run[r].base \subseteq Items
    BY <1>3 DEF Run
  <2>3. known' \in [IDs -> SUBSET Items]
    BY <1>9, <1>14, <2>1, <2>2 DEF Publish
  <2>4. QED
    BY <1>8, <1>10, <1>14, <2>1, <2>3 DEF Publish
<1>15. QED
  BY <1>5, <1>6, <1>7, <1>11, <1>12, <1>13, <1>14 DEF Check

\* A runner keeps the state of its check; it may have been cancelled.
Kept(old, new) ==
    /\ new.phase = old.phase /\ new.url = old.url /\ new.page = old.page
    /\ new.id = old.id /\ new.from = old.from /\ new.base = old.base
    /\ new.topic = old.topic
    /\ new.live => old.live

\* The steps that move runners between configs.
LEMMA RunnersStep ==
    ASSUME Inv, UNCHANGED <<site, file, pending, cells, length, dgen, wgen, client, histVars, cntVars>>,
           baseline' \in [IDs -> (SUBSET Items) \cup {None}],
           summ' \in Gens, pc' \in {"idle", "replace", "launch", "web"},
           run' \in [Runners -> Run],
           \A r \in Runners :
              \/ run'[r] = NoCheck
              \/ run'[r] = Fresh /\ r[1] <= dgen /\ Cell(r) \in Source
              \/ Kept(run[r], run'[r])
    PROVE  Inv'
<1>1. \A r \in Runners :
         \/ run'[r].phase = "none" /\ ~run'[r].live
         \/ run'[r].phase = "wait" /\ r[1] <= dgen /\ Cell(r) \in Source
         \/ Kept(run[r], run'[r])
  BY RunnerTypes
<1>2. \A r \in Runners : Cell(r)' = Cell(r)
  BY DEF Cell
<1>3. \A r \in Runners : In(r, "none")' \/ Cell(r)' \in Source
  BY <1>1, <1>2 DEF Inv, TypeOK, In, Kept
<1>4. TypeOK'
  BY <1>3 DEF Inv, TypeOK, histVars, cntVars
<1>5. Underway'
  BY <1>1 DEF Inv, Underway, In, Kept
<1>6. QED
  BY <1>4, <1>5 DEF Inv

\* Cancelled runners end or keep the state of their check, and none lives on.
LEMMA CancelKeeps ==
    ASSUME Inv, Cancel({r \in Runners : run[r].live})
    PROVE  /\ run' \in [Runners -> Run]
           /\ \A r \in Runners :
                 /\ run'[r] = NoCheck \/ Kept(run[r], run'[r])
                 /\ ~run'[r].live
<1> DEFINE set == {r \in Runners : run[r].live}
           cancelled(r) == [run[r] EXCEPT !.live = @ /\ r \notin set]
<1>1. PICK late \in SUBSET {r \in set : In(r, "wait")} :
         run' = [r \in Runners |->
            IF r \in set /\ In(r, "wait") /\ r \notin late THEN NoCheck
            ELSE cancelled(r)]
  BY DEF Cancel
<1>2. ASSUME NEW r \in Runners
      PROVE  /\ cancelled(r) \in Run
             /\ Kept(run[r], cancelled(r))
             /\ ~cancelled(r).live
  <2>1. run[r] \in Run
    BY DEF Inv, TypeOK
  <2>2. (run[r].live /\ r \notin set) = FALSE
    OBVIOUS
  <2>3. cancelled(r) = [run[r] EXCEPT !.live = FALSE]
    BY <2>2
  <2> HIDE DEF set
  <2>4. QED
    BY <2>1, <2>3 DEF Run, Kept
<1> HIDE DEF set, cancelled
<1>3. QED
  BY <1>1, <1>2, RunnerTypes

LEMMA PrunedType == Inv => Pruned \in [IDs -> (SUBSET Items) \cup {None}]
BY DEF Inv, TypeOK, Pruned

LEMMA TypeNext == Inv /\ [Next]_vars => Inv'
<1> SUFFICES ASSUME Inv, [Next]_vars PROVE Inv'
  OBVIOUS
<1>1. ASSUME NEW u \in URLs, Grow(u) PROVE Inv'
  <2>1. site' \in [URLs -> Nat]
    BY <1>1 DEF Grow, Inv, TypeOK
  <2>2. UNCHANGED <<baseline, file, pending, cells, length, dgen, wgen, client,
                    summ, pc, run, known, mixed, edits, errors>>
    BY <1>1 DEF Grow, reloadVars, histVars, cntVars
  <2>3. TypeOK'
    BY <2>1, <2>2 DEF Inv, TypeOK, In, Cell
  <2>4. Underway'
    BY <2>2 DEF Inv, Underway, In
  <2>5. QED
    BY <2>3, <2>4 DEF Inv
<1>2. /\ wgen \in Gens /\ length[wgen] \in 0..Cardinality(IDs)
      /\ cells[wgen] \in [Slots -> Source \cup {Free}]
      /\ \A i \in 1..length[wgen] : i \in Slots /\ cells[wgen][i] \in Source
  BY SlotCount DEF Inv, TypeOK, Slots
<1>3. ASSUME NEW id \in IDs, Post(id) PROVE Inv'
  <2> DEFINE n == length[wgen] + 1
             source == [id |-> id, url |-> FirstURL(id)]
             array == [cells[wgen] EXCEPT ![n] = source]
  <2>1. source \in Source
    BY FirstURLs DEF Source
  <2>2. n \in 0..Cardinality(IDs) /\ n \in Slots
    BY <1>2, <1>3, SlotCount DEF Post, Slots
  <2>3. Store(array, n)
    BY <1>3 DEF Post
  <2> HIDE DEF source
  <2>4. array \in [Slots -> Source \cup {Free}]
    BY <1>2, <2>1
  <2>5. \A i \in Slots : cells[wgen][i] \in Source \/ i = n => array[i] \in Source
    BY <1>2, <2>1
  <2>6. \A i \in 1..n : i \in Slots /\ (i \in 1..length[wgen] \/ i = n)
    BY <1>2, <2>2, SlotCount DEF Slots
  <2>7. \A i \in 1..n : array[i] \in Source
    BY <1>2, <2>5, <2>6
  <2> HIDE DEF n, array
  <2>8. QED
    BY <2>2, <2>3, <2>4, <2>5, <2>7, StoreStep
<1>4. ASSUME NEW id \in IDs, NEW url \in URLs, Put(id, url) PROVE Inv'
  <2> DEFINE source == [id |-> id, url |-> url]
             array == [i \in Slots |-> IF i <= length[wgen] /\ cells[wgen][i].id = id
                                         THEN source ELSE cells[wgen][i]]
  <2>1. source \in Source
    BY DEF Source
  <2>2. Store(array, length[wgen])
    BY <1>4 DEF Put
  <2> HIDE DEF source
  <2>3. /\ array \in [Slots -> Source \cup {Free}]
        /\ \A i \in Slots : cells[wgen][i] \in Source => array[i] \in Source
    BY <1>2, <2>1
  <2> HIDE DEF array
  <2>4. QED
    BY <1>2, <2>2, <2>3, StoreStep
<1>5. ASSUME NEW id \in IDs, NEW url \in URLs, HandEdit(id, url) PROVE Inv'
  <2>1. PICK i \in DOMAIN file : file[i].id = id /\ file' = [file EXCEPT ![i].url = url]
    BY <1>5 DEF HandEdit
  <2>2. file' \in Seq(Source) /\ Len(file') = Len(file)
    <3>1. file[i] \in Source
      BY <2>1 DEF Inv, TypeOK
    <3>2. [file[i] EXCEPT !.url = url] \in Source
      BY <3>1 DEF Source
    <3>3. file' = [file EXCEPT ![i] = [file[i] EXCEPT !.url = url]]
      BY <2>1
    <3>4. QED
      BY <2>1, <3>2, <3>3 DEF Inv, TypeOK
  <2>3. /\ UNCHANGED <<site, baseline, cells, length, dgen, wgen, client, summ,
                       pc, run, known, mixed, errors>>
        /\ pending' = TRUE /\ edits' \in 0..MaxEdits
    BY <1>5 DEF HandEdit, reloadVars, histVars, Inv, TypeOK
  <2>4. TypeOK'
    BY <2>2, <2>3 DEF Inv, TypeOK, In, Cell
  <2>5. Underway'
    BY <2>3 DEF Inv, Underway, In
  <2>6. QED
    BY <2>4, <2>5 DEF Inv
<1>6. ASSUME NEW found \in Slots, Delete(found) PROVE Inv'
  <2> DEFINE n == length[wgen] - 1
             array == [i \in Slots |-> IF i \in found..n THEN cells[wgen][i + 1]
                                       ELSE cells[wgen][i]]
  <2>1. found \in Nat /\ 1 <= found /\ found <= length[wgen]
    BY <1>6, SlotCount DEF Delete, Slots
  <2>2. n \in 0..Cardinality(IDs) /\ 1..n \subseteq 1..length[wgen]
    BY <1>2, <2>1, SlotCount
  <2>3. Store(array, n)
    BY <1>6 DEF Delete
  <2>4. \A i \in found..n : i + 1 \in 1..length[wgen]
    BY <1>2, <2>1, SlotCount
  <2>5. /\ array \in [Slots -> Source \cup {Free}]
        /\ \A i \in Slots : cells[wgen][i] \in Source => array[i] \in Source
    BY <1>2, <2>4
  <2>6. \A i \in 1..n : array[i] \in Source
    BY <1>2, <2>2, <2>5
  <2> HIDE DEF n, array
  <2>7. QED
    BY <2>2, <2>3, <2>5, <2>6, StoreStep
<1>7. CASE ReloadSwaps
  <2>1. /\ dgen' = dgen + 1 /\ dgen' \in Gens /\ client' = dgen' /\ pc' = "replace"
        /\ cells' = [cells EXCEPT ![dgen'] = Array(file)]
        /\ length' = [length EXCEPT ![dgen'] = Len(file)]
        /\ pending' = FALSE
        /\ UNCHANGED <<site, baseline, file, wgen, summ, run, known, mixed, edits, errors>>
    BY <1>7 DEF ReloadSwaps, Goto, histVars, cntVars, Inv, TypeOK, Gens
  <2>2. /\ Array(file) \in [Slots -> Source \cup {Free}]
        /\ \A i \in 1..Len(file) : Array(file)[i] \in Source
    BY ArrayHolds DEF Inv, TypeOK
  <2>3. /\ cells' \in [Gens -> [Slots -> Source \cup {Free}]]
        /\ length' \in [Gens -> 0..Cardinality(IDs)]
        /\ \A g \in Gens : \A i \in 1..length'[g] : cells'[g][i] \in Source
    BY <2>1, <2>2 DEF Inv, TypeOK
  <2>4. \A r \in Runners : In(r, "none")' \/ Cell(r)' \in Source
    <3> SUFFICES ASSUME NEW r \in Runners, ~In(r, "none")'
                 PROVE  Cell(r)' \in Source
      OBVIOUS
    <3>1. ~In(r, "none") /\ Cell(r) \in Source
      BY <2>1 DEF In, Inv, TypeOK
    <3>2. r[1] <= dgen /\ r[1] \in Gens
      BY <3>1 DEF Inv, Underway, Runners
    <3>3. r[1] # dgen'
      BY <2>1, <3>2 DEF Gens, Inv, TypeOK
    <3>4. QED
      BY <2>1, <3>1, <3>2, <3>3 DEF Cell, Inv, TypeOK
  <2>5. TypeOK'
    BY <2>1, <2>3, <2>4 DEF Inv, TypeOK
  <2>6. Underway'
    BY <2>1 DEF Inv, Underway, In, TypeOK, Gens, Runners
  <2>7. QED
    BY <2>5, <2>6 DEF Inv
<1>8. CASE Replace
  <2>1. /\ UNCHANGED <<site, file, pending, cells, length, dgen, wgen, client, histVars, cntVars>>
        /\ baseline' = Pruned /\ summ' = dgen /\ pc' = "launch"
    BY <1>8 DEF Replace, Others, Goto, histVars, cntVars
  <2>2. /\ run' \in [Runners -> Run]
        /\ \A r \in Runners : run'[r] = NoCheck \/ Kept(run[r], run'[r])
    BY <1>8, CancelKeeps DEF Replace
  <2>3. dgen \in Gens
    BY DEF Inv, TypeOK
  <2>4. QED
    BY <2>1, <2>2, <2>3, PrunedType, RunnersStep
<1>9. CASE Launch
  <2>1. /\ UNCHANGED <<site, baseline, file, pending, cells, length, dgen, wgen, client, summ, histVars, cntVars>>
        /\ pc' = "web"
        /\ run' = [r \in Runners |-> IF r[1] = dgen /\ r[2] <= length[dgen]
                                       THEN Fresh ELSE run[r]]
    BY <1>9 DEF Launch, Goto, histVars, cntVars
  <2>2. run' \in [Runners -> Run]
    BY <2>1, RunnerTypes DEF Inv, TypeOK
  <2>3. \A r \in Runners : r[1] = dgen /\ r[2] <= length[dgen] =>
           r[1] <= dgen /\ Cell(r) \in Source
    BY SlotCount DEF Inv, TypeOK, Cell, Runners, Slots, Gens
  <2>4. /\ baseline' \in [IDs -> (SUBSET Items) \cup {None}]
        /\ summ' \in Gens
    BY <2>1 DEF Inv, TypeOK
  <2>5. QED
    BY <2>1, <2>2, <2>3, <2>4, RunnersStep DEF Kept
<1>10. CASE ServerReload
  <2>1. /\ UNCHANGED <<site, baseline, file, pending, cells, length, dgen, client,
                       summ, run, known, mixed, edits, errors>>
        /\ pc' = "idle" /\ wgen' = dgen
    BY <1>10 DEF ServerReload, Goto, histVars, cntVars
  <2>2. TypeOK'
    BY <2>1 DEF Inv, TypeOK, In, Cell
  <2>3. Underway'
    BY <2>1 DEF Inv, Underway, In
  <2>4. QED
    BY <2>2, <2>3 DEF Inv
<1>11. ASSUME NEW r \in Runners, Check(r) PROVE Inv'
  BY <1>11, CheckType
<1>12. CASE UNCHANGED vars
  <2>1. UNCHANGED <<site, baseline, file, pending, cells, length, dgen, wgen, client,
                    summ, pc, run, known, mixed, edits, errors>>
    BY <1>12 DEF vars, reloadVars, histVars, cntVars
  <2>2. TypeOK'
    BY <2>1 DEF Inv, TypeOK, In, Cell
  <2>3. Underway'
    BY <2>1 DEF Inv, Underway, In
  <2>4. QED
    BY <2>2, <2>3 DEF Inv
<1>13. QED
  BY <1>1, <1>3, <1>4, <1>5, <1>6, <1>7, <1>8, <1>9, <1>10, <1>11, <1>12
  DEF Next, Callback

\* Every variable keeps its type, and no runner loses its cell, wherever the
\* API moves the sources in the array.
THEOREM TypeCorrect == Spec => []TypeOK
<1>1. Inv => TypeOK
  BY DEF Inv
<1>2. QED
  BY <1>1, TypeInit, TypeNext, PTL DEF Spec

-----------------------------------------------------------------------------
\* A record of the runner of a slot changes; the others do not.
LEMMA RunAt ==
    ASSUME Inv, NEW r \in Runners, NEW new, run' = [run EXCEPT ![r] = new]
    PROVE  run'[r] = new /\ \A q \in Runners : q # r => run'[q] = run[q]
BY DEF Inv, TypeOK

LEMMA ConfigInit == Init => ConfigInv
<1> SUFFICES ASSUME Init PROVE ConfigInv
  OBVIOUS
<1>1. \A r \in Runners : run[r].live => r[1] = 1 /\ run[r].topic = 0
  BY RunnerTypes DEF Init
<1>2. client = 1 /\ dgen = 1 /\ summ = 1 /\ pc = "idle"
  BY DEF Init
<1>3. QED
  BY <1>1, <1>2, TypeInit DEF ConfigInv, Installed, LiveRunnersUseTheirConfig

LEMMA ConfigNext == ConfigInv /\ [Next]_vars => ConfigInv'
<1> SUFFICES ASSUME ConfigInv, [Next]_vars PROVE ConfigInv'
  OBVIOUS
<1>0. Inv /\ Inv'
  BY TypeNext DEF ConfigInv
<1> DEFINE Rest == Installed /\ LiveRunnersUseTheirConfig
<1> SUFFICES Rest'
  BY <1>0 DEF ConfigInv
<1> USE DEF ConfigInv, Installed, LiveRunnersUseTheirConfig
<1>1. CASE UNCHANGED <<dgen, client, summ, pc, run>>
  BY <1>1
<1>2. CASE ReloadSwaps
  BY <1>2, <1>0 DEF ReloadSwaps, Goto, Inv, TypeOK
<1>3. CASE Replace
  <2>1. /\ UNCHANGED <<dgen, client>> /\ summ' = dgen /\ pc' = "launch"
    BY <1>3 DEF Replace, Others, Goto
  <2>2. \A r \in Runners : ~run'[r].live
    BY <1>0, <1>3, CancelKeeps DEF Replace
  <2>3. QED
    BY <2>1, <2>2
<1>4. CASE Launch
  <2>1. /\ UNCHANGED <<dgen, client, summ>> /\ pc = "launch" /\ pc' = "web"
        /\ \A r \in Runners :
              run'[r] = IF r[1] = dgen /\ r[2] <= length[dgen] THEN Fresh ELSE run[r]
    BY <1>4 DEF Launch, Goto
  <2>2. \A r \in Runners : run'[r].live => r[1] = dgen /\ run'[r].topic = 0
    BY <2>1, RunnerTypes
  <2>3. QED
    BY <2>1, <2>2
<1>5. CASE ServerReload
  BY <1>5 DEF ServerReload, Goto
<1>6. ASSUME NEW r \in Runners, Check(r) PROVE Rest'
  <2>1. UNCHANGED <<dgen, client, summ, pc>>
    BY <1>6 DEF Check, Begin, Fetched, FetchFails, FirstRun, Same, Diff,
                Publish, sharedVars, reloadVars
  <2>2. run[r] \in Run
    BY <1>0 DEF Inv, TypeOK
  <2>3. CASE Wait(r)
    <3>1. /\ run'[r] = IF run[r].live THEN Fresh ELSE NoCheck
          /\ \A q \in Runners : q # r => run'[q] = run[q]
      BY <1>0, <2>3 DEF Wait, Inv, TypeOK
    <3>2. run'[r].live => run[r].live /\ run'[r].topic = 0
      BY <3>1, RunnerTypes
    <3>3. QED
      BY <2>1, <3>1, <3>2
  <2>4. CASE Begin(r) \/ Fetched(r) \/ Diff(r)
    <3>1. /\ run'[r].live = run[r].live
          /\ run'[r].topic \in {run[r].topic, client}
          /\ \A q \in Runners : q # r => run'[q] = run[q]
      <4>1. CASE Begin(r)
        BY <1>0, <2>2, <4>1 DEF Begin, Inv, TypeOK, Run
      <4>2. CASE Fetched(r)
        BY <1>0, <2>2, <4>2 DEF Fetched, Inv, TypeOK, Run
      <4>3. CASE Diff(r)
        BY <1>0, <2>2, <4>3 DEF Diff, Inv, TypeOK, Run
      <4>4. QED
        BY <2>4, <4>1, <4>2, <4>3
    <3>2. QED
      BY <2>1, <3>1
  <2>5. QED
    BY <1>6, <2>3, <2>4 DEF Check, FetchFails, FirstRun, Same, Publish
<1>7. ASSUME NEW array, NEW n, Store(array, n) PROVE Rest'
  BY <1>1, <1>7 DEF Store, reloadVars
<1>8. ASSUME NEW id, NEW url, HandEdit(id, url) PROVE Rest'
  BY <1>1, <1>8 DEF HandEdit, reloadVars
<1>9. ASSUME NEW u, Grow(u) PROVE Rest'
  BY <1>1, <1>9 DEF Grow, reloadVars
<1>10. CASE UNCHANGED vars
  BY <1>1, <1>10 DEF vars, reloadVars
<1>11. CASE \/ \E id \in IDs : Post(id) \/ \E url \in URLs : Put(id, url)
            \/ \E i \in Slots : Delete(i)
  BY <1>1, <1>11 DEF Post, Put, Delete, Store, reloadVars
<1>12. QED
  BY <1>2, <1>3, <1>4, <1>5, <1>6, <1>8, <1>9, <1>10, <1>11
  DEF Next, Callback

\* A live runner formats with the summarizer of its config and publishes to
\* its server and topic, except between the two halves of a reload.
THEOREM LiveConfig == Spec => []LiveRunnersUseTheirConfig
<1>1. ConfigInv => LiveRunnersUseTheirConfig
  BY DEF ConfigInv
<1>2. QED
  BY <1>1, ConfigInit, ConfigNext, PTL DEF Spec

-----------------------------------------------------------------------------
LEMMA SilentInit == Init => SilentInv
<1> SUFFICES ASSUME Init PROVE SilentInv
  OBVIOUS
<1>1. known = baseline /\ mixed = {}
  BY DEF Init
<1>2. NothingSilent
  BY <1>1 DEF NothingSilent, Told
<1>3. CopiesAccounted
  BY RunnerTypes DEF Init, CopiesAccounted, In
<1>4. QED
  BY <1>2, <1>3, TypeInit DEF SilentInv

\* What was accounted for stays so: knowledge and mixed IDs only grow.
LEMMA StaysAccounted ==
    ASSUME Inv, NEW items, NEW id \in IDs, Accounted(items, id),
           \A j \in IDs : known[j] \subseteq known'[j],
           mixed \subseteq mixed'
    PROVE  Accounted(items, id)'
<1>1. Told \subseteq Told'
  BY DEF Told
<1>2. QED
  BY <1>1 DEF Accounted

LEMMA SilentNext == SilentInv /\ [Next]_vars => SilentInv'
<1> SUFFICES ASSUME SilentInv, [Next]_vars PROVE SilentInv'
  OBVIOUS
<1>0. Inv /\ Inv'
  BY TypeNext DEF SilentInv
<1> DEFINE Rest == NothingSilent /\ CopiesAccounted
           Entry(id) == baseline[id] # None => Accounted(baseline[id], id)
           Copy(r) == (In(r, "diff") \/ In(r, "publish")) /\ run[r].base # None =>
                         Accounted(run[r].base, run[r].from)
<1> SUFFICES Rest'
  BY <1>0 DEF SilentInv
<1>1. /\ \A id \in IDs : Entry(id)
      /\ \A r \in Runners : Copy(r)
  BY DEF SilentInv, NothingSilent, CopiesAccounted, Accounted
<1>2. SUFFICES /\ \A id \in IDs : Entry(id)'
               /\ \A r \in Runners : Copy(r)'
  BY DEF NothingSilent, CopiesAccounted, Accounted
<1>3. CASE UNCHANGED <<baseline, run, known, mixed>>
  BY <1>1, <1>3 DEF Accounted, Told, In
<1>4. CASE Replace
  <2>1. /\ UNCHANGED <<known, mixed>> /\ Told' = Told
        /\ \A id \in IDs : baseline'[id] \in {baseline[id], None}
    BY <1>4 DEF Replace, Others, histVars, Pruned, Told
  <2>2. \A r \in Runners : run'[r] = NoCheck \/ Kept(run[r], run'[r])
    BY <1>0, <1>4, CancelKeeps DEF Replace
  <2>3. \A id \in IDs : Entry(id)'
    BY <1>1, <2>1 DEF Accounted
  <2>4. ASSUME NEW r \in Runners PROVE Copy(r)'
    BY <1>1, <2>1, <2>2, RunnerTypes DEF Kept, In, Accounted
  <2>5. QED
    BY <2>3, <2>4
<1>5. CASE Launch
  <2>1. /\ UNCHANGED <<baseline, known, mixed>> /\ Told' = Told
        /\ \A r \in Runners : run'[r] = Fresh \/ run'[r] = run[r]
    BY <1>5 DEF Launch, histVars, Told
  <2>2. \A id \in IDs : Entry(id)'
    BY <1>1, <2>1 DEF Accounted
  <2>3. ASSUME NEW r \in Runners PROVE Copy(r)'
    BY <1>1, <2>1, RunnerTypes DEF In, Accounted
  <2>4. QED
    BY <2>2, <2>3
<1>6. ASSUME NEW r \in Runners, Check(r)
      PROVE  (\A id \in IDs : Entry(id)') /\ (\A q \in Runners : Copy(q)')
  <2>0. ~In(r, "none") /\ run[r] \in Run
    BY <1>0, <1>6 DEF Check, Begin, Fetched, FetchFails, FirstRun, Same, Diff,
                      Publish, In, Inv, TypeOK
  <2>1. /\ Cell(r).id \in IDs
        /\ In(r, "publish") => run[r].id \in IDs
        /\ In(r, "diff") \/ In(r, "publish") => run[r].from \in IDs
    BY <1>0, <2>0, CellHolds DEF Inv, Underway
  <2>2. /\ baseline \in [IDs -> (SUBSET Items) \cup {None}]
        /\ known \in [IDs -> SUBSET Items]
    BY <1>0 DEF Inv, TypeOK
  <2>3. /\ \A id \in IDs : known[id] \subseteq known'[id]
        /\ mixed \subseteq mixed'
    BY <1>6, <2>2 DEF Check, Begin, Fetched, FetchFails, FirstRun, Same, Diff,
                      Publish, Knows, Mixes, histVars
  <2>4. ASSUME NEW id \in IDs, baseline'[id] = baseline[id] PROVE Entry(id)'
    BY <1>0, <1>1, <2>3, <2>4, StaysAccounted DEF Accounted, Told
  <2>5. ASSUME NEW q \in Runners, run'[q] = run[q] PROVE Copy(q)'
    BY <1>0, <1>1, <2>3, <2>5 DEF In, Accounted, Told, Inv, Underway
  <2>6. \A q \in Runners : q # r => run'[q] = run[q]
    BY <1>0, <1>6 DEF Check, Begin, Fetched, FetchFails, FirstRun, Same, Diff,
                      Publish, Wait, Inv, TypeOK
  <2>7. SUFFICES (\A id \in IDs : Entry(id)') /\ Copy(r)'
    BY <2>5, <2>6
  <2>8. ASSUME Wait(r) PROVE Copy(r)'
    <3>1. run'[r] = Fresh \/ run'[r] = NoCheck
      BY <1>0, <2>8 DEF Wait, Inv, TypeOK
    <3>2. QED
      BY <3>1, RunnerTypes DEF In
  <2>9. CASE Begin(r)
    <3>1. run'[r].phase = "fetch" /\ UNCHANGED baseline
      BY <1>0, <2>0, <2>9 DEF Begin, Inv, TypeOK, Run
    <3>2. QED
      BY <2>4, <3>1 DEF In
  <2>10. CASE Fetched(r)
    <3>1. /\ run'[r].base = baseline[Cell(r).id] /\ run'[r].from = Cell(r).id
          /\ UNCHANGED <<baseline, known, mixed>>
      BY <1>0, <2>0, <2>10 DEF Fetched, histVars, Inv, TypeOK, Run
    <3>2. Copy(r)'
      BY <1>1, <2>1, <3>1 DEF Accounted, Told
    <3>3. QED
      BY <2>4, <3>1, <3>2
  <2>11. CASE FetchFails(r)
    <3>1. /\ \A id \in IDs : baseline'[id] \in {baseline[id], {}}
          /\ Wait(r)
      BY <2>1, <2>2, <2>11 DEF FetchFails
    <3>2. \A id \in IDs : baseline'[id] = {} => Entry(id)'
      BY DEF Accounted
    <3>3. QED
      BY <2>4, <2>8, <3>1, <3>2
  <2>12. ASSUME NEW id \in IDs, Remembers(r, id),
                run[r].page # None =>
                   /\ run[r].page \subseteq Told'
                   /\ id \notin mixed' => run[r].page \subseteq known'[id]
         PROVE  \A j \in IDs : Entry(j)'
    <3>1. baseline'[id] = run[r].page /\ \A j \in IDs : j # id => baseline'[j] = baseline[j]
      BY <2>2, <2>12 DEF Remembers
    <3>2. Entry(id)'
      BY <2>12, <3>1 DEF Accounted, Told
    <3>3. QED
      BY <2>4, <3>1, <3>2
  <2>13. CASE FirstRun(r)
    <3>1. /\ known'[Cell(r).id] = known[Cell(r).id] \cup run[r].page
          /\ Remembers(r, Cell(r).id) /\ Wait(r)
      BY <2>1, <2>2, <2>13 DEF FirstRun, Knows
    <3>2. run[r].page \subseteq Told' /\ run[r].page \subseteq known'[Cell(r).id]
      BY <2>1, <3>1 DEF Told
    <3>3. QED
      BY <2>1, <2>8, <2>12, <3>1, <3>2
  <2>14. CASE Same(r)
    <3> DEFINE id == Cell(r).id
    <3>1. /\ run[r].page # None => Accounted(run[r].page, run[r].from)
          /\ known' = known /\ mixed' = IF run[r].from = id THEN mixed ELSE mixed \cup {id}
          /\ Remembers(r, id) /\ Wait(r)
      BY <1>1, <2>14 DEF Same, Mixes
    <3>2. run[r].page # None =>
             /\ run[r].page \subseteq Told'
             /\ id \notin mixed' => run[r].page \subseteq known'[id]
      BY <3>1 DEF Accounted, Told
    <3>3. QED
      BY <2>1, <2>8, <2>12, <3>1, <3>2
  <2>15. CASE Diff(r)
    <3>1. /\ run'[r].base = run[r].base /\ run'[r].from = run[r].from
          /\ UNCHANGED <<baseline, known, mixed>> /\ In(r, "diff")
      BY <1>0, <2>0, <2>15 DEF Diff, histVars, Inv, TypeOK, Run
    <3>2. Copy(r)'
      BY <1>1, <3>1 DEF Accounted, Told
    <3>3. QED
      BY <2>4, <3>1, <3>2
  <2>16. CASE Publish(r)
    <3> DEFINE id == run[r].id
    <3>1. /\ id \in IDs /\ run[r].base # None
          /\ Accounted(run[r].base, run[r].from)
      BY <1>0, <1>1, <2>16 DEF Publish, Inv, Underway
    <3>2. /\ known'[id] = known[id] \cup (run[r].page \ run[r].base)
          /\ mixed' = IF run[r].from = id THEN mixed ELSE mixed \cup {id}
          /\ Remembers(r, id) /\ Wait(r)
      BY <2>2, <2>16, <3>1 DEF Publish, Knows, Mixes
    <3>3. run[r].page \subseteq Told'
      <4>1. Told \subseteq Told'
        BY <2>3 DEF Told
      <4>2. known'[id] \subseteq Told'
        BY <3>1 DEF Told
      <4>3. QED
        BY <3>1, <3>2, <4>1, <4>2 DEF Accounted
    <3>4. id \notin mixed' => run[r].page \subseteq known'[id]
      BY <3>1, <3>2 DEF Accounted
    <3>5. QED
      BY <2>8, <2>12, <3>1, <3>2, <3>3, <3>4
  <2>17. QED
    BY <1>6, <2>9, <2>10, <2>11, <2>13, <2>14, <2>15, <2>16 DEF Check
<1>7. CASE \E u \in URLs : Grow(u)
  BY <1>3, <1>7 DEF Grow, histVars
<1>8. CASE \/ \E id \in IDs : \/ Post(id)
                              \/ \E url \in URLs : Put(id, url) \/ HandEdit(id, url)
           \/ \E i \in Slots : Delete(i)
  BY <1>3, <1>8 DEF Post, Put, Delete, Store, HandEdit, histVars
<1>9. CASE ReloadSwaps \/ ServerReload
  BY <1>3, <1>9 DEF ReloadSwaps, ServerReload, histVars
<1>10. CASE UNCHANGED vars
  BY <1>3, <1>10 DEF vars, histVars
<1>11. QED
  BY <1>4, <1>5, <1>6, <1>7, <1>8, <1>9, <1>10 DEF Next, Callback

\* Whatever runners overlap and wherever the API moves their sources: no item
\* gets into a baseline unannounced, but in a first run.
THEOREM NoSilence == Spec => []NothingSilent
<1>1. SilentInv => NothingSilent
  BY DEF SilentInv
<1>2. QED
  BY <1>1, SilentInit, SilentNext, PTL DEF Spec

=============================================================================
