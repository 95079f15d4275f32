------------------------------ MODULE Handover ------------------------------
(***************************************************************************)
(* A reload hands the sources over from the runners of one config to those *)
(* of the next while checks are under way, and the API changes the array   *)
(* of sources in place under the runners, which hold pointers into it.     *)
(*                                                                         *)
(* Code: daemon/daemon.go (Reload, Start, startOne, runSource, runOnce,    *)
(* installLLMSummarizer), check/check.go (One: when it reads which field   *)
(* of its source), webapi/webapi.go (the slice operations of POST, PUT and *)
(* DELETE), notify/notify.go (Update, Topic, PublishTo).                   *)
(*                                                                         *)
(* Abstractions:                                                           *)
(*  - reloads come one after the other (Supervisor has them overlap), the  *)
(*    config file always loads and is never written back from an older     *)
(*    memory (ConfigSync), writes do not fail, nothing crashes (Checker);  *)
(*  - every source is enabled and of a list type without ignore_removals;  *)
(*  - a page only grows; the page of every URL has its own items;          *)
(*  - the array of sources has room for all of them, so POST does not move *)
(*    it.                                                                  *)
(***************************************************************************)
EXTENDS Integers, Sequences, FiniteSets

CONSTANTS
    IDs,       \* source IDs
    URLs,      \* pairs of an ID and a number: the URLs a source may be given
    None,      \* no baseline
    Free,      \* an array cell that was never filled
    MaxItems,  \* bound: a page in the config grows while all of them have fewer items
    MaxGens,   \* bound: configs loaded, the one of the boot included
    MaxEdits,  \* bound: API requests
    MaxErrors  \* bound: failed fetches

Items == URLs \X Nat
Slots == 1..Cardinality(IDs)
Gens == 1..MaxGens
Runners == Gens \X Slots

ASSUME IDAssumption == IsFiniteSet(IDs)
ASSUME URLAssumption ==
    URLs \subseteq IDs \X Nat /\ \A id \in IDs : \E url \in URLs : url[1] = id
ASSUME BoundAssumption ==
    MaxItems \in Nat /\ MaxGens \in Nat \ {0} /\ MaxEdits \in Nat /\ MaxErrors \in Nat

VARIABLES
    site,     \* site[u]: number of items on the page of u
    baseline, \* baseline[id] in the state, or None
    file,     \* the sources in config.toml: a sequence of [id, url]
    pending,  \* the file was written since it was loaded
    cells,    \* cells[g]: the array behind the Sources of the g-th config
    length,   \* length[g]: length of that slice
    dgen,     \* the config of the daemon
    wgen,     \* the config of the web server
    client,   \* the config whose [ntfy] block the client has
    summ,     \* the config whose [llm] block the summarizer has
    pc,       \* what the watcher callback does next
    run,      \* run[r]: the runner of a slot of a config
    \* history
    known,    \* known[id]: items that were announced for id, or were there in a
              \* first run
    mixed,    \* IDs under which a check has ended that had read the baseline
              \* of another ID
    edits, errors

reloadVars == <<dgen, wgen, client, summ, pc>>
histVars == <<known, mixed>>
cntVars == <<edits, errors>>
vars == <<site, baseline, file, pending, cells, length, reloadVars, run, histVars, cntVars>>

Source == [id : IDs, url : URLs]
Page(u) == {<<u, n>> : n \in 1..site[u]}

\* A runner that does not run; url, page, id, base and topic are the local
\* variables of a check, from (history) is the ID base was read under.
NoCheck == [phase |-> "none", live |-> FALSE, url |-> None, page |-> {},
            id |-> None, from |-> None, base |-> None, topic |-> 0]
Fresh == [NoCheck EXCEPT !.phase = "wait", !.live = TRUE]

\* The array a loaded list of sources is put in.
Array(list) == [i \in Slots |-> IF i <= Len(list) THEN list[i] ELSE Free]
\* The sources of config g.
Configured(g) == {cells[g][i].id : i \in 1..length[g]}

\* The URL a source is created with.
FirstURL(id) == CHOOSE url \in URLs : url[1] = id

Init ==
    /\ LET order == CHOOSE list \in [Slots -> IDs] : \A i, j \in Slots : i # j => list[i] # list[j]
       IN  file = [i \in Slots |-> [id |-> order[i], url |-> FirstURL(order[i])]]
    /\ site = [u \in URLs |-> IF \E i \in Slots : file[i].url = u THEN 1 ELSE 0]
    /\ baseline = [id \in IDs |-> UNION {Page(file[i].url) : i \in {j \in Slots : file[j].id = id}}]
    /\ pending = FALSE
    /\ cells = [g \in Gens |-> IF g = 1 THEN Array(file) ELSE Array(<<>>)]
    /\ length = [g \in Gens |-> IF g = 1 THEN Len(file) ELSE 0]
    /\ dgen = 1 /\ wgen = 1 /\ client = 1 /\ summ = 1
    /\ pc = "idle"
    /\ run = [r \in Runners |-> IF r[1] = 1 THEN Fresh ELSE NoCheck]
    /\ known = baseline /\ mixed = {}
    /\ edits = 0 /\ errors = 0

\* Something is published on the page of u, which is in the config.
Grow(u) ==
    /\ \E i \in DOMAIN file : file[i].url = u
    /\ Cardinality(UNION {Page(file[i].url) : i \in DOMAIN file}) < MaxItems
    /\ site' = [site EXCEPT ![u] = @ + 1]
    /\ UNCHANGED <<baseline, file, pending, cells, length, reloadVars, run, histVars, cntVars>>

-----------------------------------------------------------------------------
(* The API: the slice of the web server's config changes in place.         *)

\* The first n cells of array hold the sources, and go to the file; bound: the
\* config in use is not the last one.
Store(array, n) ==
    /\ wgen < MaxGens
    /\ edits < MaxEdits /\ edits' = edits + 1
    /\ cells' = [cells EXCEPT ![wgen] = array]
    /\ length' = [length EXCEPT ![wgen] = n]
    /\ file' = SubSeq(array, 1, n)
    /\ pending' = TRUE
    /\ UNCHANGED <<site, baseline, reloadVars, run, histVars, errors>>

\* w.cfg.Sources = append(w.cfg.Sources, src): the cell behind the last one;
\* bound: the array has such a cell.
Post(id) ==
    /\ id \notin Configured(wgen)
    /\ length[wgen] < Cardinality(IDs)
    /\ LET n == length[wgen] + 1
       IN  Store([cells[wgen] EXCEPT ![n] = [id |-> id, url |-> FirstURL(id)]], n)

\* w.cfg.Sources[i] = src
Put(id, url) ==
    /\ \E i \in 1..length[wgen] : cells[wgen][i].id = id /\ cells[wgen][i].url # url
    /\ url[1] = id
    /\ Store([i \in Slots |-> IF i <= length[wgen] /\ cells[wgen][i].id = id
                                THEN [id |-> id, url |-> url] ELSE cells[wgen][i]],
             length[wgen])

\* append(Sources[:found], Sources[found+1:]...): the later sources move up by
\* one cell, the last cell keeps its source.
Delete(found) ==
    /\ found <= length[wgen]
    /\ Store([i \in Slots |-> IF i \in found..(length[wgen] - 1)
                                THEN cells[wgen][i + 1] ELSE cells[wgen][i]],
             length[wgen] - 1)

\* The URL of a source is edited in the file by hand.
HandEdit(id, url) ==
    /\ wgen < MaxGens
    /\ edits < MaxEdits /\ edits' = edits + 1
    /\ url[1] = id
    /\ \E i \in DOMAIN file :
          /\ file[i].id = id /\ file[i].url # url
          /\ file' = [file EXCEPT ![i].url = url]
    /\ pending' = TRUE
    /\ UNCHANGED <<site, baseline, cells, length, reloadVars, run, histVars, errors>>

-----------------------------------------------------------------------------
(* The watcher callback: d.Reload, then ws.Reload.                         *)

Goto(from, to) == pc = from /\ pc' = to

\* config.Load makes a new array; d.Reload stores the config and updates the
\* ntfy client.
ReloadSwaps ==
    /\ Goto("idle", "replace")
    /\ pending /\ pending' = FALSE
    /\ dgen < MaxGens /\ dgen' = dgen + 1
    /\ cells' = [cells EXCEPT ![dgen'] = Array(file)]
    /\ length' = [length EXCEPT ![dgen'] = Len(file)]
    /\ client' = dgen'
    /\ UNCHANGED <<site, baseline, file, wgen, summ, run, histVars, cntVars>>

\* What the pointer of the runner points to now.
Cell(r) == cells[r[1]][r[2]]

In(r, phase) == run[r].phase = phase

Others == UNCHANGED <<site, file, pending, cells, length, dgen, wgen, client, histVars, cntVars>>

Pruned == [id \in IDs |-> IF id \in Configured(dgen) THEN baseline[id] ELSE None]

\* The runners in set are cancelled.  One that waits ends, unless it has yet to
\* make its first check or its timer has fired already.
Cancel(set) ==
    \E late \in SUBSET {r \in set : In(r, "wait")} :
        run' = [r \in Runners |->
            IF r \in set /\ In(r, "wait") /\ r \notin late THEN NoCheck
            ELSE [run[r] EXCEPT !.live = @ /\ r \notin set]]

\* Slip: only a boot installs the summarizer.
ReplaceNoSummarizer ==
    /\ Goto("replace", "launch")
    /\ baseline' = Pruned
    /\ Cancel({r \in Runners : run[r].live})
    /\ Others /\ UNCHANGED summ

\* Prune; Start cancels all runners of the map and waits for none, and replaces
\* the summarizer of the process.  No check can tell these apart.
Replace ==
    /\ Goto("replace", "launch")
    /\ baseline' = Pruned
    /\ Cancel({r \in Runners : run[r].live})
    /\ summ' = dgen
    /\ Others

\* Slip: a runner for every cell of the array.
LaunchCells ==
    /\ Goto("launch", "web")
    /\ run' = [r \in Runners |-> IF r[1] = dgen THEN Fresh ELSE run[r]]
    /\ UNCHANGED <<site, baseline, file, pending, cells, length, dgen, wgen,
                   client, summ, histVars, cntVars>>

\* startOne for every source, with a pointer to its cell.
Launch ==
    /\ Goto("launch", "web")
    /\ run' = [r \in Runners |-> IF r[1] = dgen /\ r[2] <= length[dgen] THEN Fresh ELSE run[r]]
    /\ UNCHANGED <<site, baseline, file, pending, cells, length, dgen, wgen,
                   client, summ, histVars, cntVars>>

ServerReload ==
    /\ Goto("web", "idle")
    /\ wgen' = dgen
    /\ UNCHANGED <<site, baseline, file, pending, cells, length, dgen, client,
                   summ, run, histVars, cntVars>>

-----------------------------------------------------------------------------
(* The check of runner r.                                                  *)

sharedVars == <<site, file, pending, cells, length, reloadVars>>

\* The check is over; the loop of a cancelled runner ends.
Wait(r) == run' = [run EXCEPT ![r] = IF run[r].live THEN Fresh ELSE NoCheck]

\* runOnce: source.Fetch reads the URL. A runner that was cancelled still gets
\* here with its first check, and with a timer that has fired already.
Begin(r) ==
    /\ In(r, "wait")
    /\ run' = [run EXCEPT ![r].phase = "fetch", ![r].url = Cell(r).url]
    /\ UNCHANGED <<sharedVars, baseline, histVars, cntVars>>

\* The fetch is over; One starts with ss := st.Snapshot(s.ID).
Fetched(r) ==
    /\ In(r, "fetch")
    /\ run' = [run EXCEPT ![r].phase = "diff", ![r].page = Page(run[r].url), ![r].url = None,
                          ![r].from = Cell(r).id, ![r].base = baseline[Cell(r).id]]
    /\ UNCHANGED <<sharedVars, baseline, histVars, cntVars>>

\* RecordError(s.ID): an entry without items, if there is none.
FetchFails(r) ==
    /\ In(r, "fetch")
    /\ run[r].live => errors < MaxErrors
    /\ errors' = IF run[r].live THEN errors + 1 ELSE errors
    /\ LET id == Cell(r).id
       IN  baseline' = [baseline EXCEPT ![id] = IF @ = None THEN {} ELSE @]
    /\ Wait(r)
    /\ UNCHANGED <<sharedVars, histVars, edits>>

Remembers(r, id) == baseline' = [baseline EXCEPT ![id] = run[r].page]
Knows(id, items) == known' = [known EXCEPT ![id] = @ \cup items]
Mixes(r, id) == mixed' = IF run[r].from = id THEN mixed ELSE mixed \cup {id}

\* First run: Remember(s.ID, items), nothing is announced.
FirstRun(r) ==
    /\ In(r, "diff") /\ run[r].base = None
    /\ Remembers(r, Cell(r).id)
    /\ Knows(Cell(r).id, run[r].page)
    /\ Wait(r)
    /\ UNCHANGED <<sharedVars, mixed, cntVars>>

Same(r) ==
    /\ In(r, "diff") /\ run[r].base = run[r].page
    /\ Remembers(r, Cell(r).id)
    /\ Mixes(r, Cell(r).id)
    /\ Wait(r)
    /\ UNCHANGED <<sharedVars, known, cntVars>>

\* There is a diff. defer st.Remember(s.ID, ...) takes the ID now; Format runs
\* with the summarizer, and the topic of the client is read.
Diff(r) ==
    /\ In(r, "diff") /\ run[r].base \notin {None, run[r].page}
    /\ run' = [run EXCEPT ![r].phase = "publish", ![r].id = Cell(r).id, ![r].topic = client]
    /\ UNCHANGED <<sharedVars, baseline, histVars, cntVars>>

\* Slip: only what is new relative to the state of now is announced.
PublishRereads(r) ==
    /\ In(r, "publish")
    /\ Knows(run[r].id, IF baseline[run[r].id] = None THEN {} ELSE run[r].page \ baseline[run[r].id])
    /\ Remembers(r, run[r].id)
    /\ Mixes(r, run[r].id)
    /\ Wait(r)
    /\ UNCHANGED <<sharedVars, cntVars>>

\* Slip: the new items are added to the baseline, the others stay.
PublishAdds(r) ==
    /\ In(r, "publish")
    /\ Knows(run[r].id, run[r].page \ run[r].base)
    /\ baseline' = [baseline EXCEPT ![run[r].id] = run[r].base \cup run[r].page]
    /\ Mixes(r, run[r].id)
    /\ Wait(r)
    /\ UNCHANGED <<sharedVars, cntVars>>

\* PublishTo sends what is new to the server of the client, and whether that
\* works or not the deferred Remember follows.
Publish(r) ==
    /\ In(r, "publish")
    /\ Knows(run[r].id, run[r].page \ run[r].base)
    /\ Remembers(r, run[r].id)
    /\ Mixes(r, run[r].id)
    /\ Wait(r)
    /\ UNCHANGED <<sharedVars, cntVars>>

Check(r) ==
    \/ Begin(r) \/ Fetched(r) \/ FetchFails(r) \/ FirstRun(r) \/ Same(r) \/ Diff(r) \/ Publish(r)

Callback == ReloadSwaps \/ Replace \/ Launch \/ ServerReload

Next ==
    \/ \E u \in URLs : Grow(u)
    \/ \E id \in IDs : Post(id) \/ \E url \in URLs : Put(id, url) \/ HandEdit(id, url)
    \/ \E i \in Slots : Delete(i)
    \/ Callback
    \/ \E r \in Runners : Check(r)

\* The goroutines of the callback and of the runners take their steps.
Fairness == WF_vars(Callback) /\ \A r \in Runners : WF_vars(Check(r))

Spec == Init /\ [][Next]_vars /\ Fairness

-----------------------------------------------------------------------------
\* A runner, whatever its phase.
Run == [phase : {"none", "wait", "fetch", "diff", "publish"}, live : BOOLEAN,
        url : URLs \cup {None}, page : SUBSET Items, id : IDs \cup {None},
        from : IDs \cup {None}, base : (SUBSET Items) \cup {None},
        topic : 0..MaxGens]

\* The variables hold what the code can hold; the sources of every config are
\* in the front cells of its array, and no runner has lost its cell.
TypeOK ==
    /\ site \in [URLs -> Nat]
    /\ baseline \in [IDs -> (SUBSET Items) \cup {None}]
    /\ file \in Seq(Source) /\ Len(file) \in 0..Cardinality(IDs)
    /\ pending \in BOOLEAN
    /\ cells \in [Gens -> [Slots -> Source \cup {Free}]]
    /\ length \in [Gens -> 0..Cardinality(IDs)]
    /\ \A g \in Gens : \A i \in 1..length[g] : cells[g][i] \in Source
    /\ {dgen, wgen, client, summ} \subseteq Gens
    /\ pc \in {"idle", "replace", "launch", "web"}
    /\ run \in [Runners -> Run]
    /\ \A r \in Runners : In(r, "none") \/ Cell(r) \in Source
    /\ known \in [IDs -> SUBSET Items] /\ mixed \in SUBSET IDs
    /\ edits \in 0..MaxEdits /\ errors \in 0..MaxErrors

Told == UNION {known[id] : id \in IDs}

\* Whatever runners overlap in the checks of a source, and under whichever ID a
\* check ends: no item gets into a baseline unannounced, unless it was there in
\* a first run.  It was announced for that very source, unless a check has
\* ended under the ID of the source with the baseline of another.
NothingSilent ==
    \A id \in IDs : baseline[id] # None =>
        /\ baseline[id] \subseteq Told
        /\ id \notin mixed => baseline[id] \subseteq known[id]

\* A runner that was not cancelled formats with the summarizer of its config,
\* and publishes to one server and topic, those of its config, except while a
\* reload has updated the client and not yet cancelled the runners.
LiveRunnersUseTheirConfig ==
    \A r \in Runners : run[r].live =>
        /\ r[1] = summ
        /\ pc = "replace" \/ (client = r[1] /\ run[r].topic \in {0, r[1]})

\* A baseline that a check of an older runner or of a moved source left behind
\* does not last: once the edits are over, every source's baseline becomes its
\* own page and stays so.
BaselinesHeal ==
    <>[](pending \/ \A i \in DOMAIN file : baseline[file[i].id] = Page(file[i].url))

=============================================================================
