------------------------------ MODULE Checker ------------------------------
(***************************************************************************)
(* The check pipeline of the checkdiff daemon under one fixed config: one  *)
(* goroutine per source that fetches the watched page, diffs it against    *)
(* the baseline in memory, publishes the difference to ntfy, remembers the *)
(* new baseline and writes the whole state file; the process may be        *)
(* stopped, killed and restarted at any point.                             *)
(*                                                                         *)
(* Code: check/check.go (One, oneTrending), daemon/daemon.go (runOnce,     *)
(* saveState, Stop), state/state.go (Remember, RememberTrending,           *)
(* RecordError, Snapshot, Save, Load) and main.go (runDaemon).             *)
(*                                                                         *)
(* Abstractions:                                                           *)
(*  - an item is its ID; titles, bodies and links are left out;            *)
(*  - of the Record only "LastError is not empty" is kept;                 *)
(*  - a scheduled tick and a "run now" both start a check at any time;     *)
(*  - the wall clock of the trending cache is left out: any remembered     *)
(*    repo may have outlived forget_after when a check runs;               *)
(*  - a config never changes while the process runs, so a source has one   *)
(*    runner (daemon reloads are the subject of another module);           *)
(*  - a crash is a process crash: what the kernel was given is kept.       *)
(***************************************************************************)
EXTENDS Integers, FiniteSets

CONSTANTS
    Sources,        \* IDs of the enabled sources
    Items,          \* item IDs a page can hold
    Type,           \* source type of each source
    IgnoreRemovals, \* the ignore_removals flag of each source
    NoEntry,        \* "the state has no entry for this source"
    NoSource,       \* "nobody holds the save mutex"
    MaxEdits,       \* bound: changes of the watched pages
    MaxFaults,      \* bound: failed fetches, publishes and saves
    MaxStops        \* bound: crashes and orderly stops of the process

\* json_value, amazon and github_file report exactly one item, the current
\* value; "single" stands for the three of them.
Types == {"html", "json", "nfvl", "single", "page_llm", "github_trending"}

\* One source's entry in state.json: Baseline.ItemsSeen, and whether
\* Record.LastError is set.
Entry == [seen : SUBSET Items, err : BOOLEAN]

ASSUME TypeAssumption == Type \in [Sources -> Types]
ASSUME FlagAssumption == IgnoreRemovals \in [Sources -> BOOLEAN]
ASSUME NoEntryAssumption == NoEntry \notin Entry
ASSUME NoSourceAssumption == NoSource \notin Sources
ASSUME BoundAssumption == MaxEdits \in Nat /\ MaxFaults \in Nat /\ MaxStops \in Nat

VARIABLES
    page,      \* page[s]: the items on the watched page (environment)
    phase,     \* "up", "stopping" (the signal was received) or "down"
    pc,        \* pc[s]: where the goroutine of s is in runOnce
    mem,       \* mem[s]: state.State.Sources[s] in memory
    disk,      \* disk[s]: the entry of s in state.json
    mutex,     \* holder of saveStateMu
    buf,       \* buf[s]: the snapshot of all entries a Save by s took
    items,     \* items[s]: what the running check of s fetched
    added,     \* added[s]: the additions the running check publishes
    gone       \* gone[s]: the removals it publishes (notifyRemoved)

\* History variables: read by the properties, never by an action's guard.
VARIABLES
    announced, \* announced[s]: items once in a first baseline, in a publish
               \* that was attempted, or in a change judged meaningless
    told,      \* told[s]: the page as the delivered notifications describe it
    gap,       \* gap[s]: a publish was not confirmed or a check was cut short,
               \* so told[s] need not describe the baseline any more
    unsaved,   \* unsaved[s]: the last Save made by s returned an error
    outcome,   \* outcome[s]: how the last check of s ended: "none" since the
               \* start, "ok", or with an error of "fetch" or of "publish"
    edits, faults, stops    \* how much of each bound is used

NoEntries == [s \in Sources |-> NoEntry]

runVars  == <<pc, items, added, gone>>
memVars  == <<mem, disk, mutex, buf>>
obsVars  == <<announced, told, gap, unsaved, outcome>>
cntVars  == <<edits, faults, stops>>
vars     == <<page, phase, runVars, memVars, obsVars, cntVars>>

-----------------------------------------------------------------------------
(* What a page of each type can hold when a fetch of it succeeds.  The     *)
(* html, nfvl and github_trending fetchers refuse an empty list.           *)

Pages(s) ==
    CASE Type[s] \in {"single", "page_llm"} -> {{i} : i \in Items}
      [] Type[s] = "json"                   -> SUBSET Items
      [] OTHER                              -> SUBSET Items \ {{}}

Trending(s) == Type[s] = "github_trending"

\* Slip: a missing entry counts as an entry with one nameless item.
SeenOrNameless(e) == IF e = NoEntry THEN {NoEntry} ELSE e.seen

\* The baseline in an entry; a missing entry has none.
Seen(e) == IF e = NoEntry THEN {} ELSE e.seen

\* Every check ends in Save; a generic check first runs the deferred Remember.
AfterPublish(s) == IF Trending(s) THEN "save" ELSE "remember"

\* RecordError: the baseline stays, a missing entry is created with an empty
\* one.
EntryAfterError(e) == [seen |-> Seen(e), err |-> TRUE]

\* Remember: the entry is replaced by the current items with no error.
EntryAfterCheck(current) == [seen |-> current, err |-> FALSE]

\* Slips: the additions of a mixed diff are forgotten; an unchanged rest makes
\* the diff quiet; every removal-only diff is quiet.
QuietOnRemovals(s, new, missing) ==
    \/ new = {} /\ missing = {}
    \/ IgnoreRemovals[s] /\ missing # {}
QuietOnGrowth(s, new, missing) == new = {} \/ missing = {}
QuietOnShrinking(s, new, missing) == new = {}

\* The diff of One that reaches no publish: nothing changed, or only
\* removals of a source that ignores them.
Quiet(s, new, missing) ==
    \/ new = {} /\ missing = {}
    \/ IgnoreRemovals[s] /\ new = {} /\ missing # {}

\* The removals handed to Format: list pages that ignore removals drop them.
NotifyRemoved(s, missing) ==
    IF IgnoreRemovals[s] /\ Type[s] \in {"html", "json"} THEN {} ELSE missing

-----------------------------------------------------------------------------
Init ==
    /\ page \in [Sources -> SUBSET Items]
    /\ \A s \in Sources : page[s] \in Pages(s)
    /\ phase = "up"
    /\ pc = [s \in Sources |-> "idle"]
    /\ mem = NoEntries
    /\ disk = mem
    /\ mutex = NoSource
    /\ buf = [s \in Sources |-> NoEntries]
    /\ items = [s \in Sources |-> {}]
    /\ added = items
    /\ gone = items
    /\ announced = items
    /\ told = items
    /\ gap = [s \in Sources |-> FALSE]
    /\ unsaved = gap
    /\ outcome = [s \in Sources |-> "none"]
    /\ edits = 0 /\ faults = 0 /\ stops = 0

-----------------------------------------------------------------------------
(* runOnce: Fetch.                                                         *)

Faulty == faults < MaxFaults /\ faults' = faults + 1

\* The fetch succeeds: the runner holds the items of the page.  A fetch under
\* the cancelled context of a stopping process fails.
FetchOK(s) ==
    /\ phase = "up"
    /\ pc[s] = "idle"
    /\ items' = [items EXCEPT ![s] = page[s]]
    /\ pc' = [pc EXCEPT ![s] = "check"]
    /\ UNCHANGED <<page, phase, added, gone, memVars, obsVars, cntVars>>

\* The fetch fails: RecordError, then saveState.
FetchFails(s) ==
    /\ phase \in {"up", "stopping"}
    /\ pc[s] = "idle"
    /\ IF phase = "up" THEN Faulty ELSE UNCHANGED faults
    /\ mem' = [mem EXCEPT ![s] = EntryAfterError(mem[s])]
    /\ outcome' = [outcome EXCEPT ![s] = "fetch"]
    /\ pc' = [pc EXCEPT ![s] = "save"]
    /\ UNCHANGED <<page, phase, items, added, gone, disk, mutex, buf,
                   announced, told, gap, unsaved, edits, stops>>

-----------------------------------------------------------------------------
(* check.One and oneTrending: Snapshot, diff, decide.                      *)

\* The check ends without a publish.
Silently(s) ==
    /\ outcome' = [outcome EXCEPT ![s] = "ok"]
    /\ UNCHANGED <<added, gone>>

\* History: nobody needs to be told of what the check fetched (a first
\* baseline, or a change the model judged meaningless).
NeedsNoTelling(s) == announced' = [announced EXCEPT ![s] = @ \cup items[s]]

\* The check goes on to publish the additions new and the removals missing.
Loudly(s, new, missing) ==
    /\ added' = [added EXCEPT ![s] = new]
    /\ gone' = [gone EXCEPT ![s] = missing]
    /\ pc' = [pc EXCEPT ![s] = "publish"]
    /\ UNCHANGED <<announced, told, outcome>>

\* No baseline yet: Remember (RememberTrending) the items, tell nobody.
FirstRun(s) ==
    /\ pc[s] = "check"
    /\ mem[s] = NoEntry
    /\ Silently(s)
    /\ NeedsNoTelling(s)
    /\ told' = [told EXCEPT ![s] = items[s]]
    /\ mem' = [mem EXCEPT ![s] = EntryAfterCheck(items[s])]
    /\ pc' = [pc EXCEPT ![s] = "save"]
    /\ UNCHANGED <<page, phase, items, disk, mutex, buf, gap, unsaved, cntVars>>

\* A generic source: compare with the baseline; the baseline itself moves in
\* the deferred Remember, after the publish.
Diff(s) ==
    /\ pc[s] = "check"
    /\ mem[s] # NoEntry
    /\ ~Trending(s)
    /\ LET new     == items[s] \ Seen(mem[s])
           missing == Seen(mem[s]) \ items[s]
       IN  \/ /\ Quiet(s, new, missing)
              /\ Silently(s)
              /\ pc' = [pc EXCEPT ![s] = "remember"]
              /\ UNCHANGED <<announced, told>>
           \/ /\ ~Quiet(s, new, missing)
              /\ Loudly(s, new, NotifyRemoved(s, missing))
           \/ /\ ~Quiet(s, new, missing)     \* Format returned nothing
              /\ Type[s] = "page_llm"
              /\ Silently(s)
              /\ NeedsNoTelling(s)
              /\ pc' = [pc EXCEPT ![s] = "remember"]
              /\ UNCHANGED told
    /\ UNCHANGED <<page, phase, items, memVars, gap, unsaved, cntVars>>

\* Slip: an empty cache is taken for a first run.
NewReposUnlessEmpty(s, kept) == IF kept = {} THEN {} ELSE items[s] \ kept

\* The repos RememberTrending returns.
NewRepos(s, kept) == items[s] \ kept

\* A trending source: RememberTrending moves the cumulative cache before the
\* publish.  forgotten holds the repos not seen for longer than forget_after:
\* they leave the cache or, when they are on the page, count as new.
DiffTrending(s) ==
    /\ pc[s] = "check"
    /\ mem[s] # NoEntry
    /\ Trending(s)
    /\ \E forgotten \in SUBSET Seen(mem[s]) :
          LET kept == Seen(mem[s]) \ forgotten
              new  == NewRepos(s, kept)
          IN  /\ mem' = [mem EXCEPT ![s] = EntryAfterCheck(kept \cup items[s])]
              /\ \/ /\ new = {}
                    /\ Silently(s)
                    /\ pc' = [pc EXCEPT ![s] = "save"]
                    /\ UNCHANGED <<announced, told>>
                 \/ /\ new # {}
                    /\ Loudly(s, new, {})
    /\ UNCHANGED <<page, phase, items, disk, mutex, buf, gap, unsaved, cntVars>>

-----------------------------------------------------------------------------
(* PublishTo.                                                              *)

\* The reader applies a delivered notification to what it knows.
Deliver(s) ==
    told' = [told EXCEPT ![s] = (@ \ gone[s]) \cup added[s]]

\* What every end of a publish does to the check.
Published(s, result) ==
    /\ pc[s] = "publish"
    /\ pc' = [pc EXCEPT ![s] = AfterPublish(s)]
    /\ announced' = [announced EXCEPT ![s] = @ \cup added[s]]
    /\ outcome' = [outcome EXCEPT ![s] = result]
    /\ added' = [added EXCEPT ![s] = {}]
    /\ gone' = [gone EXCEPT ![s] = {}]
    /\ UNCHANGED <<page, phase, items, memVars, unsaved, edits, stops>>

PublishOK(s) ==
    /\ phase = "up"
    /\ Published(s, "ok")
    /\ Deliver(s)
    /\ UNCHANGED <<gap, faults>>

\* PublishTo returns an error; the request may still have reached ntfy.  Under
\* the cancelled context it returns an error always.
PublishFails(s) ==
    /\ phase \in {"up", "stopping"}
    /\ IF phase = "up" THEN Faulty ELSE UNCHANGED faults
    /\ Published(s, "publish")
    /\ Deliver(s) \/ UNCHANGED told
    /\ gap' = [gap EXCEPT ![s] = TRUE]

\* Slip: the new items are added to the baseline instead of replacing it.
RememberMore(s) ==
    /\ pc[s] = "remember"
    /\ mem' = [mem EXCEPT ![s] = EntryAfterCheck(Seen(@) \cup items[s])]
    /\ pc' = [pc EXCEPT ![s] = "save"]
    /\ UNCHANGED <<page, phase, items, added, gone, disk, mutex, buf, obsVars, cntVars>>

\* The deferred Remember, after every outcome of a generic check.
Remember(s) ==
    /\ pc[s] = "remember"
    /\ mem' = [mem EXCEPT ![s] = EntryAfterCheck(items[s])]
    /\ pc' = [pc EXCEPT ![s] = "save"]
    /\ UNCHANGED <<page, phase, items, added, gone, disk, mutex, buf, obsVars, cntVars>>

-----------------------------------------------------------------------------
(* saveState: Save under saveStateMu.                                      *)

\* Slip: the entries are copied before the mutex is taken.
SaveSnapshotUnlocked(s) ==
    /\ pc[s] = "save"
    /\ mutex' = s
    /\ buf' = [buf EXCEPT ![s] = mem]
    /\ pc' = [pc EXCEPT ![s] = "write"]
    /\ UNCHANGED <<page, phase, items, added, gone, mem, disk, obsVars, cntVars>>

\* Lock the mutex, then copy all entries under the state lock.
SaveSnapshot(s) ==
    /\ pc[s] = "save"
    /\ mutex = NoSource
    /\ mutex' = s
    /\ buf' = [buf EXCEPT ![s] = mem]
    /\ pc' = [pc EXCEPT ![s] = "write"]
    /\ UNCHANGED <<page, phase, items, added, gone, mem, disk, obsVars, cntVars>>

\* Save returns: the mutex is released and the check is over.
SaveReturns(s) ==
    /\ pc[s] = "write"
    /\ mutex' = NoSource
    /\ pc' = [pc EXCEPT ![s] = "idle"]
    /\ items' = [items EXCEPT ![s] = {}]
    /\ buf' = [buf EXCEPT ![s] = NoEntries]
    /\ UNCHANGED <<page, phase, added, gone, mem, announced, told, gap,
                   outcome, edits, stops>>

\* The temporary file is written and renamed over state.json.
SaveOK(s) ==
    /\ SaveReturns(s)
    /\ disk' = buf[s]
    /\ unsaved' = [unsaved EXCEPT ![s] = FALSE]
    /\ UNCHANGED faults

\* A step of Save before the rename fails; saveState only logs it.
SaveFails(s) ==
    /\ SaveReturns(s)
    /\ Faulty
    /\ unsaved' = [unsaved EXCEPT ![s] = TRUE]
    /\ UNCHANGED disk

-----------------------------------------------------------------------------
(* The process: signal, Daemon.Stop, final Save, crash, restart.           *)

\* What is lost when the process ends with the memory not on disk, between a
\* publish and the Remember that follows it, or between RememberTrending and
\* the publish that follows it.
CutShort ==
    [s \in Sources |->
        \/ gap[s]
        \/ mem[s] # disk[s]
        \/ pc[s] = "remember"
        \/ pc[s] = "publish" /\ Trending(s)]

\* SIGTERM: the context of every runner is cancelled.
Signal ==
    /\ phase = "up"
    /\ stops < MaxStops
    /\ stops' = stops + 1
    /\ phase' = "stopping"
    /\ UNCHANGED <<page, runVars, memVars, obsVars, edits, faults>>

\* Slip: after a failed fetch the loop tries again before it looks at the
\* context.
ExitUnlessFailed(s) ==
    /\ phase = "stopping"
    /\ pc[s] = "idle" /\ outcome[s] # "fetch"
    /\ pc' = [pc EXCEPT ![s] = "exited"]
    /\ UNCHANGED <<page, phase, items, added, gone, memVars, obsVars, cntVars>>

\* runSource sees the cancelled context and returns.
Exit(s) ==
    /\ phase = "stopping"
    /\ pc[s] = "idle"
    /\ pc' = [pc EXCEPT ![s] = "exited"]
    /\ UNCHANGED <<page, phase, items, added, gone, memVars, obsVars, cntVars>>

\* Stop has waited for every runner; main saves once more and returns.
FinalSave ==
    /\ phase = "stopping"
    /\ \A s \in Sources : pc[s] = "exited"
    /\ phase' = "down"
    /\ \/ /\ disk' = mem
          /\ UNCHANGED <<gap, faults>>
       \/ /\ Faulty
          /\ gap' = CutShort
          /\ UNCHANGED disk
    /\ UNCHANGED <<page, runVars, mem, mutex, buf, announced, told, unsaved,
                   outcome, edits, stops>>

\* The process is killed or panics.
Crash ==
    /\ phase \in {"up", "stopping"}
    /\ stops < MaxStops
    /\ stops' = stops + 1
    /\ phase' = "down"
    /\ gap' = CutShort
    /\ pc' = [s \in Sources |-> "exited"]
    /\ items' = [s \in Sources |-> {}]
    /\ added' = [s \in Sources |-> {}]
    /\ gone' = [s \in Sources |-> {}]
    /\ mutex' = NoSource
    /\ buf' = [s \in Sources |-> NoEntries]
    /\ UNCHANGED <<page, mem, disk, announced, told, unsaved, outcome,
                   edits, faults>>

\* The supervisor starts the process again: state.Load, one runner a source.
Restart ==
    /\ phase = "down"
    /\ phase' = "up"
    /\ mem' = disk
    /\ pc' = [s \in Sources |-> "idle"]
    /\ unsaved' = [s \in Sources |-> FALSE]
    /\ outcome' = [s \in Sources |-> "none"]
    /\ UNCHANGED <<page, items, added, gone, disk, mutex, buf, announced, told, gap,
                   cntVars>>

\* Environment: a watched page changes.
PageChanges(s) ==
    /\ edits < MaxEdits
    /\ edits' = edits + 1
    /\ \E p \in Pages(s) \ {page[s]} : page' = [page EXCEPT ![s] = p]
    /\ UNCHANGED <<phase, runVars, memVars, obsVars, faults, stops>>

-----------------------------------------------------------------------------
\* Everything the goroutine of s does.
Runner(s) ==
    \/ FetchOK(s)     \/ FetchFails(s)
    \/ FirstRun(s)    \/ Diff(s)         \/ DiffTrending(s)
    \/ PublishOK(s)   \/ PublishFails(s) \/ Remember(s)
    \/ SaveSnapshot(s) \/ SaveOK(s)      \/ SaveFails(s)
    \/ Exit(s)

Process == Signal \/ FinalSave \/ Crash \/ Restart

Next ==
    \/ \E s \in Sources : Runner(s) \/ PageChanges(s)
    \/ Process

Spec == Init /\ [][Next]_vars

\* A runner keeps running (timer and network calls end: every client has a
\* timeout), a goroutine waiting for the mutex gets it in turn (a Go mutex
\* hands over to a waiter after one millisecond), a runner whose context is
\* cancelled leaves its loop (the next tick is at least 15 seconds away when
\* the select finds the context cancelled).  Faults are bounded, so they do
\* not stand for the good outcome for ever.
Fairness ==
    /\ \A s \in Sources :
          /\ WF_vars(Runner(s))
          /\ SF_vars(SaveSnapshot(s))
          /\ SF_vars(Exit(s))
    /\ WF_vars(FinalSave)

FairSpec == Spec /\ Fairness

-----------------------------------------------------------------------------
(* Properties.                                                             *)

TypeOK ==
    /\ page \in [Sources -> SUBSET Items]
    /\ phase \in {"up", "stopping", "down"}
    /\ pc \in [Sources -> {"idle", "check", "publish", "remember", "save",
                           "write", "exited"}]
    /\ mem \in [Sources -> Entry \cup {NoEntry}]
    /\ disk \in [Sources -> Entry \cup {NoEntry}]
    /\ mutex \in Sources \cup {NoSource}
    /\ buf \in [Sources -> [Sources -> Entry \cup {NoEntry}]]
    /\ items \in [Sources -> SUBSET Items]
    /\ added \in [Sources -> SUBSET Items]
    /\ gone \in [Sources -> SUBSET Items]
    /\ announced \in [Sources -> SUBSET Items]
    /\ told \in [Sources -> SUBSET Items]
    /\ gap \in [Sources -> BOOLEAN]
    /\ unsaved \in [Sources -> BOOLEAN]
    /\ outcome \in [Sources -> {"none", "ok", "fetch", "publish"}]
    /\ edits \in Nat /\ faults \in Nat /\ stops \in Nat

\* A source between two checks whose last save succeeded has its entry in
\* state.json, however the saves of the sources interleave: a restart finds
\* what the finished checks remembered (Save copies the entries under the
\* mutex it writes under).
CheckedIsDurable ==
    \A s \in Sources :
        pc[s] = "idle" /\ ~unsaved[s] => disk[s] = mem[s]

\* Nothing enters the baseline of a generic source, in memory or on disk,
\* that the user was not at least tried to be told of (or that was there at
\* the first run, or that the model judged meaningless): whenever the process
\* is killed, the next run finds the unannounced items new again.  Remember is
\* deferred past the publish for this.
NoSilentAddition ==
    \A s \in Sources :
        ~Trending(s) => Seen(mem[s]) \cup Seen(disk[s]) \subseteq announced[s]

\* Sources whose notifications carry removals as well as additions.
Exact(s) == ~Trending(s) /\ (IgnoreRemovals[s] => Type[s] = "single")

\* Reading the notifications of a source in order gives its baseline: all of
\* it when removals are reported, at least all additions when they are not,
\* as long as every publish was confirmed and no check was cut short.
ReaderInSync ==
    \A s \in Sources :
        pc[s] = "idle" /\ ~gap[s] /\ Type[s] # "page_llm" =>
            /\ Seen(mem[s]) \subseteq told[s]
            /\ Exact(s) => told[s] = Seen(mem[s])

\* An item that stays on the page of a running daemon is announced: no diff,
\* failed check, failed save or restart makes the pipeline skip it for good.
\* (A trending repo that was remembered but not yet published when the process
\* is killed may be skipped: RememberTrending runs first.)
AdditionsAreAttempted ==
    \A s \in Sources, i \in Items :
        ~Trending(s) /\ <>[](phase = "up") /\ <>[](i \in page[s])
            => <>(i \in announced[s])

\* Once the page rests, memory and state.json come to hold exactly the page,
\* although a save may have failed and a restart may have brought an older
\* baseline back.
BaselineFollowsPage ==
    \A s \in Sources :
        ~Trending(s) /\ <>[](phase = "up")
            => <>[](Seen(mem[s]) = page[s] /\ Seen(disk[s]) = page[s])

\* Daemon.Stop returns: no runner waits for ever for the save mutex or for a
\* call under the cancelled context.
StopCompletes == phase = "stopping" ~> phase = "down"

-----------------------------------------------------------------------------
(* Statements of comments and documents that the code does not keep.       *)

\* README.md:235: "First run for a source -> record baseline, no
\* notification."  The first check of a source that completes is silent.
FirstRunIsSilent ==
    [][\A s \in Sources :
         pc[s] = "check" /\ announced[s] = {} => pc'[s] # "publish"]_vars

=============================================================================
