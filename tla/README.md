# checkdiff in TLA+

A verification project for `sirenkovladd/checkdiff`: a Go daemon that fetches
watched pages on a schedule, compares each page with a remembered baseline and
publishes the difference to an ntfy topic.  The modules are translated from the
Go sources under `src/`; TLC checks them on small instances and TLAPS proves the
properties named under *What is proved* for all values of the constants.

    tlc -config Checker_saves.cfg MCChecker.tla        # any run of PROJECT.json
    tlapm CheckerProofs.tla                            # any *Proofs.tla

## Inventory of the system

| Component | State it keeps | Operations | Must hold |
|---|---|---|---|
| Check pipeline, `check/check.go` | none of its own: the items of the check in progress | `One`, `oneTrending`: first run, diff, ignored removals, suppression, publish, deferred `Remember` | nothing is remembered before it was announced; the notifications add up to the baseline; ignored removals never hide additions |
| State store, `state/*.go` | `State.Sources`: per source a `Baseline` (`ItemsSeen`, `SeenAt`) and a `Record`; `state.json` | `Load`, `Save` (under `saveStateMu`), `Snapshot`, `Remember`, `RememberTrending`, `RecordError`, `Prune` | a finished check is durable; the trending cache neither repeats nor forgets early nor grows for ever; old files load |
| Daemon, `daemon/daemon.go` | `d.cfg`, `d.runners`, one goroutine per enabled source | `Start`, `Reload`, `startOne`, `runSource`, `runOnce`, `TriggerNow`, `Stop` | exactly the enabled sources of the config in force are watched, once each; cancelled runners end; `Stop` ends; a run-now is served |
| Process, `main.go` | the root context | flags, signal, watcher callback, shutdown, final save | the last edit takes effect; a stop loses nothing |
| Config watcher, `config/watcher.go` | debounce timer | `Start` | each burst of events leads to a callback |
| Config, `config/{config,load,write,firstrun}.go` | `config.toml` | `Load`, `Validate`, atomic write, first run | what is written can be loaded |
| Web API, `webapi/webapi.go` | its own pointer to the config, listener, token | CRUD of sources, settings, rotate, run, Start/Stop of the listener | an acknowledged edit is on disk and in force; one listener, at the configured address |
| Notifications, `notify/notify.go` | topic and server under a mutex | `PublishTo`, `Update` | one request, no retry; a success means delivered |
| Source types, `source/*.go` | none | `Fetch`, `Format`, `Validate` per type | a failed parse is an error, never an empty page; each change is told once, however the page spells it |
| Schedule, `schedule/schedule.go` | none | `Parse`, `Next` | the next check is in the future |
| LLM, `llm/llm.go` | none (the process has one summarizer) | `Summarize` per provider: one HTTP call | a model that fails or babbles hides no change |
| UI, `webui/web/app.js` | the token in `localStorage` | sign-in, poll, rotation, settings, editing of sources | the browser does not keep an outdated token |
| Templates, `template/template.go` | none | date substitution in URLs | |

**Interaction.** `main` loads config and state, starts the daemon, then the web
server, then the watcher.  Every enabled source has a goroutine (`runSource`)
that checks at once, then on a timer, a "run now" or the end of its context.  All
goroutines share one `*State` behind a `RWMutex`; each check ends in a `Save`
under a process-wide mutex.  The watcher and the web API both end in
`Daemon.Reload`, which swaps the config, prunes the state, cancels all runners
and starts new ones without waiting for the old.  `TriggerNow` sends on a channel
of capacity one.  A signal cancels the root context; `Stop` waits for the runners
in the map; `main` saves once more.

**What is hard here.**
Saves of concurrent checks to one file; the order diff, publish, remember, save
and a crash between any two of them; failures of each of fetch, publish and save;
reloads that overlap (every debounced event gets a goroutine) and overlap with
checks in flight; `d.cfg` read without the lock; a stop in the middle of a
reload; one config object shared by daemon and web server and changed in place
under the pointers of the runners; `config.toml` with three writers (API, editor,
first run) and copies of it in memory and in reloads under way; a token that
changes while answers are on their way to the browser; pages that are answered
with a challenge; the TTL of the trending cache at its boundary and across an upgrade.
`PROJECT.json` lists each at its line under `hazards`, with the properties that
would catch it, or the reason why none does yet.

## Modules

| Module | What it models |
|---|---|
| `Checker` | one process, any number of sources: fetch, diff, publish, remember, save as separate steps of each runner; signal, final save, crash, restart; faults in fetch, publish and save |
| `MCChecker` | instances of `Checker`: which source types and flags |
| `CheckerProofs` | theorems about `Checker` |
| `Supervisor` | goroutines, the runner map, config file, watcher, `Reload`/`Start` in their critical sections, `TriggerNow`, `Stop` |
| `MCSupervisor` | the configs the file may hold |
| `SupervisorProofs` | theorems about `Supervisor` |
| `SeenHistory` | abstract specification: what a trending source promises, with a history that forgets nothing |
| `Trending` | `RememberTrending` and the cache on its way through `state.json`; implements `SeenHistory` |
| `TrendingProofs` | theorems about `Trending`, among them the refinement |
| `ConfigRegister` | abstract specification: `config.toml` as a register with one value per part |
| `ConfigSync` | the file, the configs of web server and daemon, API requests, hand edits, overlapping callbacks, boot, first run, crash; implements `ConfigRegister` |
| `ConfigSyncProofs` | theorems about `ConfigSync`, among them the refinement |
| `WebSession`, `MCWebSession` | the listener and the token of the web server, the shutdown, and the browser that is signed in |
| `WebSessionProofs` | theorems about `WebSession` |
| `Handover`, `MCHandover` | composition of checks, reloads and API edits: old and new runners of a source at once, with pointers into an array that moves |
| `HandoverProofs` | theorems about `Handover` |
| `Pages` | pure operators: what each fetcher makes of an answer |
| `Notices` | pure operators: what each `Format` makes of a difference, and what `page_llm` makes of a model's reply |
| `PageWatch`, `MCPageWatch` | one source of any type, its site, its outages, its checks: `Pages` and `Notices` in the steps of `runOnce` |
| `PagesProofs` | lemmas about `Pages` and `Notices`, for every page and every difference |
| `PageWatchProofs` | theorems about `PageWatch`: each type reads its site, and the four invariants |

### Checker and the code

| TLA+ | Go |
|---|---|
| `pc[s]` | how far the goroutine of `s` is in `runOnce`: `idle` (in the select of `runSource`), `check` (fetched), `publish`, `remember` (the deferred `Remember`), `save`, `write` (inside `Save`, mutex held), `exited` |
| `items`, `added`, `gone` | the locals `items`, `added` and `notifyRemoved` of the check |
| `mem`, `disk` | `State.Sources` and `state.json`; an entry is the set `ItemsSeen` and whether `LastError` is set, `NoEntry` a missing map key |
| `mutex`, `buf` | `saveStateMu` and the copy made in `Save` |
| `FetchOK`, `FetchFails` | the two ends of `Fetch` in `runOnce`, the second with its `RecordError` |
| `FirstRun`, `Diff`, `DiffTrending` | the branches of `One` and `oneTrending` up to the publish |
| `PublishOK`, `PublishFails` | `PublishTo`; a failed publish may still have arrived (a timeout after the request) |
| `Remember`, `SaveSnapshot`, `SaveOK`, `SaveFails` | the deferred call and the two halves of `Save` |
| `Signal`, `Exit`, `FinalSave`, `Crash`, `Restart` | SIGTERM, the return of `runSource`, the save at the end of `runDaemon`, a kill, the unit's `Restart=always` |

Items are opaque IDs.  A source type is kept as far as the pipeline tells types
apart: what a successful fetch can return (single values return one item; html,
nfvl and trending refuse an empty list; a JSON list may be empty), which types
drop ignored removals from a mixed diff, which may suppress a notification
(`page_llm`), and `github_trending` with its own path.  In `Checker` any cached
trending repo may have expired; the time that decides it is the subject of
`Trending`.  `announced`, `told`, `gap`, `unsaved` and `outcome` are history variables:
no guard reads them.

### Supervisor and the code

`d.mu` is released between the parts of `Reload` and `Start`, so each critical
section is an action, and so is each read of `d.cfg` outside of the lock
(`RangeConfig` reads the length of the list, `PickSource` indexes it again).  A
thread is `main` (the first `Start`) or a watcher callback; `tpc` is its place in
`Reload`.  `runner[r]` is one goroutine with its context (`live`), its place
(`new`, `checking`, `waiting`, `done`) and its trigger channel (`now`, capacity
one).  A check is an interval; cancelling does not interrupt it.  `Stop` ranges
over the map without the lock while a callback may write it: `MapWrite` lets the
Go runtime abort the process there.  A slot in `1..MaxRunners` is reused once its
goroutine has returned and neither the map nor a request holds it.
`last`, `overtaken` and `strays` are history variables: who loaded the file last, whether an
older callback has swapped after that one, and the sources that a loop has started although
the config exchanged under it does not enable them.

### Trending and the code

`cache.items` and `cache.times` are `ItemsSeen` and `SeenAt`, `cache.dated` says
that `SeenAt` is not nil.  `CacheAfter`, `Added` and `Pruned` are the two loops of
`RememberTrending`; `Stored` is the `omitempty` of the file.  A check may end
with a failed save; saves by other sources happen at any time; a restart falls
back to what was saved last.

### ConfigSync and the code

A config is a function from *parts* (a source ID, or the settings) to values,
among them one that `config.Load` refuses.  `wcfg` and `dcfg` are `Server.cfg`
and `Daemon.cfg`, `shared` says that both are one object, as after a boot and
between reloads: then a request changes what the daemon holds, too (`InMemory`).  A request is
one step, since the handlers hold `w.mu` until the file is written; `RollBack` is what
the handlers of sources do when the write fails, `ChangeSettings` what that of
the settings leaves behind.  A watcher callback is `Fire`, `LoadConfig`,
`DaemonReload`, `ServerReload`, and callbacks overlap.  `GenerateBegins` and
`GenerateEnds` are the two halves of `os.WriteFile` in `EnsureForDaemon`.
`answer` is the HTTP answer of the last step; `dirty`, `missed` and `overtaken`
are history variables.

`ConfigRegister` says what writers may rely on, without memory, reloads or crashes: a granted
request sets its own part; other parts keep their value or fall back to one somebody
may still hold (`recent`); a refused request leaves no trace, except that refused settings may
surface later.  `ConfigSync` implements it with `reg <- file` and, for `recent`, the values in
the file, in the web server's memory and in the configs on their way (`Recent`).

### WebSession and the code

`token`, `listen`, `srv` and `cfg` are the fields of `Server`; `server[s]` is
one `*http.Server` (`new` until its goroutine has called `ListenAndServe`, then `serving`, or
failed: `clashed` with another server of the process, `refused` for any other reason, a malformed
address or one that a foreign process holds).  A thread is `main`, at the start and in the shutdown,
or a watcher callback, of which several run at a time (`time.AfterFunc`).  `Reload`, `Stop` and `bind`
release `w.mu` between their parts, so each part is an action of a thread: `Load`, `ReloadSwaps`,
`ReloadDecides`, `StopTakes`, `StopCloses` (the listener is closed at once), `StopReturns` (`Shutdown`
waits up to five seconds more), `Bind` (reads the address) and `Publish` (overwrites `w.srv`).
`Listen` is the goroutine that `bind` leaves behind.  The browser keeps `store`
(`localStorage`) and `signed` (which section is shown); an answer may arrive
any time after its request was served, hence `answers`.

History: `overtaken` (the block swapped in last was not the one loaded last), `crossed` (a callback
began to stop or rebind the server while another was at it), `emptied` (stopped, or not started,
without a token, and not bound since) and `meddled` (the token was changed other than by a rotation).

### Handover and the code

`cells[g]` is the backing array of the `g`-th config that was loaded and `length[g]` its slice:
`Post`, `Put` and `Delete` change the array of the web server's config in place,
as `append` and the assignment do.  A runner is a pair of config and cell
(`&d.cfg.Sources[i]`), and each step of its check reads the fields of the cell that the
code reads there: the URL at the fetch, the ID at `Snapshot` and again for the
deferred `Remember`.  `client` and `summ` say whose `[ntfy]` and `[llm]` blocks are in use.
`run[r].from` and `mixed` are history: the ID a check read its baseline under, and the
IDs under which a check ended that had read another's.

`NothingSilent` has two parts because the stronger one, that every item was announced for its own
source, does not survive such a check: it compares with the baseline of one source and stores
under the ID of another, which takes a `Delete` and further requests within one debounce window, more
than the run has.  What holds always is that the item was announced under
*some* ID, or was there in a first run; for its own ID it holds as long as no
check has mixed two.

### PageWatch and the code

`site` is what the owner of the site would say is on it; `Render` the page it serves of
that, with menus, headings, repetitions and differing layouts; `Outages` what may come
instead.  `Fetch` of `Pages` sees the page only; `Content` says without the page which items
the documentation promises, so `BaselineIsTheSite` compares two independent
readings.  Text is compared whole: the model begins where the HTML and JSON
libraries have parsed.  A reply of the model is what became of the call
and the text blocks in it; `Notices` has what each provider's code makes of them.  A notice is what it
lists as added and removed and the two counts in it, or a summary in place of all that; its wording, and
where a tap on it leads, are left out.  `ChangeIsTold` asks that a check tells exactly when there is
something to tell, that a notice names and counts the additions and, where the type reports them, the
removals, up to the limits on lists and body, and that a model hides a change only with the sentinel or
with an opening verdict that no "but" or "however" takes back.

The loops of the fetchers are stated by what they collect: `Kept` has the entries a loop with
a `continue` or an `if` keeps, in their order; `Distinct` the first of several with one ID;
`DateAbove` the heading that `currentDate` holds when a row is met; `Progress` the milestones that the
three variables of `parseAmazonStatus` end with.

The assumptions say what a site is: entries are texts, the numeric ones among them single digits
(the model writes no longer numbers into a JSON page), `"7"` is a number (the game number that the
older schedule layout shows), dates and names are not empty, a
boxscore's number is not 0, a shipment's page says something of each step (`SitesAssumption`); a source
is configured for the pages of its site (`WatchedAssumption`: the tag and classes that entries have, the
path that leads to the list); and having no baseline is not having one, as nil is no map in Go
(`NoBaselineAssumption`).

## Runs

All bounds are constants of the modules: `MaxEdits` (changes of pages, or edits
of the config), `MaxFaults`, `MaxStops` (signals and crashes together), `MaxCrashes`,
`MaxRunners`, `MaxTriggers`, `MaxTime`, `MaxChanges`, `MaxItems`, `MaxGens`, `MaxErrors`, `MaxEntries`.

| Run | Instance | Shows |
|---|---|---|
| `saves` | a trending source beside an LLM page with `ignore_removals`; 2 items, 2 edits, 2 faults, 1 stop | durability, announcement before remembering, reader in step with baseline, with the checks of two sources interleaved, one of which moves its cache before the publish and one of which may suppress it |
| `live` | one JSON list that reports removals; 2 edits, 2 faults, 2 stops, fair | a lasting addition is announced, memory and file converge to the page, a stop ends |
| `reload` | 2 sources, 3 configs and an invalid one, 2 edits, 2 callbacks at a time, 3 runner slots | no runner escapes; between reloads the enabled sources run, and others only as strays; the last edit wins unless it is overtaken |
| `reload_live` | one callback, 3 configs with one enabled source (kept, moved in the list, exchanged), 1 edit, 1 run-now, fair | edits take effect, an accepted run-now is followed by a check also across a reload, cancelled runners end, `Stop` returns |
| `trending` | 3 repos, `ForgetAfter` 2, clock to 5 | the cache is consistent and bounded and implements `SeenHistory` |
| `config` | 1 source ID and the settings, 2 values, 2 callbacks, 3 edits, 1 fault, 1 crash, fair | the file is a register (`IsRegister`), memory is the file between reloads, a loadable file takes effect |
| `web` | 2 tokens, 2 addresses, 2 servers, 2 callbacks at a time, 2 changes, 1 fault | one listener, never lost, unless two callbacks rebind at a time; token, address and listener follow the file; the browser is not left with an outdated token |
| `handover` | 2 sources, one with 2 URLs, 2 items, 2 configs, 2 edits; only cancelled runners' fetches fail; fair | no item enters a baseline unannounced (for its own source, unless IDs were mixed), live runners use their config, every baseline becomes its own page |
| `pages` | 15 sources: each type, `page_llm` with each provider; up to 3 entries, some blank or numeric; 3 games with a doubleheader, 3 milestones, 2 repos, 18 replies of a model | the baseline is the site, each change is told once, its additions and removals named and counted, and a failing model hides none |
| `first_run`, `no_panic`, `granted` | one source; the instance of `reload`; one source ID, one callback | expected violations, see *Findings* |

**Why the bounds are enough.** Two sources suffice for every interleaving of two
saves: the mutex admits one writer, a third source only repeats the second; the
proof of `CheckedIsDurable` confirms it for any number.  Two items give added-only,
removed-only, mixed and empty diffs.  Two faults allow a failed publish followed
by a failed save, one stop splits a check at any step.  What the other types add, lists and single values that
ignore removals, is checked in `pages`, and by the proofs for every mix of types and flags.  Three runner
slots hold an old runner, still in its check, beside the new ones of two sources; a third
generation then waits for a slot.  Two callbacks give each order of two reloads, which is what lets an
older config win or a list change under a loop; more of them are left to the proofs, which bound nothing.
The liveness run keeps one
enabled source and two slots, for the old runner and the new; longer chains of
edits repeat this handover, since a reload cancels everything before it.  A clock of five with a TTL of two has
repos below, at and above the limit, twice in a row.

In `config`, a source and the settings are the two kinds of parts (rolled back or not),
three edits are one that is loaded, one that overtakes it and one that is written back,
and two callbacks give each order of two reloads.  In `web`, two changes are two reloads, or a rotation
and the saved address or edit it meets, each in a callback of its own; two servers are the old and the new one of a
restart, or the two that two callbacks bind.  In
`handover`, two edits move a cell and fill it again or change its URL, and two configs are
the replaced and the replacing one; `Delete` of the first of two sources makes the other's
runner read the wrong cell.  In `pages`, the limits on lists and text are two lines each instead of ten
items and the size of a body, so that three entries with three texts pass them; three entries hold a repetition, a
blank and a number at once.  Symmetry is used for items in the safety
run of `Checker`, for callbacks in `reload`, and for tokens, addresses, servers and callbacks in `web` (nothing treats
one of them specially; no liveness run uses symmetry).

**Deadlock** is checked in the runs of `Checker`, `Trending` and `PageWatch`, which can always go
on.  `Supervisor` and `WebSession` are a single life of the process, which ends, and in `ConfigSync`
and `Handover` the bounded edits may be used up with nothing left to do: their
runs say `CHECK_DEADLOCK FALSE`, and `StopCompletes`, `EditsTakeEffect`, `FileTakesEffect` and
`BaselinesHeal` say that they do not stop before.

**Fairness.** `FairSpec` of `Checker` and `Supervisor` assumes that goroutines are
scheduled and that calls return: every HTTP client has a timeout or runs under
the context.  Strong fairness of `SaveSnapshot` stands for the Go mutex, which
hands over to a starving waiter; strong fairness of `Exit` and `Quit` for the
select that finds the context cancelled while the next tick is at least the
minimum interval (15 s) away.  Nothing is assumed of edits, faults, signals,
crashes, restarts or `TimerCheck` (a cron entry may be a day away).  Liveness under faults is
conditional: `AdditionsAreAttempted` and `BaselineFollowsPage` speak of behaviours in which
the process in the end stays up, and the bound on faults stands for "faults stop".
`ConfigSync` assumes that the debounce timer fires, that the goroutine of a callback goes
on, that a first config under generation gets its content unless the process dies, and that
the service manager boots the process (`Restart=always`).  `Handover` assumes that the
callback goes on and that every runner takes its steps: each has a next check, however far
away, and `BaselinesHeal` speaks of the end only.  `WebSession` and `PageWatch` assume nothing.

## What is proved

`tlapm` checks these for every value of the constants, from the named
assumptions of each module only.

- `CheckerProofs!TypeCorrect`: type correctness of `Checker`.
- `CheckerProofs!Durability`: `CheckedIsDurable` for any number of sources.
  It is not inductive: the copy that another source's `Save` is about to write may be older than the
  memory.  `SaveInv` adds that one `Save` runs at a time, that its copy holds its own
  source's current entry, and that it holds the current entry of every *settled*
  source (one that has not touched its entry since its last `Save`): such an
  entry cannot have changed since the copy was made.  Copying before the mutex
  (the slip `SaveSnapshotUnlocked`) breaks the first part.
- `CheckerProofs!Announcement`: `NoSilentAddition` for any mix of types.
  `AnnouncedInv` extends it to the copies on their way to the disk and to the items
  held by a check: what `Remember` is about to store is announced already.
- `CheckerProofs!ReaderFollows`: `ReaderInSync` for any mix of types and faults.  `SyncInv` says of each
  step of a check how far reader and baseline are apart: between `RememberTrending` and
  its publish the baseline is ahead by the notification, between a publish and the deferred
  `Remember` the reader is ahead of the baseline.  That a single value has at most one item
  is part of it: this is why an ignored removal loses nothing there.
- `SupervisorProofs!TypeCorrect` and `NoRunnerEscapes` (`LiveRunnersAreMapped`): for any number
  of callbacks inside `Reload` at once.  The strengthening `Inv` adds that goroutines
  and picks belong to sources (`Assigned`), and that after the signal no context
  is live and `Stop` is called only then (`Stopping`), which is why `Stop` may
  drop the map.
- `SupervisorProofs!ConfigInForceRuns` and `LastEditIsInForce` (`ConfigIsRunning`, `LastEditWins`): for any
  sources, configs, checks and requests, and for any number of callbacks inside `Reload`.  The properties
  name what an overlap can do, and the proof shows that it does no more.  `ReloadInv` adds
  that the map holds a runner under its own source (`Filed`); that, unless a callback is about to cancel,
  each enabled source of the config in force has a live runner or a loop that will start it (`WillStart`), and
  nothing else runs but strays (`InForce`): whoever swaps later cancels later, so the last one to
  cancel ranges over the last config; and that what the last thread to load holds is the file
  unless the debounce timer runs (`LastLoaded`).
- `TrendingProofs!Refinement`: `Trending` implements `SeenHistory`.  `Mirrors` relates a cache and a history: the cache holds true times, and what it does
  not hold was sighted too long ago.  It holds of memory and file separately, and
  time keeps it.  `Agreement`, `Freshness` and `TypeCorrect` follow from the same invariant.
- `ConfigSyncProofs!MemoryFollowsFile` (`MemoryIsFile`), for any number of callbacks, with
  `TypeCorrect`.  `MemInv` says who may hold what: without an overlap one callback is under way, what
  it holds is the file (`LoadedIsFile`), and the object it has given the daemon and not yet the
  web server is the one it holds (`SameObject`); `overtaken` is what an overlap sets, so the
  proof bounds exactly what overlapping reloads can break.
- `ConfigSyncProofs!Refinement`: `ConfigSync` implements `ConfigRegister`, overlapping
  callbacks, boots and crashes included.  A granted or refused request maps to the register's, and
  every other step to a silent one: it invents no value (`NothingNew`).
- `HandoverProofs!NoSilence` (`NothingSilent`), `LiveConfig` (`LiveRunnersUseTheirConfig`) and `TypeCorrect`.
  Type correctness itself needs `Underway`: a runner belongs to a config that was
  loaded, so its pointer leads to a filled cell however the array was shifted.  For
  `NoSilence` the invariant is extended to the baselines that checks have read and
  may store any time later (`CopiesAccounted`); for `LiveConfig`, to whose blocks are installed
  between the halves of `Reload` (`Installed`).
- `WebSessionProofs!NoServerLeftBehind` (`OneListener`), `ServerFollowsFile` (`ServesAsConfigured`),
  `BrowserFollowsServer` (`BrowserHoldsTheToken`) and `TypeCorrect`, for any tokens, addresses,
  servers and callbacks.  One invariant serves all: what a thread holds fits its place (`Threaded`); while no two
  callbacks have crossed, one of them at most is restarting the server, and it has taken the old
  server out of `w.srv` before it binds (`Attended`); the file is pending, in the hands of the callback that
  loaded last, or in force, unless that one was overtaken (`Follows`); a decision to stop or
  restart stays right until it is carried out (`Decided`); and an outdated token in the browser has its
  successor on the way (`Informed`).  `ServesAsConfigured` speaks of the
  moments between reloads only, and rotations and the shutdown fall into their middle; the
  other parts say what holds there.
- `PageWatchProofs!BaselineFollowsTheSite` (`BaselineIsTheSite`) and `TypeCorrect`, for any sources
  of the eight types, any sites and any order of outages.  The proof has a lemma per type (`HTMLIsRead`,
  `JSONIsRead`, ..., put together in `EverySiteIsRead`): the page a site serves is read as its content, a page
  without content fails the check, and no outage passes for a page.  With that
  the invariant is inductive together with the types.  The longest is the schedule: its rows are
  placed one date after the other (`MoreDates`), each below the heading of its own date
  (`ScheduleIsPlaced`), and read to the game they were made from in either layout (`RowIsRead`).
- `PageWatchProofs!ChangesAreTold` (`ChangeIsTold`), on top of it.  The difference of items and baseline is
  the difference of the two contents, and each `Format` is fair to a difference (`FormatIsFair`): it
  names items of it only, one of each kind at least and all up to its limits, and counts all of both kinds
  (`NamesAreFair`, `RemovalsAreListed`, `DifferencesAreTold`, `NewReposAreTold`).  For `page_llm`
  a model's reply silences a check if and only if the text that is read of it carries the sentinel, or opens with
  the verdict and makes no exception anywhere, whichever provider gave it (`VerdictIsRead`, `FormatPageIsFair`).
- `PageWatchProofs!GamesAreAnnouncedOnce` (`GameAnnouncedOnce`).  It is not inductive: the site may be far
  ahead of the last check, so what was announced is bounded by what that check saw.  `Accounted`
  adds that some schedule, no further than the site's, has the baseline as its IDs and
  accounts for every announcement so far.  A check then announces a game that was posted since,
  or one whose boxscore appeared since, and each of the two brings one announcement at most; with a
  doubleheader two games may bring one between them.  That the second is announced at all is not claimed.

The prover has no induction over data: its induction theorems take an operator as a parameter.
Where the proofs need it, they take a least element of a well-founded
relation instead (`FirstIsLeft` in `SupervisorProofs`: the loop takes an index that is left), or speak of
the set of numbers up to which a claim holds (`Induction` in `PagesProofs`): so the order in which
`Kept` lists entries and what `FlattenSeq` returns are proved for every list.

**Only model-checked.** All liveness, which is out of the prover's reach: `AdditionsAreAttempted`,
`BaselineFollowsPage`, `StopCompletes`, `EditsTakeEffect`, `TriggerIsServed`, `CancelledRunnersEnd`,
`FileTakesEffect`, `BaselinesHeal`.  Every invariant and every action property that a passing run checks is proved.

## Findings

Each is a run with `expect: violation`.

- `first_run`: a failed first fetch makes `RecordError` create an entry with an empty,
  non-nil baseline; the first successful check is then no first run and
  publishes the whole page.
- `granted`: POST and PUT check a source with `source.Validate` only, so an empty ID or an
  interval that `schedule.Parse` refuses is written and acknowledged, and the
  file loads no more, against the comment in `handleSources`.

- `no_panic`: `Start` takes the length of `d.cfg.Sources` once and indexes the list in each turn,
  without the lock.  A second edit, whose callback runs in a goroutine of its own (`watcher.go:77`), exchanges
  it for a shorter list in between, and the daemon panics, where `README.md:93-94` promises a hot reload.

## Disagreements

Between the code and its comments or documents, visible in the actions, without a run of their own:

- `check.go:175-177`: the deferred `Remember` runs after a failed publish too, so the next
  check has nothing to retry (`PublishFails`, `Remember`).
- `README.md:291-293`: every debounced event gets a goroutine, and two overlapping
  callbacks can leave the older config in force, in the daemon as in the web server, or start
  sources of a list that was exchanged under the loop.  `LastEditWins`, `EditsTakeEffect`, `MemoryIsFile`,
  `ServesAsConfigured` and `BrowserHoldsTheToken` excuse the first by `overtaken`, `ConfigIsRunning` the second by `strays`.
- `webapi.go:208-209`, `226-228`: a callback is in `Shutdown` for up to five seconds with `w.srv` already nil.  Another one
  finds nothing to stop then and binds, and the first binds over it: the server of the second serves on and
  neither a reload nor the shutdown stops it, while the one in `w.srv` fails to listen.  Or the other one empties the token,
  and the first binds all the same.  `OneListener` and half of `ServesAsConfigured` excuse both by `crossed`; without
  that word TLC refutes `OneListener` by a behaviour of 20 states.
- `webapi.go:158-163`, `168-174`: a `ListenAndServe` that fails is only logged.  `w.srv` keeps the dead server, and a reload that
  leaves the address alone does not try again (`refused` in `Listen`).
- `webapi.go:109-122`, `194-198`: once the token was emptied, a new one does not bind the server again (`emptied`).
- `daemon.go:306-307`: `Stop` waits for the runners in the map, not for one that a reload
  replaced and that still checks.
- `daemon.go:182-184`: a check in flight brings a pruned entry back (`Prune` runs before
  the runners are cancelled).
- `state.go:554-556`: a repo on two consecutive pages is reported again when the checks are
  more than `forget_after` apart.
- `README.md:253-254`: a failed fetch publishes no warning (`FetchFails`).
- `state/record.go:23-24`: a failed publish leaves `LastError` empty (`Remember`).
- `source.go:133-138`: an nfvl source with `ignore_removals` publishes the removals of a mixed
  diff (`NotifyRemoved`, `DiffCheck`).
- `daemon.go:55-57`: a run-now during a check is queued for a second one (`Send`).
- `webui/web/app.js:471-474`, `webapi.go:708-710`: a token saved in Settings is stored by the
  browser at once and accepted by the server only after the reload; the poll in
  between is refused and signs the browser out.  A refused save stores its token, too (`Saved`).
- `nfvl.go:37-42`, `README.md:21`: the boxscore link gives a game another ID, so with
  its result the game is announced once more; the games of a doubleheader share an ID until
  then: the second posting is not announced, or both are listed (`GameAnnouncedOnce`
  allows one announcement per posting and one per link).
- `jsonpath.go:16-20`: a `null` leaf of a `json_value` path passes as the empty text.

## Not modelled

- The lexing of HTML and JSON, the HTTP requests and their headers, the byte caps on bodies, the
  wording, priority and tags of notifications: data and I/O.  IDs are compared as wholes, so
  the rounding of numeric JSON IDs from 2^53 on is not seen.
- The last commit that `github_file` quotes (`commit.go`) and the discovery of `gh` (`gh.go`):
  they ornament a notification and change no state.
- The lookup of LLM keys (`ResolveAPIKey`, key files), the prompt and the request body.
- The schedule and the URL templates: calendar arithmetic and substitution without state.  They
  bound *when* a check starts and what is fetched; the models allow any time.
- The read-only handlers of the API (state, config, overview, content of a source), which
  copy under the lock, and the rendering of the UI.
- The migration of v1 and legacy state files in `Load`, beyond a cache without `seen_at`.
- A power failure: a crash is one of the process, and `Save` renames without syncing.  The
  clock does not step back.
- Edits made before the watcher runs are recorded in `missed` and excluded from
  `LastEditWins`, `EditsTakeEffect`, `MemoryIsFile` and `FileTakesEffect`: the code promises nothing about them.

## Plan

In this order; (1)-(6) and (8) are done.

1. `Checker` with its proofs: the pipeline and its durability.
2. `Supervisor` with its proofs: goroutines across reloads and stop.
3. `SeenHistory`, `Trending` with the refinement proof.
4. `ConfigRegister`, `ConfigSync`: the config file and its copies.
5. `WebSession`: listener, token and browser.  `Handover`: checks across reloads and edits in place.
6. `Pages`, `Notices`, `PageWatch`: fetchers, notices and the summarizer.
7. `StateFile`: `Load` of v1, v2, legacy and damaged files, round trip with `Save`.  `Schedule`
   as a pure operator against a reference definition.
8. Proofs: of every module with a state each invariant that a passing run checks is proved, and both
   refinements.  Left: what (7) adds.
