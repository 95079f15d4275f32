---------------------------- MODULE Supervisor ----------------------------
(***************************************************************************)
(* The supervisor: which goroutines exist for which source while the       *)
(* config file is edited, "run now" is pressed and the process is told to  *)
(* stop.                                                                   *)
(*                                                                         *)
(* Code: daemon/daemon.go (Start, Reload, startOne, runSource, TriggerNow, *)
(* Stop), the config watcher's callback and runDaemon in main.go,          *)
(* config/watcher.go (debounce), state.Prune.                              *)
(*                                                                         *)
(* d.mu is held for a few statements at a time: one action is one critical *)
(* section, or one statement that reads d.cfg outside of it.               *)
(*                                                                         *)
(* Abstractions:                                                           *)
(*  - a config is the list of its sources, each with an ID and whether     *)
(*    Start gives it a runner (enabled and a valid interval);              *)
(*  - a check (runOnce) is one interval of time that ends with an entry    *)
(*    for the source in the state: Remember and RecordError both create    *)
(*    it; what happens inside it is the subject of Checker;                *)
(*  - the LLM summarizer and the ntfy settings are left out;               *)
(*  - a goroutine that has returned and is in nobody's hands frees its     *)
(*    slot, so MaxRunners bounds the goroutines that exist at a time.      *)
(***************************************************************************)
EXTENDS Integers, Sequences, FiniteSets

CONSTANTS
    Sources,    \* source IDs
    Configs,    \* the configs the file may hold, lists of [id, on]
    BadConfig,  \* a file config.Load rejects
    Callbacks,  \* watcher callbacks that may run at the same time
    Main,       \* the main goroutine
    Callers,    \* web requests in TriggerNow at the same time
    NoRunner,   \* "no runner in the map"
    MaxRunners, \* bound: goroutines of runSource at a time
    MaxEdits,   \* bound: edits of the config file
    MaxTriggers \* bound: calls of TriggerNow

Threads == Callbacks \cup {Main}
Runners == 1..MaxRunners

IDs(cfg) == {cfg[i].id : i \in 1..Len(cfg)}
On(cfg)  == {cfg[i].id : i \in {j \in 1..Len(cfg) : cfg[j].on}}

\* config.Load refuses two sources with one ID.
ASSUME ConfigAssumption ==
    /\ Configs \subseteq Seq([id : Sources, on : BOOLEAN])
    /\ \A cfg \in Configs : \A i, j \in 1..Len(cfg) :
          cfg[i].id = cfg[j].id => i = j
    /\ BadConfig \notin Configs
ASSUME ThreadAssumption == Main \notin Callbacks
ASSUME RunnerAssumption == NoRunner \notin Runners
ASSUME BoundAssumption ==
    MaxRunners \in Nat /\ MaxEdits \in Nat /\ MaxTriggers \in Nat

VARIABLES
    file,      \* what config.toml holds
    pending,   \* the debounce timer of the watcher is running
    dcfg,      \* d.cfg
    map,       \* d.runners
    ctxDone,   \* the context of runDaemon is cancelled
    main,      \* main goroutine: "starting", "web", "running", "waiting"
               \* (in Stop) or "exited"
    tpc,       \* tpc[t]: where thread t is in Reload or Start
    tcfg,      \* tcfg[t]: the config callback t has loaded and still uses
    todo,      \* todo[t]: the indices its loop over d.cfg.Sources has left
    pick,      \* pick[t]: the source the loop is about to start
    runner,    \* runner[r]: one goroutine of runSource and its sourceRunner
    request,   \* request[c]: the runner TriggerNow looked up
    entries,   \* the sources with an entry in state.State
    panicked,  \* a goroutine panicked: the process is gone
    \* history and bounds
    wanted,    \* wanted[s]: TriggerNow accepted a request for s since the last
               \* check of s started
    missed,    \* an edit was made that the watcher cannot have seen
    last,      \* the thread that loaded the config file last
    overtaken, \* the config swapped in last was not the one loaded last
    strays,    \* sources started since the runners were last cancelled that
               \* were not enabled in d.cfg any more
    edits, triggers

NoRequest == NoRunner
NoConfig == BadConfig
Free == [src |-> NoRunner, live |-> FALSE, pc |-> "free", now |-> FALSE]

sysVars    == <<ctxDone, main, panicked>>
fileVars   == <<file, pending, missed, edits>>
thrVars    == <<tpc, tcfg, todo, pick>>
callVars   == <<request, triggers>>
histVars   == <<last, overtaken, strays>>
vars       == <<sysVars, fileVars, thrVars, callVars, histVars, dcfg, map,
                runner, entries, wanted>>

Alive == ~panicked /\ main # "exited"

Init ==
    /\ file \in Configs
    /\ dcfg = file
    /\ pending = FALSE
    /\ map = [s \in Sources |-> NoRunner]
    /\ ctxDone = FALSE
    /\ main = "starting"
    /\ tpc = [t \in Threads |-> IF t = Main THEN "cancel" ELSE "idle"]
    /\ tcfg = [t \in Threads |-> NoConfig]
    /\ todo = [t \in Threads |-> {}]
    /\ pick = [t \in Threads |-> NoRunner]
    /\ runner = [r \in Runners |-> Free]
    /\ request = [c \in Callers |-> NoRequest]
    /\ entries \in SUBSET IDs(dcfg)
    /\ panicked = FALSE
    /\ wanted = [s \in Sources |-> FALSE]
    /\ missed = FALSE
    /\ last = Main /\ overtaken = FALSE /\ strays = {}
    /\ edits = 0 /\ triggers = 0

-----------------------------------------------------------------------------
(* The config file and its watcher.                                        *)

\* Slip: an event that arrives while a callback runs is dropped.
ArmedWhenIdle == ~ctxDone /\ \A t \in Threads : tpc[t] = "idle"

\* The watcher (re)starts its debounce timer on every event until the root
\* context ends.
Armed == ~ctxDone

\* Somebody replaces the file; the watcher, once it is started, sees it.
Edit ==
    /\ Alive
    /\ edits < MaxEdits
    /\ edits' = edits + 1
    /\ file' \in (Configs \cup {BadConfig}) \ {file}
    /\ IF main \in {"starting", "web"}
         THEN pending' = pending /\ missed' = TRUE
         ELSE pending' = Armed /\ missed' = missed
    /\ UNCHANGED <<sysVars, thrVars, callVars, histVars, dcfg, map, runner,
                   entries, wanted>>

\* The file has been quiet for 200 ms: AfterFunc runs the callback in a
\* goroutine of its own, also when an earlier callback has not returned.
Fire(t) ==
    /\ Alive
    /\ pending /\ ~ctxDone
    /\ t \in Callbacks /\ tpc[t] = "idle"
    /\ pending' = FALSE
    /\ tpc' = [tpc EXCEPT ![t] = "load"]
    /\ UNCHANGED <<sysVars, file, missed, edits, tcfg, todo, pick, callVars,
                   histVars, dcfg, map, runner, entries, wanted>>

\* Slip: the callback does not look at the error of config.Load.
LoadConfigUnchecked(t) ==
    /\ Alive
    /\ last' = t
    /\ tpc[t] = "load"
    /\ tpc' = [tpc EXCEPT ![t] = "swap"]
    /\ tcfg' = [tcfg EXCEPT ![t] = file]
    /\ UNCHANGED <<sysVars, fileVars, todo, pick, callVars, overtaken, strays,
                   dcfg, map, runner, entries, wanted>>

\* config.Load; a file it rejects ends the callback.
LoadConfig(t) ==
    /\ Alive
    /\ tpc[t] = "load"
    /\ \/ /\ file = BadConfig
          /\ tpc' = [tpc EXCEPT ![t] = "idle"]
          /\ UNCHANGED <<tcfg, last>>
       \/ /\ file # BadConfig
          /\ last' = t
          /\ tpc' = [tpc EXCEPT ![t] = "swap"]
          /\ tcfg' = [tcfg EXCEPT ![t] = file]
    /\ UNCHANGED <<sysVars, fileVars, todo, pick, callVars, overtaken, strays,
                   dcfg, map, runner, entries, wanted>>

-----------------------------------------------------------------------------
(* Daemon.Reload and Daemon.Start.                                         *)

\* Reload, under d.mu: the new config takes the place of the old one.
SwapConfig(t) ==
    /\ Alive
    /\ tpc[t] = "swap"
    /\ dcfg' = tcfg[t]
    /\ overtaken' = (last # t)
    /\ tpc' = [tpc EXCEPT ![t] = "prune"]
    /\ UNCHANGED <<sysVars, fileVars, tcfg, todo, pick, callVars, last,
                   strays, map, runner, entries, wanted>>

\* Reload: state.Prune, while the old runners still run.
Prune(t) ==
    /\ Alive
    /\ tpc[t] = "prune"
    /\ entries' = entries \cap IDs(tcfg[t])
    /\ tcfg' = [tcfg EXCEPT ![t] = NoConfig]
    /\ tpc' = [tpc EXCEPT ![t] = "cancel"]
    /\ UNCHANGED <<sysVars, fileVars, todo, pick, callVars, histVars, dcfg,
                   map, runner, wanted>>

\* Writing d.runners while Stop ranges over it without the lock is a data
\* race: the runtime may abort the process.
MapWrite == IF main = "waiting" THEN panicked' \in BOOLEAN ELSE UNCHANGED panicked

\* The runners in the map.
Mapped == {map[s] : s \in Sources} \ {NoRunner}

\* Slip: the runners are taken out of the map and not cancelled.
CancelledNever(rs) ==
    [r \in Runners |-> IF r \in rs /\ runner[r].pc = "done" THEN Free ELSE runner[r]]

\* cancel() of every runner in a set.  A goroutine that has returned and has
\* left the map is forgotten.
Cancelled(rs) ==
    [r \in Runners |->
        IF r \notin rs THEN runner[r]
        ELSE IF runner[r].pc = "done" THEN Free
        ELSE [runner[r] EXCEPT !.live = FALSE]]

\* Start, under d.mu: cancel all runners and empty the map.
CancelAll(t) ==
    /\ Alive
    /\ tpc[t] = "cancel"
    /\ runner' = Cancelled(Mapped)
    /\ map' = [s \in Sources |-> NoRunner]
    /\ strays' = {}
    /\ MapWrite
    /\ tpc' = [tpc EXCEPT ![t] = "range"]
    /\ UNCHANGED <<ctxDone, main, fileVars, tcfg, todo, pick, callVars, last,
                   overtaken, dcfg, entries, wanted>>

\* The loop over the first n sources.
RangeTo(t, n) ==
    /\ Alive
    /\ tpc[t] = "range"
    /\ todo' = [todo EXCEPT ![t] = 1..n]
    /\ tpc' = [tpc EXCEPT ![t] = "loop"]
    /\ UNCHANGED <<sysVars, fileVars, tcfg, pick, callVars, histVars, dcfg,
                   map, runner, entries, wanted>>

\* Slip: the loop stops one source early.
RangeConfigShort(t) == RangeTo(t, Len(dcfg) - 1)

\* for i := range d.cfg.Sources: the bound of the loop is read once.
RangeConfig(t) == RangeTo(t, Len(dcfg))

First(is) == CHOOSE i \in is : \A j \in is : i <= j

\* s := &d.cfg.Sources[i], with d.cfg read again in every iteration and
\* without the lock; a disabled source is skipped.
PickSource(t) ==
    /\ Alive
    /\ tpc[t] = "loop"
    /\ todo[t] # {}
    /\ LET i == First(todo[t])
       IN  /\ todo' = [todo EXCEPT ![t] = @ \ {i}]
           /\ \/ /\ i > Len(dcfg)
                 /\ panicked' = TRUE
                 /\ UNCHANGED <<tpc, pick>>
              \/ /\ i \in 1..Len(dcfg) /\ dcfg[i].on
                 /\ tpc' = [tpc EXCEPT ![t] = "start"]
                 /\ pick' = [pick EXCEPT ![t] = dcfg[i].id]
                 /\ UNCHANGED panicked
              \/ /\ i \in 1..Len(dcfg) /\ ~dcfg[i].on
                 /\ UNCHANGED <<tpc, pick, panicked>>
    /\ UNCHANGED <<ctxDone, main, fileVars, tcfg, callVars, histVars, dcfg,
                   map, runner, entries, wanted>>

\* A runner that is still in the map under the ID is cancelled and replaced.
Replaced(s) == {map[s]} \ {NoRunner}

\* What startOne does: a context derived from the daemon's, a runner in the
\* map, a goroutine that begins at a point of runSource.
Launch(t, point) ==
    /\ Alive
    /\ tpc[t] = "start"
    /\ LET s == pick[t]
       IN  \E r \in Runners :
              /\ runner[r] = Free
              /\ \A c \in Callers : request[c] # r
              /\ runner' = [Cancelled(Replaced(s)) EXCEPT
                    ![r] = [src |-> s, live |-> ~ctxDone, pc |-> point, now |-> FALSE]]
              /\ map' = [map EXCEPT ![s] = r]
    /\ strays' = strays \cup ({pick[t]} \ On(dcfg))
    /\ MapWrite
    /\ tpc' = [tpc EXCEPT ![t] = "loop"]
    /\ pick' = [pick EXCEPT ![t] = NoRunner]
    /\ UNCHANGED <<ctxDone, main, fileVars, tcfg, todo, callVars, last,
                   overtaken, dcfg, entries, wanted>>

\* Slip: a new goroutine waits for its schedule before the first check.
StartOneWaits(t) == Launch(t, "waiting")

\* startOne; the goroutine begins with a check.
StartOne(t) == Launch(t, "new")

\* The loop is over: Start, and with it Reload and the callback, returns.
StartReturns(t) ==
    /\ Alive
    /\ tpc[t] = "loop"
    /\ todo[t] = {}
    /\ tpc' = [tpc EXCEPT ![t] = "idle"]
    /\ main' = IF t = Main THEN "web" ELSE main
    /\ UNCHANGED <<ctxDone, panicked, fileVars, tcfg, todo, pick, callVars,
                   histVars, dcfg, map, runner, entries, wanted>>

-----------------------------------------------------------------------------
(* runSource: check at once, then wait for the timer, a "run now" or the   *)
(* end of the context.                                                     *)

\* What the start of a check does; only one under a live context can succeed.
CheckBegins(r) ==
    /\ Alive
    /\ wanted' = IF runner[r].live THEN [wanted EXCEPT ![runner[r].src] = FALSE]
                                   ELSE wanted
    /\ UNCHANGED <<sysVars, fileVars, thrVars, callVars, histVars, dcfg, map,
                   entries>>

\* The goroutine starts with a check, without looking at the context.
FirstCheck(r) ==
    /\ runner[r].pc = "new"
    /\ runner' = [runner EXCEPT ![r].pc = "checking"]
    /\ CheckBegins(r)

\* The timer of the schedule fires.
TimerCheck(r) ==
    /\ runner[r].pc = "waiting"
    /\ runner' = [runner EXCEPT ![r].pc = "checking"]
    /\ CheckBegins(r)

\* A "run now" is taken from the buffered channel.
TriggeredCheck(r) ==
    /\ runner[r].pc = "waiting" /\ runner[r].now
    /\ runner' = [runner EXCEPT ![r].pc = "checking", ![r].now = FALSE]
    /\ CheckBegins(r)

\* Slip: a check that failed under a cancelled context is tried again.
EndCheckRetries(r) ==
    /\ Alive
    /\ runner[r].pc = "checking" /\ runner[r].live
    /\ runner' = [runner EXCEPT ![r].pc = "waiting"]
    /\ entries' = entries \cup {runner[r].src}
    /\ UNCHANGED <<sysVars, fileVars, thrVars, callVars, histVars, dcfg, map,
                   wanted>>

\* The check is over; whatever its result, the source has an entry now.  A
\* check is not interrupted when its context is cancelled, it only fails.
EndCheck(r) ==
    /\ Alive
    /\ runner[r].pc = "checking"
    /\ runner' = [runner EXCEPT ![r].pc = "waiting"]
    /\ entries' = entries \cup {runner[r].src}
    /\ UNCHANGED <<sysVars, fileVars, thrVars, callVars, histVars, dcfg, map,
                   wanted>>

\* The select finds the context cancelled: the goroutine closes done and
\* returns.
Quit(r) ==
    /\ Alive
    /\ runner[r].pc = "waiting" /\ ~runner[r].live
    /\ runner' = [runner EXCEPT ![r] = IF r \in Mapped THEN [@ EXCEPT !.pc = "done"]
                                                       ELSE Free]
    /\ UNCHANGED <<sysVars, fileVars, thrVars, callVars, histVars, dcfg, map,
                   entries, wanted>>

-----------------------------------------------------------------------------
(* TriggerNow, called by POST /api/sources/{id}/run.                       *)

\* Look the runner up under d.mu; an unknown source is refused.
Lookup(c, s) ==
    /\ Alive
    /\ main \in {"web", "running"}
    /\ triggers < MaxTriggers
    /\ triggers' = triggers + 1
    /\ request[c] = NoRequest
    /\ map[s] # NoRunner
    /\ request' = [request EXCEPT ![c] = map[s]]
    /\ wanted' = [wanted EXCEPT ![s] = TRUE]
    /\ UNCHANGED <<sysVars, fileVars, thrVars, histVars, dcfg, map, runner,
                   entries>>

\* Send without blocking: a full buffer is success as well.  By then the
\* runner may have been cancelled.
Send(c) ==
    /\ Alive
    /\ request[c] # NoRequest
    /\ LET r == request[c]
       IN  runner' = [runner EXCEPT ![r].now = @ \/ runner[r].pc # "free"]
    /\ request' = [request EXCEPT ![c] = NoRequest]
    /\ UNCHANGED <<sysVars, fileVars, thrVars, triggers, histVars, dcfg, map,
                   entries, wanted>>

-----------------------------------------------------------------------------
(* runDaemon.                                                              *)

\* cw.Start: from here on edits are seen.
StartWatcher ==
    /\ Alive
    /\ main = "web"
    /\ main' = "running"
    /\ UNCHANGED <<ctxDone, panicked, fileVars, thrVars, callVars, histVars,
                   dcfg, map, runner, entries, wanted>>

\* SIGTERM: the root context is cancelled, and with it every runner's; the
\* watcher stops its timer and returns.
Signal ==
    /\ Alive
    /\ ~ctxDone
    /\ ctxDone' = TRUE
    /\ pending' = FALSE
    /\ runner' = [r \in Runners |-> [runner[r] EXCEPT !.live = FALSE]]
    /\ UNCHANGED <<main, panicked, file, missed, edits, thrVars, callVars,
                   histVars, dcfg, map, entries, wanted>>

\* Main wakes up, stops the web server and calls Stop, which cancels the
\* runners in the map under d.mu.
StopCancel ==
    /\ Alive
    /\ main = "running" /\ ctxDone
    /\ main' = "waiting"
    /\ runner' = [r \in Runners |->
                    IF r \in Mapped THEN [runner[r] EXCEPT !.live = FALSE]
                                    ELSE runner[r]]
    /\ UNCHANGED <<ctxDone, panicked, fileVars, thrVars, callVars, histVars,
                   dcfg, map, entries, wanted>>

\* Stop has received from done of every runner in the map; the map is reset,
\* main saves the state and the process exits.
StopReturns ==
    /\ Alive
    /\ main = "waiting"
    /\ \A r \in Mapped : runner[r].pc = "done"
    /\ main' = "exited"
    /\ map' = [s \in Sources |-> NoRunner]
    /\ UNCHANGED <<ctxDone, panicked, fileVars, thrVars, callVars, histVars,
                   dcfg, runner, entries, wanted>>

-----------------------------------------------------------------------------
ThreadStep(t) ==
    \/ Fire(t)        \/ LoadConfig(t)  \/ SwapConfig(t) \/ Prune(t)
    \/ CancelAll(t)   \/ RangeConfig(t) \/ PickSource(t) \/ StartOne(t)
    \/ StartReturns(t)

\* What a goroutine does on its own; TimerCheck waits for the clock, which may
\* be a day away.
RunnerStep(r) == FirstCheck(r) \/ TriggeredCheck(r) \/ EndCheck(r) \/ Quit(r)

MainStep == StartWatcher \/ StopCancel \/ StopReturns

Next ==
    \/ \E t \in Threads : ThreadStep(t)
    \/ \E r \in Runners : RunnerStep(r) \/ TimerCheck(r)
    \/ \E c \in Callers : Send(c) \/ \E s \in Sources : Lookup(c, s)
    \/ MainStep
    \/ Edit
    \/ Signal

Spec == Init /\ [][Next]_vars

\* Goroutines are scheduled; a check ends (every network call has a timeout or
\* ends with its context); a cancelled runner leaves the select (the timer
\* that competes with the context is at least 15 seconds away).
Fairness ==
    /\ \A t \in Threads : WF_vars(ThreadStep(t))
    /\ \A r \in Runners : WF_vars(RunnerStep(r)) /\ SF_vars(Quit(r))
    /\ \A c \in Callers : WF_vars(Send(c))
    /\ WF_vars(MainStep)

FairSpec == Spec /\ Fairness

-----------------------------------------------------------------------------
(* Properties.                                                             *)

TypeOK ==
    /\ file \in Configs \cup {BadConfig}
    /\ dcfg \in Configs
    /\ pending \in BOOLEAN /\ ctxDone \in BOOLEAN
    /\ missed \in BOOLEAN /\ panicked \in BOOLEAN
    /\ main \in {"starting", "web", "running", "waiting", "exited"}
    /\ map \in [Sources -> Runners \cup {NoRunner}]
    /\ tpc \in [Threads -> {"idle", "load", "swap", "prune", "cancel", "range",
                            "loop", "start"}]
    /\ tcfg \in [Threads -> Configs \cup {NoConfig}]
    /\ todo \in [Threads -> SUBSET Nat]
    /\ pick \in [Threads -> Sources \cup {NoRunner}]
    /\ runner \in [Runners -> [src : Sources \cup {NoRunner}, live : BOOLEAN,
                               pc : {"free", "new", "checking", "waiting", "done"},
                               now : BOOLEAN]]
    /\ request \in [Callers -> Runners \cup {NoRequest}]
    /\ entries \in SUBSET Sources
    /\ wanted \in [Sources -> BOOLEAN]
    /\ last \in Threads /\ overtaken \in BOOLEAN /\ strays \in SUBSET Sources
    /\ edits \in Nat /\ triggers \in Nat

\* No goroutine escapes the supervisor: a runner whose context is not
\* cancelled is the one in the map under its source, so there is at most one
\* for a source and the next reload reaches it; however callbacks overlap.
LiveRunnersAreMapped ==
    \A r \in Runners : runner[r].live => map[runner[r].src] = r

\* The thread is not in the part of Reload between the new config and the
\* last new runner.
Settled(t) == tpc[t] \in {"idle", "load"}

LiveSources == {runner[r].src : r \in {q \in Runners : runner[q].live}}

\* Between reloads all enabled sources of the config in force are being
\* watched, however reloads overlapped before: whoever swaps in a config later
\* also cancels later, and starts all of its sources.  Nothing else is
\* watched, except a source that another reload had picked from a config
\* exchanged under its loop.
ConfigIsRunning ==
    Alive /\ ~ctxDone /\ (\A t \in Threads : Settled(t)) =>
        /\ On(dcfg) \subseteq LiveSources
        /\ LiveSources \subseteq On(dcfg) \cup strays

\* "All UI changes are persisted to config.toml and the daemon hot-reloads"
\* (README.md): a reload does not take the process down.
NoPanic == panicked => ctxDone

\* Once the watcher has handled all events, the config in force is the one in
\* the file, unless the file is not valid, or of two callbacks the one that
\* loaded earlier has swapped last.
LastEditWins ==
    /\ Alive /\ ~ctxDone /\ ~missed /\ ~pending
    /\ \A t \in Threads : tpc[t] = "idle"
    => file = BadConfig \/ dcfg = file \/ overtaken

\* The last edit of the file takes effect: if its content is a valid config,
\* the watcher was running at each edit and no older callback swapped after
\* the one that read it, its enabled sources come to be watched, and others
\* only as strays.
EditsTakeEffect ==
    <>[](Alive /\ ~ctxDone /\ ~missed) =>
        <>[](\/ file = BadConfig \/ overtaken
             \/ On(file) \subseteq LiveSources /\ LiveSources \subseteq On(file) \cup strays)

\* An accepted "run now" is followed by a check that starts after it, unless
\* the source is no longer enabled or the process is told to stop: also when
\* the runner it was sent to is being replaced.
TriggerIsServed ==
    \A s \in Sources :
        wanted[s] ~> ~wanted[s] \/ s \notin On(dcfg) \/ ctxDone \/ panicked

\* A cancelled runner ends: reloads do not pile goroutines up.
CancelledRunnersEnd ==
    \A r \in Runners :
        runner[r].pc # "free" /\ ~runner[r].live
            ~> runner[r].pc \in {"free", "done"} \/ ~Alive

\* Stop returns.
StopCompletes == ctxDone ~> ~Alive

=============================================================================
