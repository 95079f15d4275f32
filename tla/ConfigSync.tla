----------------------------- MODULE ConfigSync -----------------------------
(***************************************************************************)
(* config.toml and the copies of it in memory.  The REST API changes the   *)
(* web server's config in place and writes all of it to the file; the      *)
(* watcher loads the file and hands the new object to the daemon and then  *)
(* to the web server; people edit the file by hand; the process dies and   *)
(* boots from the file.                                                    *)
(*                                                                         *)
(* Code: webapi/webapi.go (handleSources, handleSourceByID,                *)
(* handleSettings, Reload), config/{load,write,firstrun,watcher}.go, the   *)
(* boot in main.go, the config swap of daemon.Reload.                      *)
(*                                                                         *)
(* Abstractions:                                                           *)
(*  - a config has one value per part: a source ID, or the settings, which *)
(*    stand for the [ntfy], [check] and [llm] blocks;                      *)
(*  - the order of the sources is left out, and so are the defaults Load   *)
(*    fills in;                                                            *)
(*  - w.mu is held for a whole API request, so a request is one step; so   *)
(*    is a write of the file, which ends in a rename;                      *)
(*  - the web token and the listener are the subject of WebSession.        *)
(***************************************************************************)
EXTENDS Integers, FiniteSets

CONSTANTS
    IDs,       \* source IDs
    Settings,  \* the part that stands for the settings
    Values,    \* values of a part that config.Load accepts
    Absent,    \* there is no such source; for Settings: there is no file
    Bad,       \* a value config.Load refuses
    Default,   \* the settings of the generated first config
    Callbacks, \* watcher callbacks that may run at the same time
    Nobody,    \* no callback
    Silence,   \* nobody was answered in the last step
    MaxEdits,  \* bound: API requests and hand edits
    MaxFaults, \* bound: requests that are refused after they changed memory
    MaxCrashes \* bound: ends of the process

Parts == IDs \cup {Settings}
Contents == Values \cup {Absent, Bad}
Config == [Parts -> Contents]

ASSUME PartAssumption == Settings \notin IDs
ASSUME ValueAssumption ==
    Absent \notin Values /\ Bad \notin Values /\ Absent # Bad /\ Default \in Values
ASSUME NobodyAssumption == Nobody \notin Callbacks
ASSUME BoundAssumption ==
    MaxEdits \in Nat /\ MaxFaults \in Nat /\ MaxCrashes \in Nat

VARIABLES
    file,    \* config.toml
    phase,   \* "down", "generating", "starting" (the API is served, the file
             \* is not watched yet), "up"
    wcfg,    \* *Server.cfg, the config the API changes
    dcfg,    \* *Daemon.cfg, the config the runners follow
    shared,  \* both are the same object
    pending, \* the debounce timer of the watcher is running
    pc,      \* pc[c]: callback c is "idle", "load", "daemon" or "server":
             \* what it does next
    new,     \* new[c]: the config it has loaded
    given,   \* the callback whose object the daemon holds and the web server
             \* does not yet
    answer,  \* the HTTP answer of the last step
    \* history: read by the properties only
    dirty,   \* a request was refused after it had changed wcfg
    missed,  \* the file was changed before it was watched
    overtaken, \* two callbacks ran at the same time
    edits, faults, crashes

memVars == <<wcfg, dcfg, shared>>
cbVars  == <<pc, new, given, overtaken>>
cntVars == <<edits, faults, crashes>>
vars    == <<file, phase, memVars, pending, cbVars, answer, dirty, missed, cntVars>>

NoFile    == [p \in Parts |-> Absent]
EmptyFile == [p \in Parts |-> IF p = Settings THEN Bad ELSE Absent]
FirstFile == [p \in Parts |-> IF p = Settings THEN Default ELSE Absent]

\* config.Load: the file exists and parses, the settings are complete and
\* valid, every source has an ID, a valid interval and passes its fetcher's
\* Validate.
Loadable(c) == c[Settings] # Absent /\ \A p \in Parts : c[p] # Bad

Running == phase \in {"starting", "up"}
Idle == [c \in Callbacks |-> "idle"]

Init ==
    /\ file \in {NoFile} \cup {c \in Config : Loadable(c)}
    /\ phase = "down"
    /\ wcfg = NoFile /\ dcfg = NoFile /\ shared = TRUE
    /\ pending = FALSE
    /\ pc = Idle
    /\ new = [c \in Callbacks |-> NoFile]
    /\ given = Nobody
    /\ answer = Silence
    /\ dirty = FALSE /\ missed = FALSE /\ overtaken = FALSE
    /\ edits = 0 /\ faults = 0 /\ crashes = 0

-----------------------------------------------------------------------------
(* The API.  *)

\* The web server's config becomes c, in place.
InMemory(c) ==
    /\ wcfg' = c
    /\ dcfg' = IF shared THEN c ELSE dcfg
    /\ UNCHANGED shared

\* Slip: an event that comes while a callback runs is taken for its own.
NoticedWhenIdle ==
    /\ pending' = ((phase = "up" /\ pc = Idle) \/ pending)
    /\ missed' = (phase = "starting" \/ missed)

\* The file was replaced; the watcher, once it is started, arms its timer.
Noticed ==
    /\ pending' = (phase = "up" \/ pending)
    /\ missed' = (phase = "starting" \/ missed)

Told(p, v, ok) == answer' = [part |-> p, value |-> v, ok |-> ok]

\* config.WriteFile of the changed config succeeds.
Grant(p, v) ==
    /\ Running
    /\ edits < MaxEdits /\ edits' = edits + 1
    /\ InMemory([wcfg EXCEPT ![p] = v])
    /\ file' = wcfg'
    /\ Noticed
    /\ Told(p, v, TRUE)
    /\ dirty' = FALSE
    /\ UNCHANGED <<phase, cbVars, faults, crashes>>

\* The request is refused; what it did to the config in memory stays there.
Refuse(p, v, c) ==
    /\ Running
    /\ edits < MaxEdits /\ edits' = edits + 1
    /\ faults < MaxFaults /\ faults' = faults + 1
    /\ InMemory(c)
    /\ Told(p, v, FALSE)
    /\ UNCHANGED <<file, phase, pending, cbVars, missed, crashes>>

\* Slip: the handler returns the error and forgets the restore.
RollBackForgotten(p, v) == Refuse(p, v, [wcfg EXCEPT ![p] = v]) /\ UNCHANGED dirty

\* WriteFile fails, the handlers of sources restore what was there.
RollBack(p, v) == Refuse(p, v, wcfg) /\ UNCHANGED dirty

\* POST /api/sources: only source.Validate looks at the body, so an interval
\* or an empty ID that Load refuses gets in.
Create(p, v) ==
    /\ p \in IDs /\ wcfg[p] = Absent /\ v \in Values \cup {Bad}
    /\ Grant(p, v) \/ RollBack(p, v)

\* PUT /api/sources/{id}.
Update(p, v) ==
    /\ p \in IDs /\ wcfg[p] # Absent /\ v \in Values \cup {Bad}
    /\ Grant(p, v) \/ RollBack(p, v)

\* DELETE /api/sources/{id}.
Delete(p) ==
    /\ p \in IDs /\ wcfg[p] # Absent
    /\ Grant(p, Absent) \/ RollBack(p, Absent)

\* PUT /api/settings: the blocks are applied one after the other; a field that
\* is refused, or a failed write, leaves the earlier ones changed in memory.
ChangeSettings(v) ==
    /\ v \in Values
    /\ \/ Grant(Settings, v)
       \/ /\ Refuse(Settings, v, [wcfg EXCEPT ![Settings] = v])
          /\ dirty' = TRUE

-----------------------------------------------------------------------------
(* The file and its watcher.                                               *)

\* Somebody edits one part by hand, or breaks the whole file.
HandEdit(p, v) ==
    /\ file # NoFile
    /\ p \in IDs \/ v # Absent
    /\ v # file[p]
    /\ edits < MaxEdits /\ edits' = edits + 1
    /\ file' = [file EXCEPT ![p] = v]
    /\ answer' = Silence
    /\ Noticed
    /\ UNCHANGED <<phase, memVars, cbVars, dirty, faults, crashes>>

Watching == phase = "up"

\* The file was quiet for 200 ms: the callback runs in its own goroutine.
Fire(c) ==
    /\ Watching /\ pending /\ pc[c] = "idle"
    /\ pending' = FALSE
    /\ pc' = [pc EXCEPT ![c] = "load"]
    /\ overtaken' = (overtaken \/ \E d \in Callbacks : pc[d] # "idle")
    /\ answer' = Silence
    /\ UNCHANGED <<file, phase, memVars, new, given, dirty, missed, cntVars>>

\* Slip: the callback goes on with what it has when Load fails.
LoadConfigUnchecked(c) ==
    /\ pc[c] = "load"
    /\ new' = [new EXCEPT ![c] = file]
    /\ pc' = [pc EXCEPT ![c] = "daemon"]
    /\ answer' = Silence
    /\ UNCHANGED <<file, phase, memVars, pending, given, overtaken, dirty, missed, cntVars>>

\* config.Load in the callback; an error ends it.
LoadConfig(c) ==
    /\ pc[c] = "load"
    /\ \/ /\ Loadable(file)
          /\ new' = [new EXCEPT ![c] = file]
          /\ pc' = [pc EXCEPT ![c] = "daemon"]
       \/ /\ ~Loadable(file)
          /\ pc' = [pc EXCEPT ![c] = "idle"]
          /\ UNCHANGED new
    /\ answer' = Silence
    /\ UNCHANGED <<file, phase, memVars, pending, given, overtaken, dirty, missed, cntVars>>

\* d.Reload(newCfg): the daemon holds the new object, the web server not yet.
DaemonReload(c) ==
    /\ pc[c] = "daemon"
    /\ dcfg' = new[c]
    /\ shared' = FALSE
    /\ given' = c
    /\ pc' = [pc EXCEPT ![c] = "server"]
    /\ answer' = Silence
    /\ UNCHANGED <<file, phase, wcfg, pending, new, overtaken, dirty, missed, cntVars>>

\* Slip: token and address are taken over, w.cfg stays.
ServerReloadKeepsConfig(c) ==
    /\ pc[c] = "server"
    /\ given' = IF given = c THEN Nobody ELSE given
    /\ new' = [new EXCEPT ![c] = NoFile]
    /\ pc' = [pc EXCEPT ![c] = "idle"]
    /\ dirty' = FALSE /\ missed' = FALSE
    /\ answer' = Silence
    /\ UNCHANGED <<file, phase, wcfg, shared, dcfg, pending, overtaken, cntVars>>

\* ws.Reload(newCfg): the config of the web server is replaced, whatever was
\* changed in it since the file was loaded.
ServerReload(c) ==
    /\ pc[c] = "server"
    /\ wcfg' = new[c]
    /\ shared' = (given = c)
    /\ given' = IF given = c THEN Nobody ELSE given
    /\ new' = [new EXCEPT ![c] = NoFile]
    /\ pc' = [pc EXCEPT ![c] = "idle"]
    /\ dirty' = FALSE /\ missed' = FALSE
    /\ answer' = Silence
    /\ UNCHANGED <<file, phase, dcfg, pending, overtaken, cntVars>>

-----------------------------------------------------------------------------
(* The process.                                                            *)

\* main: config.Load; the daemon and the web server get the same object.
Boot ==
    /\ phase = "down" /\ Loadable(file)
    /\ phase' = "starting"
    /\ wcfg' = file /\ dcfg' = file /\ shared' = TRUE
    /\ dirty' = FALSE /\ missed' = FALSE /\ overtaken' = FALSE
    /\ answer' = Silence
    /\ UNCHANGED <<file, pending, pc, new, given, cntVars>>

\* EnsureForDaemon: os.WriteFile creates the file and then writes it.
GenerateBegins ==
    /\ phase = "down" /\ file = NoFile
    /\ phase' = "generating" /\ file' = EmptyFile
    /\ answer' = Silence
    /\ UNCHANGED <<memVars, pending, cbVars, dirty, missed, cntVars>>

GenerateEnds ==
    /\ phase = "generating"
    /\ phase' = "down" /\ file' = FirstFile
    /\ answer' = Silence
    /\ UNCHANGED <<memVars, pending, cbVars, dirty, missed, cntVars>>

StartWatcher ==
    /\ phase = "starting" /\ phase' = "up"
    /\ answer' = Silence
    /\ UNCHANGED <<file, memVars, pending, cbVars, dirty, missed, cntVars>>

\* The process ends at any point; what it had in memory is gone.
Crash ==
    /\ phase # "down"
    /\ crashes < MaxCrashes /\ crashes' = crashes + 1
    /\ phase' = "down"
    /\ wcfg' = NoFile /\ dcfg' = NoFile /\ shared' = TRUE
    /\ pending' = FALSE
    /\ pc' = Idle /\ new' = [c \in Callbacks |-> NoFile] /\ given' = Nobody
    /\ answer' = Silence
    /\ UNCHANGED <<file, overtaken, dirty, missed, edits, faults>>

Next ==
    \/ \E p \in IDs : Delete(p) \/ \E v \in Contents : Create(p, v) \/ Update(p, v)
    \/ \E v \in Values : ChangeSettings(v)
    \/ \E p \in Parts, v \in Contents : HandEdit(p, v)
    \/ \E c \in Callbacks :
          Fire(c) \/ LoadConfig(c) \/ DaemonReload(c) \/ ServerReload(c)
    \/ Boot \/ GenerateBegins \/ GenerateEnds \/ StartWatcher \/ Crash

Spec == Init /\ [][Next]_vars

\* Goroutines and timers run, and the service manager restarts the process.
FairSpec ==
    /\ Spec
    /\ \A c \in Callbacks :
          /\ WF_vars(Fire(c)) /\ WF_vars(LoadConfig(c))
          /\ WF_vars(DaemonReload(c)) /\ WF_vars(ServerReload(c))
    /\ WF_vars(Boot) /\ WF_vars(StartWatcher)
    /\ WF_vars(GenerateBegins) /\ WF_vars(GenerateEnds)

-----------------------------------------------------------------------------
Answers == {Silence} \cup [part : Parts, value : Contents, ok : BOOLEAN]

Loaded(c) == pc[c] \in {"daemon", "server"}

\* The variables hold what the code can hold; a config that waits to be
\* handed over is one that config.Load accepted.
TypeOK ==
    /\ file \in Config /\ wcfg \in Config /\ dcfg \in Config
    /\ shared \in BOOLEAN
    /\ phase \in {"down", "generating", "starting", "up"}
    /\ pending \in BOOLEAN
    /\ pc \in [Callbacks -> {"idle", "load", "daemon", "server"}]
    /\ new \in [Callbacks -> Config]
    /\ \A c \in Callbacks : Loaded(c) => Loadable(new[c])
    /\ given \in Callbacks \cup {Nobody}
    /\ answer \in Answers
    /\ dirty \in BOOLEAN /\ missed \in BOOLEAN /\ overtaken \in BOOLEAN
    /\ edits \in 0..MaxEdits /\ faults \in 0..MaxFaults /\ crashes \in 0..MaxCrashes

\* What part p may still be written back to: its value in the file, in the
\* web server's memory, and in every config on its way there.
Recent(p) ==
    {file[p]} \cup (IF Running THEN {wcfg[p]} ELSE {})
              \cup {new[c][p] : c \in {d \in Callbacks : Loaded(d)}}

\* The config file is a register with one value per part: a granted request
\* sets its part, the other parts keep their values or fall back to one that
\* is still in the memory of the process; a refused request for a source
\* leaves no trace (handleSources, handleSourceByID roll back), a refused
\* request for the settings may surface with a later one.
Register == INSTANCE ConfigRegister WITH
    Values <- Contents,
    Tentative <- {Settings},
    reg <- file,
    recent <- [p \in Parts |-> Recent(p)]
IsRegister == Register!Spec

\* No reload is due or under way.
Quiet == phase = "up" /\ ~pending /\ pc = Idle

\* Why memory and file may differ all the same: a request was refused after it
\* had changed memory, an edit came before the watcher, reloads overlapped.
Excused == dirty \/ missed \/ overtaken

\* Between reloads the web server and the daemon hold what a loadable file
\* says, and the same object: no request, rollback or reload lets them drift.
MemoryIsFile ==
    Quiet /\ ~Excused /\ Loadable(file) => wcfg = file /\ dcfg = file /\ shared

\* Again and again the process is up and follows the file, unless the file
\* cannot be loaded (main and the callback give up on it).
FileTakesEffect ==
    []<>(\/ phase = "up" /\ wcfg = file /\ dcfg = file
         \/ ~Loadable(file) /\ file # NoFile
         \/ Excused)

\* "Validate before committing: a malformed source would otherwise be written
\* to TOML and trigger a load error on the next reload, breaking all other
\* sources" (handleSources): a granted request leaves the file loadable.
GrantedIsLoadable ==
    [][(answer' # Silence /\ answer'.ok /\ Loadable(wcfg)) => Loadable(file')]_vars

=============================================================================
