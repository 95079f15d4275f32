-------------------------- MODULE ConfigSyncProofs --------------------------
(***************************************************************************)
(* Proofs about ConfigSync for every set of sources, values and watcher    *)
(* callbacks and every bound: between reloads memory is the file, and the  *)
(* file is a register that loses no granted edit of another part.          *)
(***************************************************************************)
EXTENDS ConfigSync, TLAPS

USE PartAssumption, ValueAssumption, NobodyAssumption, BoundAssumption

LEMMA FilesAreConfigs ==
    /\ NoFile \in Config /\ EmptyFile \in Config /\ FirstFile \in Config
    /\ \A p \in Parts : NoFile[p] = Absent
BY DEF NoFile, EmptyFile, FirstFile, Config, Contents, Parts

\* A callback has something in its hands only while the file is watched.
OnlyWhenUp == phase # "up" => ~pending /\ pc = Idle

\* Callbacks that did not overlap: one at most is under way, and the one that
\* gave its object to the daemon is the one the bookkeeping names.
OneAtATime ==
    ~overtaken =>
        /\ \A c, d \in Callbacks : pc[c] # "idle" /\ pc[d] # "idle" => c = d
        /\ \A c \in Callbacks : pc[c] = "server" => given = c
        /\ given = Nobody => shared

\* One object has one content, and the object the daemon was given last is
\* still the one the callback holds.
SameObject ==
    /\ shared => wcfg = dcfg
    /\ given \in Callbacks =>
          pc[given] = "server" /\ dcfg = new[given] /\ ~shared

\* What a callback holds is the file, unless the file changed again (then the
\* timer runs) or another callback overtook it.
LoadedIsFile ==
    ~overtaken /\ ~pending =>
        \A c \in Callbacks : Loaded(c) => new[c] = file

\* MemoryIsFile for the web server's copy, from the first moment on.
ServerIsFile ==
    Running /\ ~Excused /\ ~pending /\ pc = Idle /\ Loadable(file) =>
        wcfg = file

MemInv ==
    TypeOK /\ OnlyWhenUp /\ OneAtATime /\ SameObject /\ LoadedIsFile /\ ServerIsFile

-----------------------------------------------------------------------------
\* A request: the config in memory stays a config, and the daemon's copy
\* follows if it is the same object.
LEMMA InMemoryType ==
    ASSUME TypeOK, NEW p \in Parts, NEW v \in Contents
    PROVE  [wcfg EXCEPT ![p] = v] \in Config
BY DEF TypeOK, Config

LEMMA ToldType ==
    ASSUME NEW p \in Parts, NEW v \in Contents, NEW ok \in BOOLEAN
    PROVE  [part |-> p, value |-> v, ok |-> ok] \in Answers
BY DEF Answers

\* The whole request is one of these: a grant, a refusal that leaves no trace,
\* or refused settings that stay in memory.
LEMMA Requests ==
    /\ \A p \in IDs, v \in Contents :
          Create(p, v) \/ Update(p, v) => Grant(p, v) \/ RollBack(p, v)
    /\ \A p \in IDs : Delete(p) => Grant(p, Absent) \/ RollBack(p, Absent)
    /\ \A v \in Values :
          ChangeSettings(v) =>
             \/ Grant(Settings, v)
             \/ /\ Refuse(Settings, v, [wcfg EXCEPT ![Settings] = v])
                /\ dirty' = TRUE
    /\ IDs \subseteq Parts /\ Settings \in Parts
    /\ Values \subseteq Contents /\ Absent \in Contents
BY DEF Create, Update, Delete, ChangeSettings, Parts, Contents

\* Next, with the requests sorted by what they do.
LEMMA Steps ==
    ASSUME Next
    PROVE  \/ \E p \in Parts, v \in Contents : Grant(p, v)
           \/ \E p \in IDs, v \in Contents : RollBack(p, v)
           \/ \E v \in Values :
                 /\ Refuse(Settings, v, [wcfg EXCEPT ![Settings] = v])
                 /\ dirty' = TRUE
           \/ \E p \in Parts, v \in Contents : HandEdit(p, v)
           \/ \E c \in Callbacks :
                 Fire(c) \/ LoadConfig(c) \/ DaemonReload(c) \/ ServerReload(c)
           \/ Boot \/ GenerateBegins \/ GenerateEnds \/ StartWatcher \/ Crash
BY Requests DEF Next

LEMMA TypeInit == Init => TypeOK
<1> SUFFICES ASSUME Init PROVE TypeOK
  OBVIOUS
<1> USE DEF Init
<1>1. file \in Config /\ wcfg \in Config /\ dcfg \in Config
  BY FilesAreConfigs
<1>2. new \in [Callbacks -> Config]
  BY FilesAreConfigs
<1>3. /\ pc \in [Callbacks -> {"idle", "load", "daemon", "server"}]
      /\ \A c \in Callbacks : ~Loaded(c)
  BY DEF Idle, Loaded
<1>4. edits \in 0..MaxEdits /\ faults \in 0..MaxFaults /\ crashes \in 0..MaxCrashes
  OBVIOUS
<1>5. answer \in Answers
  BY DEF Answers
<1>6. QED
  BY <1>1, <1>2, <1>3, <1>4, <1>5 DEF TypeOK

LEMMA TypeNext == TypeOK /\ [Next]_vars => TypeOK'
<1> SUFFICES ASSUME TypeOK, [Next]_vars PROVE TypeOK'
  OBVIOUS
<1> USE DEF TypeOK
<1>1. ASSUME NEW p \in Parts, NEW v \in Contents, Grant(p, v) PROVE TypeOK'
  <2>1. file' \in Config /\ wcfg' \in Config /\ dcfg' \in Config
    BY <1>1, InMemoryType DEF Grant, InMemory
  <2>2. pending' \in BOOLEAN /\ missed' \in BOOLEAN /\ dirty' \in BOOLEAN
    BY <1>1 DEF Grant, Noticed
  <2>3. answer' \in Answers
    BY <1>1, ToldType DEF Grant, Told
  <2>4. edits' \in 0..MaxEdits /\ faults' \in 0..MaxFaults /\ crashes' \in 0..MaxCrashes
    BY <1>1 DEF Grant
  <2>5. UNCHANGED <<phase, cbVars, shared>>
    BY <1>1 DEF Grant, InMemory
  <2>6. QED
    BY <2>1, <2>2, <2>3, <2>4, <2>5 DEF cbVars, Loaded
<1>2. ASSUME NEW p \in Parts, NEW v \in Contents, NEW c \in Config,
             Refuse(p, v, c), dirty' \in BOOLEAN
      PROVE  TypeOK'
  <2>1. wcfg' \in Config /\ dcfg' \in Config
    BY <1>2 DEF Refuse, InMemory
  <2>2. answer' \in Answers
    BY <1>2, ToldType DEF Refuse, Told
  <2>3. edits' \in 0..MaxEdits /\ faults' \in 0..MaxFaults /\ crashes' \in 0..MaxCrashes
    BY <1>2 DEF Refuse
  <2>4. UNCHANGED <<file, phase, pending, cbVars, missed, shared>>
    BY <1>2 DEF Refuse, InMemory
  <2>5. QED
    BY <1>2, <2>1, <2>2, <2>3, <2>4 DEF cbVars, Loaded
<1>3. ASSUME NEW p \in IDs, NEW v \in Contents, RollBack(p, v) PROVE TypeOK'
  BY <1>2, <1>3 DEF RollBack, Parts
<1>4. ASSUME NEW v \in Values, dirty' = TRUE,
             Refuse(Settings, v, [wcfg EXCEPT ![Settings] = v])
      PROVE  TypeOK'
  BY <1>2, <1>4, InMemoryType DEF Parts, Contents
<1>5. ASSUME NEW p \in Parts, NEW v \in Contents, HandEdit(p, v) PROVE TypeOK'
  <2>1. [file EXCEPT ![p] = v] \in Config
    BY DEF Config
  <2>2. QED
    BY <1>5, <2>1 DEF HandEdit, Noticed, memVars, cbVars, Loaded, Answers
<1>6. ASSUME NEW c \in Callbacks, Fire(c) PROVE TypeOK'
  BY <1>6 DEF Fire, memVars, cntVars, Loaded, Answers
<1>7. ASSUME NEW c \in Callbacks, LoadConfig(c) PROVE TypeOK'
  BY <1>7 DEF LoadConfig, memVars, cntVars, Loaded, Answers
<1>8. ASSUME NEW c \in Callbacks, DaemonReload(c) PROVE TypeOK'
  BY <1>8 DEF DaemonReload, cntVars, Loaded, Answers
<1>9. ASSUME NEW c \in Callbacks, ServerReload(c) PROVE TypeOK'
  BY <1>9, FilesAreConfigs DEF ServerReload, cntVars, Loaded, Answers
<1>10. CASE Boot \/ GenerateBegins \/ GenerateEnds \/ StartWatcher
  BY <1>10, FilesAreConfigs
  DEF Boot, GenerateBegins, GenerateEnds, StartWatcher, memVars, cbVars,
      cntVars, Loaded, Answers
<1>11. CASE Crash
  <2>1. /\ wcfg' = NoFile /\ dcfg' = NoFile
        /\ new' \in [Callbacks -> Config]
        /\ pc' \in [Callbacks -> {"idle", "load", "daemon", "server"}]
        /\ \A c \in Callbacks : ~Loaded(c)'
    BY <1>11, FilesAreConfigs DEF Crash, Idle, Loaded
  <2>2. answer' \in Answers /\ crashes' \in 0..MaxCrashes
    BY <1>11 DEF Crash, Answers
  <2>3. QED
    BY <1>11, <2>1, <2>2, FilesAreConfigs DEF Crash
<1>12. CASE UNCHANGED vars
  BY <1>12 DEF vars, memVars, cbVars, cntVars, Loaded
<1>13. QED
  BY <1>1, <1>3, <1>4, <1>5, <1>6, <1>7, <1>8, <1>9, <1>10, <1>11, <1>12, Steps

\* Every variable keeps its type, and a callback holds only loadable configs.
THEOREM TypeCorrect == Spec => []TypeOK
BY TypeInit, TypeNext, PTL DEF Spec

-----------------------------------------------------------------------------
LEMMA MemInit == Init => MemInv
BY TypeInit
DEF Init, MemInv, OnlyWhenUp, OneAtATime, SameObject, LoadedIsFile,
    ServerIsFile, Idle, Loaded, Running

LEMMA MemNext == MemInv /\ [Next]_vars => MemInv'
<1> SUFFICES ASSUME MemInv, [Next]_vars PROVE MemInv'
  OBVIOUS
<1>0. TypeOK /\ TypeOK'
  BY TypeNext DEF MemInv
<1> DEFINE Rest == /\ OnlyWhenUp /\ OneAtATime /\ SameObject
                   /\ LoadedIsFile /\ ServerIsFile
<1> SUFFICES Rest'
  BY <1>0 DEF MemInv
<1> USE DEF MemInv, OnlyWhenUp, OneAtATime, SameObject, LoadedIsFile,
            ServerIsFile, Excused, Running, Idle, Loaded
<1>1. ASSUME NEW p \in Parts, NEW v \in Contents, Grant(p, v) PROVE Rest'
  <2>1. /\ file' = wcfg' /\ pending' = (phase = "up" \/ pending)
        /\ missed' = (phase = "starting" \/ missed) /\ dirty' = FALSE
        /\ dcfg' = IF shared THEN wcfg' ELSE dcfg
        /\ UNCHANGED <<shared, phase, pc, new, given, overtaken>>
        /\ phase \in {"starting", "up"}
    BY <1>1 DEF Grant, InMemory, Noticed, cbVars
  <2>2. QED
    BY <2>1, <1>0 DEF TypeOK
<1>2. ASSUME NEW p \in IDs, NEW v \in Contents, RollBack(p, v) PROVE Rest'
  <2>1. /\ wcfg' = wcfg /\ dcfg' = dcfg
        /\ UNCHANGED <<shared, phase, file, pending, pc, new, given,
                       overtaken, missed, dirty>>
    BY <1>2 DEF RollBack, Refuse, InMemory, cbVars
  <2>2. QED
    BY <2>1, <1>0 DEF TypeOK
<1>3. ASSUME NEW v \in Values, dirty' = TRUE,
             Refuse(Settings, v, [wcfg EXCEPT ![Settings] = v])
      PROVE  Rest'
  <2>1. /\ dcfg' = IF shared THEN wcfg' ELSE dcfg
        /\ UNCHANGED <<shared, phase, file, pending, pc, new, given,
                       overtaken, missed>>
    BY <1>3 DEF Refuse, InMemory, cbVars
  <2>2. QED
    BY <2>1, <1>3, <1>0 DEF TypeOK
<1>4. ASSUME NEW p \in Parts, NEW v \in Contents, HandEdit(p, v) PROVE Rest'
  BY <1>4, <1>0 DEF HandEdit, Noticed, memVars, cbVars, TypeOK
<1>5. ASSUME NEW c \in Callbacks, Fire(c) PROVE Rest'
  BY <1>5, <1>0 DEF Fire, Watching, memVars, TypeOK
<1>6. ASSUME NEW c \in Callbacks, LoadConfig(c) PROVE Rest'
  BY <1>6, <1>0 DEF LoadConfig, memVars, TypeOK
<1>7. ASSUME NEW c \in Callbacks, DaemonReload(c) PROVE Rest'
  BY <1>7, <1>0 DEF DaemonReload, TypeOK
<1>8. ASSUME NEW c \in Callbacks, ServerReload(c) PROVE Rest'
  BY <1>8, <1>0 DEF ServerReload, TypeOK
<1>9. CASE Boot
  BY <1>9, <1>0 DEF Boot, TypeOK
<1>10. CASE GenerateBegins \/ GenerateEnds \/ StartWatcher
  BY <1>10, <1>0
  DEF GenerateBegins, GenerateEnds, StartWatcher, memVars, cbVars, TypeOK
<1>11. CASE Crash
  BY <1>11, <1>0 DEF Crash, TypeOK
<1>12. CASE UNCHANGED vars
  BY <1>12 DEF vars, memVars, cbVars
<1>13. QED
  BY <1>1, <1>2, <1>3, <1>4, <1>5, <1>6, <1>7, <1>8, <1>9, <1>10, <1>11,
     <1>12, Steps

\* Between reloads the server and the daemon hold what a loadable file says,
\* and the same object.
THEOREM MemoryFollowsFile == Spec => []MemoryIsFile
<1>1. MemInv => MemoryIsFile
  <2> SUFFICES ASSUME MemInv, Quiet, ~Excused, Loadable(file)
               PROVE  wcfg = file /\ dcfg = file /\ shared
    BY DEF MemoryIsFile
  <2>1. given = Nobody
    BY DEF MemInv, TypeOK, SameObject, Quiet, Idle
  <2>2. shared
    BY <2>1 DEF MemInv, OneAtATime, Excused
  <2>3. QED
    BY <2>2 DEF MemInv, SameObject, ServerIsFile, Quiet, Running
<1>2. QED
  BY <1>1, MemInit, MemNext, PTL DEF Spec

-----------------------------------------------------------------------------
\* What is still around of a part after a step that gives the web server no
\* config but its own or a loaded one, and the callbacks none but the file's.
LEMMA NothingNew ==
    ASSUME TypeOK, TypeOK',
           Running' => \/ Running /\ wcfg' = wcfg
                       \/ wcfg' = file'
                       \/ \E c \in Callbacks : Loaded(c) /\ wcfg' = new[c],
           \A c \in Callbacks :
              Loaded(c)' => \/ new'[c] = file'
                            \/ Loaded(c) /\ new'[c] = new[c],
           answer' = Silence
    PROVE  Register!Next
<1>1. ASSUME NEW p \in Parts
      PROVE  Recent(p)' \subseteq Recent(p) \cup {file'[p]}
  BY DEF Recent
<1>2. Register!Silent
  BY <1>1 DEF Register!Silent, Register!Narrowed, Register!Nothing, Recent
<1>3. QED
  BY <1>2 DEF Register!Next, TypeOK, Config

\* The file is a register: a granted request sets its part and no other part
\* takes a value that nobody held; a refused one leaves no trace, unless it
\* was for the settings; no step without an answer invents a value.
THEOREM Refinement == Spec => IsRegister
<1>1. Init => Register!Init
  BY FilesAreConfigs
  DEF Init, Register!Init, Config, Recent, Running, Loaded, Idle
<1>2. TypeOK /\ [Next]_vars => [Register!Next]_(Register!vars)
  <2> SUFFICES ASSUME TypeOK, [Next]_vars
               PROVE  Register!Next \/ UNCHANGED Register!vars
    OBVIOUS
  <2>0. TypeOK'
    BY TypeNext
  <2>1. ASSUME NEW p \in Parts, NEW v \in Contents, Grant(p, v)
        PROVE  Register!Next
    <3>1. /\ Running /\ Running'
          /\ wcfg' = [wcfg EXCEPT ![p] = v] /\ file' = wcfg'
          /\ UNCHANGED <<pc, new>>
          /\ answer' = [part |-> p, value |-> v, ok |-> TRUE]
      BY <2>1 DEF Grant, InMemory, Told, cbVars, Running
    <3>2. file'[p] = v /\ \A q \in Parts \ {p} : file'[q] \in Recent(q)
      BY <3>1 DEF TypeOK, Config, Recent
    <3>3. ASSUME NEW q \in Parts
          PROVE  Recent(q)' \subseteq Recent(q) \cup {file'[q]}
      BY <3>1 DEF Recent, Loaded
    <3>4. Register!Grant(p, v)
      BY <3>1, <3>2, <3>3
      DEF Register!Grant, Register!Granted, Register!Narrowed,
          Register!Nothing, Recent
    <3>5. QED
      BY <3>4, <2>0 DEF Register!Next, TypeOK, Config
  <2>2. ASSUME NEW p \in Parts, NEW v \in Contents,
               Running, UNCHANGED <<file, phase, pc, new>>,
               answer' = [part |-> p, value |-> v, ok |-> FALSE],
               \A q \in Parts : \/ wcfg'[q] = wcfg[q]
                                \/ q = Settings /\ p = q /\ wcfg'[q] = v
        PROVE  Register!Next
    <3>1. ASSUME NEW q \in Parts
          PROVE  Recent(q)' \subseteq
                    Recent(q) \cup {file'[q]}
                       \cup (IF q = p /\ p \in {Settings} THEN {v} ELSE {})
      BY <2>2 DEF Recent, Loaded, Running
    <3>2. Register!Refuse(p, v)
      BY <2>2, <3>1
      DEF Register!Refuse, Register!Refused, Register!Narrowed, Recent
    <3>3. QED
      BY <3>2, <2>0 DEF Register!Next, TypeOK, Config
  <2>3. ASSUME NEW p \in IDs, NEW v \in Contents, RollBack(p, v)
        PROVE  Register!Next
    BY <2>2, <2>3 DEF RollBack, Refuse, InMemory, Told, cbVars, Parts
  <2>4. ASSUME NEW v \in Values,
               Refuse(Settings, v, [wcfg EXCEPT ![Settings] = v])
        PROVE  Register!Next
    <3>1. /\ Running /\ UNCHANGED <<file, phase, pc, new>>
          /\ answer' = [part |-> Settings, value |-> v, ok |-> FALSE]
          /\ wcfg' = [wcfg EXCEPT ![Settings] = v]
      BY <2>4 DEF Refuse, InMemory, Told, cbVars
    <3>2. \A q \in Parts :
             \/ wcfg'[q] = wcfg[q]
             \/ q = Settings /\ wcfg'[q] = v
      BY <3>1 DEF TypeOK, Config
    <3>3. Settings \in Parts /\ v \in Contents
      BY DEF Parts, Contents
    <3>4. QED
      BY <2>2, <3>1, <3>2, <3>3
  <2>5. ASSUME NEW p \in Parts, NEW v \in Contents, HandEdit(p, v)
        PROVE  Register!Next
    BY <2>5, <2>0, NothingNew
    DEF HandEdit, memVars, cbVars, Running, Loaded
  <2>6. ASSUME NEW c \in Callbacks,
               Fire(c) \/ LoadConfig(c) \/ DaemonReload(c)
        PROVE  Register!Next
    <3>1. /\ phase' = phase /\ wcfg' = wcfg /\ answer' = Silence
      BY <2>6 DEF Fire, LoadConfig, DaemonReload, memVars
    <3>2. \A d \in Callbacks :
             Loaded(d)' => \/ new'[d] = file'
                           \/ Loaded(d) /\ new'[d] = new[d]
      BY <2>6 DEF Fire, LoadConfig, DaemonReload, Loaded, TypeOK
    <3>3. QED
      BY <3>1, <3>2, <2>0, NothingNew DEF Running, Loaded
  <2>7. ASSUME NEW c \in Callbacks, ServerReload(c) PROVE Register!Next
    BY <2>7, <2>0, NothingNew DEF ServerReload, Loaded, TypeOK
  <2>8. CASE Boot \/ GenerateBegins \/ GenerateEnds \/ StartWatcher
    BY <2>8, <2>0, NothingNew
    DEF Boot, GenerateBegins, GenerateEnds, StartWatcher, memVars, cbVars,
        Running, Loaded
  <2>9. CASE Crash
    BY <2>9, <2>0, NothingNew DEF Crash, Running, Loaded, Idle
  <2>10. CASE UNCHANGED vars
    BY <2>10
    DEF vars, memVars, cbVars, Register!vars, Recent, Running, Loaded
  <2>11. QED
    BY <2>1, <2>3, <2>4, <2>5, <2>6, <2>7, <2>8, <2>9, <2>10, Steps
<1>3. QED
  BY <1>1, <1>2, TypeCorrect, PTL DEF Spec, IsRegister, Register!Spec

=============================================================================
