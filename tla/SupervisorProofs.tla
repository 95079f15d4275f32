------------------------- MODULE SupervisorProofs -------------------------
(***************************************************************************)
(* Proofs about Supervisor for every set of sources and configs, any       *)
(* number of watcher callbacks inside Reload at a time, and every bound.   *)
(***************************************************************************)
EXTENDS Supervisor, SequenceTheorems, WellFoundedInduction, TLAPS

USE RunnerAssumption, BoundAssumption

RunnerState ==
    [src : Sources \cup {NoRunner}, live : BOOLEAN,
     pc : {"free", "new", "checking", "waiting", "done"}, now : BOOLEAN]

\* A goroutine belongs to a source, a free slot to none; the source a loop is
\* about to start is a source.
Assigned ==
    /\ \A r \in Runners :
          IF runner[r].pc = "free" THEN runner[r] = Free
                                   ELSE runner[r].src \in Sources
    /\ \A t \in Threads : tpc[t] = "start" => pick[t] \in Sources

\* A callback that has loaded a config holds one until Prune is done with it.
Loaded ==
    \A t \in Threads : tpc[t] \in {"swap", "prune"} => tcfg[t] \in Configs

\* Once the root context is cancelled no runner is live; Stop is called after
\* that.
Stopping ==
    /\ ctxDone => \A r \in Runners : ~runner[r].live
    /\ main \in {"waiting", "exited"} => ctxDone

Inv == TypeOK /\ Assigned /\ Loaded /\ Stopping /\ LiveRunnersAreMapped

\* Cancelling a free slot leaves it free.
LEMMA FreeStays == [Free EXCEPT !.live = FALSE] = Free
<1>1. \A x \in RunnerState : ~x.live => [x EXCEPT !.live = FALSE] = x
  BY DEF RunnerState
<1>2. Free \in RunnerState /\ ~Free.live
  BY DEF Free, RunnerState
<1>3. QED
  BY <1>1, <1>2

\* Cancelling runners changes nothing but their contexts, except that it
\* forgets those that have returned.
LEMMA CancelledRunners ==
    ASSUME runner \in [Runners -> RunnerState], NEW rs
    PROVE  /\ Cancelled(rs) \in [Runners -> RunnerState]
           /\ \A r \in Runners :
                 /\ r \notin rs => Cancelled(rs)[r] = runner[r]
                 /\ r \in rs => ~Cancelled(rs)[r].live
                 /\ runner[r] = Free => Cancelled(rs)[r] = Free
                 /\ \/ Cancelled(rs)[r] = Free
                    \/ /\ Cancelled(rs)[r].src = runner[r].src
                       /\ Cancelled(rs)[r].pc = runner[r].pc
                       /\ Cancelled(rs)[r].live => runner[r].live
<1> DEFINE C(r) == IF r \notin rs THEN runner[r]
                   ELSE IF runner[r].pc = "done" THEN Free
                   ELSE [runner[r] EXCEPT !.live = FALSE]
<1>1. Cancelled(rs) = [r \in Runners |-> C(r)]
  BY DEF Cancelled
<1>2. Free \in RunnerState /\ ~Free.live
  BY DEF Free, RunnerState
<1>3. ASSUME NEW r \in Runners
      PROVE  /\ C(r) \in RunnerState
             /\ r \notin rs => C(r) = runner[r]
             /\ r \in rs => ~C(r).live
             /\ runner[r] = Free => C(r) = Free
             /\ \/ C(r) = Free
                \/ /\ C(r).src = runner[r].src
                   /\ C(r).pc = runner[r].pc
                   /\ C(r).live => runner[r].live
  <2>1. runner[r] \in RunnerState
    OBVIOUS
  <2>2. CASE r \in rs /\ runner[r].pc = "done"
    <3>1. C(r) = Free
      BY <2>2
    <3>2. QED
      BY <1>2, <2>2, <3>1
  <2>3. CASE r \in rs /\ runner[r].pc # "done"
    <3>1. C(r) = [runner[r] EXCEPT !.live = FALSE]
      BY <2>3
    <3>2. QED
      BY <2>1, <2>3, <3>1, FreeStays DEF RunnerState
  <2>4. CASE r \notin rs
    <3>1. C(r) = runner[r]
      BY <2>4
    <3>2. QED
      BY <2>1, <2>4, <3>1
  <2>5. QED
    BY <2>2, <2>3, <2>4
<1> HIDE DEF C
<1>4. QED
  BY <1>1, <1>3

\* The sources of a config are source IDs.
LEMMA ConfigIDs ==
    ASSUME NEW cfg \in Configs
    PROVE  /\ Len(cfg) \in Nat
           /\ \A i \in 1..Len(cfg) : cfg[i].id \in Sources
           /\ IDs(cfg) \subseteq Sources
<1>1. cfg \in Seq([id : Sources, on : BOOLEAN])
  BY ConfigAssumption
<1>2. \A i \in 1..Len(cfg) : cfg[i] \in [id : Sources, on : BOOLEAN]
  BY <1>1, ElementOfSeq
<1>3. \A i \in 1..Len(cfg) : cfg[i].id \in Sources
  BY <1>2
<1>4. QED
  BY <1>1, <1>3 DEF IDs

LEMMA TypeInit == Init => TypeOK
<1> SUFFICES ASSUME Init PROVE TypeOK
  OBVIOUS
<1>1. dcfg \in Configs /\ entries \in SUBSET Sources
  BY ConfigIDs DEF Init
<1>2. runner \in [Runners -> RunnerState]
  BY DEF Init, Free, RunnerState
<1>3. QED
  BY <1>1, <1>2 DEF Init, TypeOK, NoRequest, RunnerState, Threads

LEMMA TypeNext == TypeOK /\ Assigned /\ Loaded /\ [Next]_vars => TypeOK'
<1> SUFFICES ASSUME TypeOK, Assigned, Loaded, [Next]_vars PROVE TypeOK'
  OBVIOUS
<1> USE DEF sysVars, fileVars, thrVars, callVars, histVars
<1>0. runner \in [Runners -> RunnerState]
  BY DEF TypeOK, RunnerState
<1>1. ASSUME NEW t \in Threads, Fire(t) PROVE TypeOK'
  BY <1>1 DEF Fire, TypeOK
<1>2. ASSUME NEW t \in Threads, LoadConfig(t) PROVE TypeOK'
  BY <1>2 DEF LoadConfig, TypeOK
<1>3. ASSUME NEW t \in Threads, SwapConfig(t) PROVE TypeOK'
  BY <1>3 DEF SwapConfig, TypeOK, Loaded
<1>4. ASSUME NEW t \in Threads, Prune(t) PROVE TypeOK'
  BY <1>4 DEF Prune, TypeOK
<1>5. ASSUME NEW t \in Threads, CancelAll(t) PROVE TypeOK'
  <2>1. panicked' \in BOOLEAN
    BY <1>5, Zenon DEF CancelAll, MapWrite, TypeOK
  <2>2. runner' \in [Runners -> RunnerState]
    BY <1>5, <1>0, CancelledRunners DEF CancelAll
  <2>3. QED
    BY <1>5, <2>1, <2>2 DEF CancelAll, TypeOK, RunnerState
<1>6. ASSUME NEW t \in Threads, RangeConfig(t) PROVE TypeOK'
  BY <1>6, ConfigIDs DEF RangeConfig, RangeTo, TypeOK
<1>7. ASSUME NEW t \in Threads, PickSource(t) PROVE TypeOK'
  BY <1>7, ConfigIDs DEF PickSource, TypeOK
<1>8. ASSUME NEW t \in Threads, StartOne(t) PROVE TypeOK'
  <2>1. PICK r \in Runners :
           /\ runner' = [Cancelled(Replaced(pick[t])) EXCEPT
                 ![r] = [src |-> pick[t], live |-> ~ctxDone, pc |-> "new",
                         now |-> FALSE]]
           /\ map' = [map EXCEPT ![pick[t]] = r]
    BY <1>8 DEF StartOne, Launch
  <2>2. [src |-> pick[t], live |-> ~ctxDone, pc |-> "new", now |-> FALSE]
            \in RunnerState
    BY DEF TypeOK, RunnerState
  <2>3. runner' \in [Runners -> RunnerState]
    BY <1>0, <2>1, <2>2, CancelledRunners
  <2>4. panicked' \in BOOLEAN
    BY <1>8, Zenon DEF StartOne, Launch, MapWrite, TypeOK
  <2>5. map' \in [Sources -> Runners \cup {NoRunner}]
    BY <2>1 DEF TypeOK
  <2>6. strays' \in SUBSET Sources
    BY <1>8 DEF StartOne, Launch, TypeOK, Assigned
  <2>7. QED
    BY <1>8, <2>3, <2>4, <2>5, <2>6 DEF StartOne, Launch, TypeOK, RunnerState
<1>9. ASSUME NEW t \in Threads, StartReturns(t) PROVE TypeOK'
  BY <1>9 DEF StartReturns, TypeOK
<1>10. ASSUME NEW r \in Runners, FirstCheck(r) PROVE TypeOK'
  BY <1>10 DEF FirstCheck, CheckBegins, TypeOK
<1>11. ASSUME NEW r \in Runners, TimerCheck(r) PROVE TypeOK'
  BY <1>11 DEF TimerCheck, CheckBegins, TypeOK
<1>12. ASSUME NEW r \in Runners, TriggeredCheck(r) PROVE TypeOK'
  BY <1>12 DEF TriggeredCheck, CheckBegins, TypeOK
<1>13. ASSUME NEW r \in Runners, EndCheck(r) PROVE TypeOK'
  BY <1>13 DEF EndCheck, TypeOK, Assigned
<1>14. ASSUME NEW r \in Runners, Quit(r) PROVE TypeOK'
  BY <1>14 DEF Quit, TypeOK, Free
<1>15. ASSUME NEW c \in Callers, Send(c) PROVE TypeOK'
  <2> DEFINE q == request[c]
  <2>1. q \in Runners
    BY <1>15 DEF Send, TypeOK, NoRequest
  <2>2. (runner[q].now \/ runner[q].pc # "free") \in BOOLEAN
    OBVIOUS
  <2>3. runner' \in [Runners -> RunnerState]
    BY <1>0, <1>15, <2>1, <2>2 DEF Send, RunnerState
  <2>4. request' \in [Callers -> Runners \cup {NoRequest}]
    BY <1>15 DEF Send, TypeOK, NoRequest
  <2>5. QED
    BY <1>15, <2>3, <2>4 DEF Send, TypeOK, RunnerState
<1>16. ASSUME NEW c \in Callers, NEW s \in Sources, Lookup(c, s) PROVE TypeOK'
  BY <1>16 DEF Lookup, TypeOK, NoRequest
<1>17. CASE StartWatcher
  BY <1>17 DEF StartWatcher, TypeOK
<1>18. CASE StopCancel
  BY <1>18 DEF StopCancel, TypeOK
<1>19. CASE StopReturns
  BY <1>19 DEF StopReturns, TypeOK
<1>20. CASE Edit
  <2>1. pending' \in BOOLEAN /\ missed' \in BOOLEAN
    BY <1>20, Zenon DEF Edit, Armed, TypeOK
  <2>2. QED
    BY <1>20, <2>1 DEF Edit, TypeOK
<1>21. CASE Signal
  BY <1>21 DEF Signal, TypeOK
<1>22. CASE UNCHANGED vars
  BY <1>22 DEF vars, TypeOK
<1>23. QED
  BY <1>1, <1>2, <1>3, <1>4, <1>5, <1>6, <1>7, <1>8, <1>9, <1>10, <1>11, <1>12,
     <1>13, <1>14, <1>15, <1>16, <1>17, <1>18, <1>19, <1>20, <1>21, <1>22
     DEF Next, ThreadStep, RunnerStep, MainStep

LEMMA LoadedNext == TypeOK /\ Loaded /\ [Next]_vars => Loaded'
<1> SUFFICES ASSUME TypeOK, Loaded, [Next]_vars PROVE Loaded'
  OBVIOUS
<1> USE DEF thrVars
<1>0. tpc = [u \in Threads |-> tpc[u]] /\ tcfg = [u \in Threads |-> tcfg[u]]
  BY DEF TypeOK
<1>1. ASSUME NEW t \in Threads, LoadConfig(t) PROVE Loaded'
  <2>1. /\ \A u \in Threads \ {t} : tpc'[u] = tpc[u] /\ tcfg'[u] = tcfg[u]
        /\ tpc'[t] = "idle" \/ tcfg'[t] \in Configs
    BY <1>0, <1>1 DEF LoadConfig, TypeOK
  <2>2. QED
    BY <2>1 DEF Loaded
<1>2. ASSUME NEW t \in Threads, SwapConfig(t) PROVE Loaded'
  BY <1>0, <1>2 DEF SwapConfig, Loaded
<1>3. ASSUME NEW t \in Threads, Prune(t) PROVE Loaded'
  <2>1. /\ \A u \in Threads \ {t} : tpc'[u] = tpc[u] /\ tcfg'[u] = tcfg[u]
        /\ tpc'[t] = "cancel"
    BY <1>0, <1>3 DEF Prune
  <2>2. QED
    BY <2>1 DEF Loaded
<1>4. ASSUME NEW t \in Threads,
             \/ Fire(t) \/ CancelAll(t) \/ RangeConfig(t) \/ PickSource(t)
             \/ StartOne(t) \/ StartReturns(t)
      PROVE  Loaded'
  <2>1. /\ tcfg' = tcfg
        /\ \A u \in Threads : tpc'[u] \in {"swap", "prune"} => tpc[u] = tpc'[u]
    BY <1>0, <1>4 DEF Fire, CancelAll, RangeConfig, RangeTo, PickSource,
                      StartOne, Launch, StartReturns
  <2>2. QED
    BY <2>1 DEF Loaded
<1>5. ASSUME UNCHANGED <<tpc, tcfg>> PROVE Loaded'
  BY <1>5 DEF Loaded
<1>6. ASSUME NEW r \in Runners, RunnerStep(r) \/ TimerCheck(r) PROVE Loaded'
  BY <1>5, <1>6 DEF RunnerStep, FirstCheck, TimerCheck, TriggeredCheck,
                    CheckBegins, EndCheck, Quit
<1>7. ASSUME NEW c \in Callers, Send(c) \/ \E s \in Sources : Lookup(c, s)
      PROVE  Loaded'
  BY <1>5, <1>7 DEF Send, Lookup
<1>8. CASE MainStep \/ Edit \/ Signal \/ UNCHANGED vars
  BY <1>5, <1>8 DEF MainStep, StartWatcher, StopCancel, StopReturns, Edit,
                    Signal, vars
<1>9. QED
  BY <1>1, <1>2, <1>3, <1>4, <1>6, <1>7, <1>8 DEF Next, ThreadStep

\* Steps that touch neither the runners, nor the map, nor the threads.
LEMMA QuietStep ==
    ASSUME Inv, UNCHANGED <<runner, map, tpc, pick>>,
           ctxDone' = ctxDone,
           main' = main \/ main' \notin {"waiting", "exited"}
    PROVE  Assigned' /\ Stopping' /\ LiveRunnersAreMapped'
BY DEF Inv, Assigned, Stopping, LiveRunnersAreMapped

\* Steps of a runner that keep its source and do not revive it.
LEMMA StepOfRunner ==
    ASSUME Inv, UNCHANGED <<map, tpc, pick, ctxDone, main>>,
           NEW r \in Runners,
           \A q \in Runners \ {r} : runner'[q] = runner[q],
           \/ runner'[r] = Free
           \/ /\ runner[r].pc # "free" /\ runner'[r].pc # "free"
              /\ runner'[r].src = runner[r].src
              /\ runner'[r].live = runner[r].live,
           ~runner[r].live \/ runner'[r] # Free
    PROVE  Assigned' /\ Stopping' /\ LiveRunnersAreMapped'
<1>1. ~Free.live /\ Free.pc = "free"
  BY DEF Free
<1>2. \A q \in Runners :
         /\ runner'[q].live => runner[q].live /\ runner'[q].src = runner[q].src
         /\ IF runner'[q].pc = "free" THEN runner'[q] = Free
                                      ELSE runner'[q].src \in Sources
  BY <1>1 DEF Inv, Assigned
<1>3. Assigned'
  BY <1>2 DEF Inv, Assigned
<1>4. Stopping'
  BY <1>2 DEF Inv, Stopping
<1>5. LiveRunnersAreMapped'
  BY <1>2 DEF Inv, LiveRunnersAreMapped
<1>6. QED
  BY <1>3, <1>4, <1>5

\* The inductive step: no step of any thread, runner or request loses track
\* of a live runner.
LEMMA InvNext == Inv /\ [Next]_vars => Inv'
<1> SUFFICES ASSUME Inv, [Next]_vars
             PROVE  Assigned' /\ Stopping' /\ LiveRunnersAreMapped'
  BY TypeNext, LoadedNext DEF Inv
<1> USE DEF sysVars, fileVars, thrVars, callVars, histVars
<1>0. /\ runner \in [Runners -> RunnerState]
      /\ tpc = [u \in Threads |-> tpc[u]] /\ pick = [u \in Threads |-> pick[u]]
      /\ Free.pc = "free" /\ ~Free.live
  BY DEF Inv, TypeOK, RunnerState, Free
<1>1. ASSUME NEW t \in Threads,
             \/ Fire(t) \/ LoadConfig(t) \/ SwapConfig(t) \/ Prune(t)
             \/ RangeConfig(t) \/ StartReturns(t)
      PROVE  Assigned' /\ Stopping' /\ LiveRunnersAreMapped'
  <2>1. /\ UNCHANGED <<runner, map, pick, ctxDone>>
        /\ main' = main \/ main' = "web"
        /\ \A u \in Threads : tpc'[u] = "start" => tpc[u] = "start"
    BY <1>0, <1>1 DEF Fire, LoadConfig, SwapConfig, Prune, RangeConfig, RangeTo,
                      StartReturns
  <2>2. QED
    BY <2>1 DEF Inv, Assigned, Stopping, LiveRunnersAreMapped
<1>2. ASSUME NEW t \in Threads, PickSource(t)
      PROVE  Assigned' /\ Stopping' /\ LiveRunnersAreMapped'
  <2>1. UNCHANGED <<runner, map, main, ctxDone>>
    BY <1>2 DEF PickSource
  <2>2. \A i \in 1..Len(dcfg) : dcfg[i].id \in Sources
    BY ConfigIDs DEF Inv, TypeOK
  <2>3. \A u \in Threads : tpc'[u] = "start" => pick'[u] \in Sources
    BY <1>0, <1>2, <2>2 DEF PickSource, Inv, Assigned
  <2>4. QED
    BY <2>1, <2>3 DEF Inv, Assigned, Stopping, LiveRunnersAreMapped
<1>3. ASSUME NEW t \in Threads, CancelAll(t)
      PROVE  Assigned' /\ Stopping' /\ LiveRunnersAreMapped'
  <2>1. /\ runner' = Cancelled(Mapped)
        /\ UNCHANGED <<pick, main, ctxDone>>
        /\ \A u \in Threads : tpc'[u] = "start" => tpc[u] = "start"
    BY <1>0, <1>3 DEF CancelAll
  <2>2. \A r \in Runners : runner[r].live => r \in Mapped
    BY <1>0 DEF Inv, LiveRunnersAreMapped, Assigned, Mapped, Free
  <2>3. \A r \in Runners : ~runner'[r].live
    BY <1>0, <2>1, <2>2, CancelledRunners DEF Free
  <2>4. \A r \in Runners :
           IF runner'[r].pc = "free" THEN runner'[r] = Free
                                     ELSE runner'[r].src \in Sources
    BY <1>0, <2>1, CancelledRunners DEF Inv, Assigned
  <2>5. QED
    BY <2>1, <2>3, <2>4 DEF Inv, Assigned, Stopping, LiveRunnersAreMapped
<1>4. ASSUME NEW t \in Threads, StartOne(t)
      PROVE  Assigned' /\ Stopping' /\ LiveRunnersAreMapped'
  <2> DEFINE s == pick[t]
             before == Cancelled(Replaced(s))
             fresh == [src |-> s, live |-> ~ctxDone, pc |-> "new", now |-> FALSE]
  <2>1. PICK r \in Runners : /\ runner' = [before EXCEPT ![r] = fresh]
                             /\ map' = [map EXCEPT ![s] = r]
    BY <1>4 DEF StartOne, Launch
  <2>2. /\ UNCHANGED <<main, ctxDone>>
        /\ s \in Sources
        /\ \A u \in Threads :
              tpc'[u] = "start" => tpc[u] = "start" /\ pick'[u] = pick[u]
    BY <1>0, <1>4 DEF StartOne, Launch, Inv, Assigned
  <2>3. /\ before \in [Runners -> RunnerState]
        /\ \A q \in Runners :
              /\ q \in Replaced(s) => ~before[q].live
              /\ runner[q] = Free => before[q] = Free
              /\ \/ before[q] = Free
                 \/ /\ before[q].src = runner[q].src
                    /\ before[q].pc = runner[q].pc
                    /\ before[q].live => runner[q].live
    BY <1>0, CancelledRunners
  <2>f. fresh.src = s /\ fresh.pc = "new" /\ fresh.live = ~ctxDone
    OBVIOUS
  <2> HIDE DEF before, fresh
  <2>4. \A q \in Runners \ {r} : runner'[q] = before[q]
    BY <2>1, <2>3
  <2>5. runner'[r] = fresh
    BY <2>1, <2>3
  <2>6. \A q \in Runners \ {r} : before[q].live => runner[q].live
    BY <2>3 DEF Free
  <2>7. Assigned'
    BY <1>0, <2>2, <2>3, <2>4, <2>5, <2>f DEF Inv, Assigned
  <2>8. Stopping'
    BY <2>2, <2>4, <2>5, <2>6, <2>f DEF Inv, Stopping
  <2>9. ASSUME NEW q \in Runners \ {r}, before[q].live
        PROVE  map'[before[q].src] = q
    <3>1. before[q].src = runner[q].src /\ runner[q].live
      BY <2>3, <2>9 DEF Free
    <3>2. map[runner[q].src] = q /\ runner[q].src \in Sources
      BY <3>1 DEF Inv, LiveRunnersAreMapped, Assigned, Free
    <3>3. q \in Replaced(s) \/ runner[q].src # s
      BY <3>2 DEF Replaced
    <3>4. runner[q].src # s
      BY <2>3, <2>9, <3>3
    <3>5. QED
      BY <2>1, <3>1, <3>2, <3>4 DEF Inv, TypeOK
  <2>10. map'[s] = r
    BY <2>1, <2>2 DEF Inv, TypeOK
  <2>11. LiveRunnersAreMapped'
    BY <2>4, <2>5, <2>9, <2>10, <2>f DEF LiveRunnersAreMapped
  <2>12. QED
    BY <2>7, <2>8, <2>11
<1>5. ASSUME NEW r \in Runners, FirstCheck(r)
      PROVE  Assigned' /\ Stopping' /\ LiveRunnersAreMapped'
  BY <1>0, <1>5, StepOfRunner DEF FirstCheck, CheckBegins, RunnerState, Free
<1>6. ASSUME NEW r \in Runners, TimerCheck(r)
      PROVE  Assigned' /\ Stopping' /\ LiveRunnersAreMapped'
  BY <1>0, <1>6, StepOfRunner DEF TimerCheck, CheckBegins, RunnerState, Free
<1>7. ASSUME NEW r \in Runners, TriggeredCheck(r)
      PROVE  Assigned' /\ Stopping' /\ LiveRunnersAreMapped'
  BY <1>0, <1>7, StepOfRunner DEF TriggeredCheck, CheckBegins, RunnerState, Free
<1>8. ASSUME NEW r \in Runners, EndCheck(r)
      PROVE  Assigned' /\ Stopping' /\ LiveRunnersAreMapped'
  BY <1>0, <1>8, StepOfRunner DEF EndCheck, RunnerState, Free
<1>9. ASSUME NEW r \in Runners, Quit(r)
      PROVE  Assigned' /\ Stopping' /\ LiveRunnersAreMapped'
  BY <1>0, <1>9, StepOfRunner DEF Quit, RunnerState, Free
<1>10. ASSUME NEW c \in Callers, Send(c)
       PROVE  Assigned' /\ Stopping' /\ LiveRunnersAreMapped'
  <2> DEFINE q == request[c]
  <2>1. /\ UNCHANGED <<map, tpc, pick, ctxDone, main>>
        /\ q \in Runners
        /\ runner' = [runner EXCEPT ![q].now = @ \/ runner[q].pc # "free"]
    BY <1>10 DEF Send, Inv, TypeOK, NoRequest
  <2>2. CASE runner[q].pc # "free"
    BY <1>0, <2>1, <2>2, StepOfRunner DEF RunnerState, Free
  <2>3. CASE runner[q].pc = "free"
    <3>1. runner[q] = Free
      BY <2>1, <2>3 DEF Inv, Assigned
    <3>2. (runner[q].now \/ runner[q].pc # "free") = runner[q].now
      <4>1. runner[q].now \in BOOLEAN
        BY <1>0, <2>1 DEF RunnerState
      <4>2. QED
        BY <2>3, <4>1
    <3>3. runner' = runner
      BY <1>0, <2>1, <3>2 DEF RunnerState
    <3>4. QED
      BY <2>1, <3>3, QuietStep
  <2>4. QED
    BY <2>2, <2>3
<1>11. ASSUME NEW c \in Callers, NEW s \in Sources, Lookup(c, s)
       PROVE  Assigned' /\ Stopping' /\ LiveRunnersAreMapped'
  BY <1>11, QuietStep DEF Lookup
<1>12. CASE StartWatcher
  BY <1>12, QuietStep DEF StartWatcher
<1>13. CASE Edit
  BY <1>13, QuietStep DEF Edit
<1>14. CASE Signal \/ StopCancel
  <2>1. UNCHANGED <<map, tpc, pick>>
    BY <1>14 DEF Signal, StopCancel
  <2>2. ASSUME NEW r \in Runners
        PROVE  \/ runner'[r] = [runner[r] EXCEPT !.live = FALSE]
               \/ runner'[r] = runner[r] /\ ~runner[r].live
    <3>1. CASE Signal
      BY <1>0, <3>1 DEF Signal
    <3>2. CASE StopCancel
      BY <1>0, <3>2 DEF StopCancel, Inv, Stopping
    <3>3. QED
      BY <1>14, <3>1, <3>2
  <2>3. ASSUME NEW r \in Runners
        PROVE  /\ runner'[r].src = runner[r].src /\ runner'[r].pc = runner[r].pc
               /\ ~runner'[r].live
               /\ runner[r] = Free => runner'[r] = Free
    BY <1>0, <2>2, FreeStays DEF RunnerState
  <2>4. ctxDone'
    BY <1>14 DEF Signal, StopCancel
  <2>5. Assigned'
    BY <2>1, <2>3 DEF Inv, Assigned
  <2>6. QED
    BY <2>3, <2>4, <2>5 DEF Stopping, LiveRunnersAreMapped
<1>15. CASE StopReturns
  BY <1>15 DEF StopReturns, Inv, Assigned, Stopping, LiveRunnersAreMapped
<1>16. CASE UNCHANGED vars
  BY <1>16, QuietStep DEF vars
<1>17. QED
  BY <1>1, <1>2, <1>3, <1>4, <1>5, <1>6, <1>7, <1>8, <1>9, <1>10, <1>11, <1>12,
     <1>13, <1>14, <1>15, <1>16 DEF Next, ThreadStep, RunnerStep, MainStep

LEMMA InvInit == Init => Inv
<1>1. Init => Assigned /\ Loaded /\ Stopping /\ LiveRunnersAreMapped
  BY DEF Init, Assigned, Loaded, Stopping, LiveRunnersAreMapped, Free
<1>2. QED
  BY <1>1, TypeInit DEF Inv

\* Every variable of the supervisor keeps its type.
THEOREM TypeCorrect == Spec => []TypeOK
<1>1. Inv => TypeOK
  BY DEF Inv
<1>2. QED
  BY <1>1, InvInit, InvNext, PTL DEF Spec

\* No goroutine escapes the supervisor, however many reloads overlap: a runner
\* whose context is not cancelled is the one in the map under its source.
THEOREM NoRunnerEscapes == Spec => []LiveRunnersAreMapped
<1>1. Inv => LiveRunnersAreMapped
  BY DEF Inv
<1>2. QED
  BY <1>1, InvInit, InvNext, PTL DEF Spec

-----------------------------------------------------------------------------
(* What a reload brings about, with any number of callbacks inside Reload. *)

\* A runner is in the map under its own source.
Filed ==
    \A s \in Sources : map[s] # NoRunner =>
        runner[map[s]].src = s /\ runner[map[s]].pc # "free"

\* Thread t is going to start a runner for source s of the config in force.
WillStart(t, s) ==
    \/ tpc[t] = "range"
    \/ tpc[t] = "start" /\ pick[t] = s
    \/ /\ tpc[t] \in {"loop", "start"}
       /\ \E i \in todo[t] \cap (1..Len(dcfg)) : dcfg[i].on /\ dcfg[i].id = s

\* Unless a thread is about to cancel all runners, every enabled source of the
\* config in force runs or is going to be started, and what else runs was
\* picked from a config that is not in force any more.
InForce ==
    ~ctxDone /\ ~panicked /\ (\A t \in Threads : tpc[t] \notin {"prune", "cancel"}) =>
        /\ \A s \in On(dcfg) : s \in LiveSources \/ \E t \in Threads : WillStart(t, s)
        /\ LiveSources \subseteq On(dcfg) \cup strays

\* When every edit was seen, no timer runs and nobody is about to read the
\* file: the thread that read it last holds what the file holds, or has put it
\* in force, and then an older callback may have overtaken it.
LastLoaded ==
    ~ctxDone /\ ~missed /\ ~pending /\ (\A t \in Threads : tpc[t] # "load") =>
        \/ file = BadConfig
        \/ IF tpc[last] = "swap" THEN tcfg[last] = file
                                 ELSE overtaken \/ dcfg = file

ReloadInv == Filed /\ InForce /\ LastLoaded

\* The loop takes one of the indices that are left.
LEMMA FirstIsLeft ==
    ASSUME NEW is \in SUBSET Nat, is # {}
    PROVE  First(is) \in is
<1> DEFINE Less == {ss \in Nat \X Nat : ss[1] < ss[2]}
<1>1. IsWellFoundedOn(Less, Nat)
  BY NatLessThanWellFounded DEF OpToRel
<1>2. PICK x \in is : \A y \in is : ~(<<y, x>> \in Less)
  BY <1>1, WFMin
<1>3. \A y \in is : x <= y
  <2> TAKE y \in is
  <2>1. x \in Nat /\ y \in Nat
    OBVIOUS
  <2>2. y < x => <<y, x>> \in Less
    BY <2>1
  <2>3. QED
    BY <1>2, <2>1, <2>2
<1>4. QED
  BY <1>3 DEF First

\* The context of runDaemon stays cancelled.
LEMMA StopIsFinal == ASSUME [Next]_vars, ctxDone PROVE ctxDone'
<1> USE DEF sysVars
<1>1. ASSUME NEW t \in Threads, ThreadStep(t) PROVE ctxDone'
  BY <1>1 DEF ThreadStep, Fire, LoadConfig, SwapConfig, Prune, CancelAll,
              RangeConfig, RangeTo, PickSource, StartOne, Launch, StartReturns
<1>2. ASSUME NEW r \in Runners, RunnerStep(r) \/ TimerCheck(r) PROVE ctxDone'
  BY <1>2 DEF RunnerStep, FirstCheck, TimerCheck, TriggeredCheck, CheckBegins,
              EndCheck, Quit
<1>3. ASSUME NEW c \in Callers, Send(c) \/ \E s \in Sources : Lookup(c, s)
      PROVE  ctxDone'
  BY <1>3 DEF Send, Lookup
<1>4. CASE MainStep \/ Edit \/ Signal \/ UNCHANGED vars
  BY <1>4 DEF MainStep, StartWatcher, StopCancel, StopReturns, Edit, Signal, vars
<1>5. QED
  BY <1>1, <1>2, <1>3, <1>4 DEF Next

\* What startOne does to the runners.
LEMMA LaunchStep ==
    ASSUME Inv, Filed, NEW t \in Threads, StartOne(t)
    PROVE  /\ pick[t] \in Sources
           /\ \E r \in Runners :
                 /\ runner[r] = Free
                 /\ map' = [map EXCEPT ![pick[t]] = r]
                 /\ runner'[r].src = pick[t]
                 /\ runner'[r].live = ~ctxDone
                 /\ runner'[r].pc = "new"
                 /\ \A q \in Runners \ {r} :
                       IF q = map[pick[t]] THEN ~runner'[q].live
                                           ELSE runner'[q] = runner[q]
<1> DEFINE s == pick[t]
           before == Cancelled(Replaced(s))
           fresh == [src |-> s, live |-> ~ctxDone, pc |-> "new", now |-> FALSE]
<1>1. s \in Sources
  BY DEF StartOne, Launch, Inv, Assigned
<1>2. PICK r \in Runners : /\ runner[r] = Free
                           /\ runner' = [before EXCEPT ![r] = fresh]
                           /\ map' = [map EXCEPT ![s] = r]
  BY DEF StartOne, Launch
<1>3. /\ before \in [Runners -> RunnerState]
      /\ \A q \in Runners : IF q \in Replaced(s) THEN ~before[q].live
                                               ELSE before[q] = runner[q]
  BY CancelledRunners DEF Inv, TypeOK, RunnerState
<1>4. \A q \in Runners : q \in Replaced(s) <=> q = map[s]
  BY DEF Replaced
<1>5. fresh.src = s /\ fresh.live = ~ctxDone /\ fresh.pc = "new"
  OBVIOUS
<1> HIDE DEF before, fresh
<1>6. runner'[r] = fresh /\ \A q \in Runners \ {r} : runner'[q] = before[q]
  BY <1>2, <1>3
<1>7. QED
  BY <1>1, <1>2, <1>3, <1>4, <1>5, <1>6

\* Whatever a runner or a request does, a runner keeps its source and its
\* context, and leaves no entry of the map behind.
LEMMA RunnersKept ==
    ASSUME Inv,
           \/ \E r \in Runners : RunnerStep(r) \/ TimerCheck(r)
           \/ \E c \in Callers : Send(c) \/ \E s \in Sources : Lookup(c, s)
    PROVE  /\ \A r \in Runners :
                 /\ runner'[r].live <=> runner[r].live
                 /\ runner[r].live \/ r \in Mapped => runner'[r].src = runner[r].src
                 /\ r \in Mapped /\ runner[r].pc # "free" => runner'[r].pc # "free"
           /\ UNCHANGED <<sysVars, fileVars, thrVars, histVars, dcfg, map>>
<1> USE DEF RunnerState, Free
<1>0. runner \in [Runners -> RunnerState]
  BY DEF Inv, TypeOK
<1>1. ASSUME NEW r \in Runners,
             \/ FirstCheck(r) \/ TimerCheck(r) \/ TriggeredCheck(r) \/ EndCheck(r)
      PROVE  \A q \in Runners :
                 /\ runner'[q].live <=> runner[q].live
                 /\ runner'[q].src = runner[q].src
                 /\ runner[q].pc # "free" => runner'[q].pc # "free"
  BY <1>0, <1>1 DEF FirstCheck, TimerCheck, TriggeredCheck, EndCheck
<1>2. ASSUME NEW r \in Runners, Quit(r)
      PROVE  \A q \in Runners :
                 /\ runner'[q].live <=> runner[q].live
                 /\ runner[q].live \/ q \in Mapped => runner'[q].src = runner[q].src
                 /\ q \in Mapped /\ runner[q].pc # "free" => runner'[q].pc # "free"
  BY <1>0, <1>2 DEF Quit
<1>3. ASSUME NEW c \in Callers, Send(c)
      PROVE  \A q \in Runners :
                 /\ runner'[q].live <=> runner[q].live
                 /\ runner'[q].src = runner[q].src
                 /\ runner'[q].pc = runner[q].pc
  BY <1>0, <1>3 DEF Send, Inv, TypeOK, NoRequest
<1>4. ASSUME NEW c \in Callers, NEW s \in Sources, Lookup(c, s)
      PROVE  runner' = runner
  BY <1>4 DEF Lookup
<1>5. UNCHANGED <<sysVars, fileVars, thrVars, histVars, dcfg, map>>
  BY DEF RunnerStep, FirstCheck, TimerCheck, TriggeredCheck, CheckBegins,
         EndCheck, Quit, Send, Lookup
<1>6. QED
  BY <1>1, <1>2, <1>3, <1>4, <1>5 DEF RunnerStep

LEMMA FiledNext == Inv /\ Filed /\ [Next]_vars => Filed'
<1> SUFFICES ASSUME Inv, Filed, [Next]_vars PROVE Filed'
  OBVIOUS
<1> USE DEF sysVars, fileVars, thrVars, callVars, histVars
<1>0. /\ runner \in [Runners -> RunnerState]
      /\ map \in [Sources -> Runners \cup {NoRunner}]
  BY DEF Inv, TypeOK, RunnerState
<1>1. CASE UNCHANGED <<map, runner>>
  BY <1>1 DEF Filed
<1>2. ASSUME NEW t \in Threads,
             \/ Fire(t) \/ LoadConfig(t) \/ SwapConfig(t) \/ Prune(t)
             \/ RangeConfig(t) \/ PickSource(t) \/ StartReturns(t)
      PROVE  Filed'
  BY <1>1, <1>2 DEF Fire, LoadConfig, SwapConfig, Prune, RangeConfig, RangeTo,
                    PickSource, StartReturns
<1>3. ASSUME NEW t \in Threads, CancelAll(t) PROVE Filed'
  BY <1>3 DEF CancelAll, Filed
<1>4. ASSUME NEW t \in Threads, StartOne(t) PROVE Filed'
  <2>1. PICK r \in Runners :
           /\ runner[r] = Free
           /\ map' = [map EXCEPT ![pick[t]] = r]
           /\ runner'[r].src = pick[t] /\ runner'[r].pc = "new"
           /\ \A q \in Runners \ {r} :
                 q # map[pick[t]] => runner'[q] = runner[q]
    BY <1>4, LaunchStep
  <2>2. ASSUME NEW s \in Sources, map'[s] # NoRunner
        PROVE  runner'[map'[s]].src = s /\ runner'[map'[s]].pc # "free"
    <3>1. CASE s = pick[t]
      <4>1. map'[s] = r
        BY <1>0, <2>1, <3>1
      <4>2. QED
        BY <2>1, <3>1, <4>1
    <3>2. CASE s # pick[t]
      <4>1. map'[s] = map[s] /\ map[s] \in Runners
        BY <1>0, <2>1, <2>2, <3>2
      <4>2. runner[map[s]].src = s /\ runner[map[s]].pc # "free"
        BY <2>2, <4>1 DEF Filed
      <4>3. map[s] # r
        BY <2>1, <4>2 DEF Free
      <4>4. map[s] # map[pick[t]]
        <5>1. pick[t] \in Sources
          BY <1>4, LaunchStep
        <5>2. QED
          BY <2>2, <3>2, <4>1, <4>2, <5>1 DEF Filed
      <4>5. QED
        BY <2>1, <4>1, <4>2, <4>3, <4>4
    <3>3. QED
      BY <3>1, <3>2
  <2>3. QED
    BY <2>2 DEF Filed
<1>5. ASSUME \/ \E r \in Runners : RunnerStep(r) \/ TimerCheck(r)
             \/ \E c \in Callers : Send(c) \/ \E s \in Sources : Lookup(c, s)
      PROVE  Filed'
  <2>1. \A s \in Sources : map[s] # NoRunner => map[s] \in Mapped /\ map[s] \in Runners
    BY <1>0 DEF Mapped
  <2>2. map' = map
    BY <1>5, RunnersKept
  <2>3. \A r \in Mapped \cap Runners :
           /\ runner'[r].src = runner[r].src
           /\ runner[r].pc # "free" => runner'[r].pc # "free"
    BY <1>5, RunnersKept
  <2>4. QED
    BY <2>1, <2>2, <2>3 DEF Filed
<1>6. CASE Signal \/ StopCancel
  <2>1. map' = map
    BY <1>6 DEF Signal, StopCancel
  <2>2. \A r \in Runners : runner'[r].src = runner[r].src /\ runner'[r].pc = runner[r].pc
    BY <1>0, <1>6 DEF Signal, StopCancel, RunnerState
  <2>3. QED
    BY <1>0, <2>1, <2>2 DEF Filed
<1>7. CASE StopReturns
  BY <1>7 DEF StopReturns, Filed
<1>8. CASE StartWatcher \/ Edit \/ UNCHANGED vars
  BY <1>1, <1>8 DEF StartWatcher, Edit, vars
<1>9. QED
  BY <1>2, <1>3, <1>4, <1>5, <1>6, <1>7, <1>8 DEF Next, ThreadStep, MainStep

\* The set of watched sources depends on the live runners only.
LEMMA SameLive ==
    ASSUME \A r \in Runners :
              /\ runner'[r].live <=> runner[r].live
              /\ runner[r].live => runner'[r].src = runner[r].src
    PROVE  LiveSources' = LiveSources
BY DEF LiveSources

\* Steps that leave the config, the loops and the watched sources alone, and
\* take no thread out of the part of Reload that ends in CancelAll.
LEMMA InForceFrame ==
    ASSUME InForce, ~ctxDone, UNCHANGED <<dcfg, todo, pick, panicked, strays>>,
           LiveSources' = LiveSources,
           \A t \in Threads :
              \/ tpc'[t] = tpc[t]
              \/ tpc'[t] \in {"prune", "cancel"}
              \/ tpc[t] \in {"idle", "load"} /\ tpc'[t] \in {"idle", "load", "swap"}
    PROVE  InForce'
<1> SUFFICES ASSUME ~panicked', \A t \in Threads : tpc'[t] \notin {"prune", "cancel"}
             PROVE  /\ \A s \in On(dcfg)' :
                          s \in LiveSources' \/ \E t \in Threads : WillStart(t, s)'
                    /\ LiveSources' \subseteq On(dcfg)' \cup strays'
  BY DEF InForce
<1>1. \A t \in Threads : tpc[t] \notin {"prune", "cancel"}
  OBVIOUS
<1>2. \A t \in Threads : \A s : WillStart(t, s) => WillStart(t, s)'
  BY DEF WillStart
<1>3. On(dcfg)' = On(dcfg)
  OBVIOUS
<1>4. QED
  BY <1>1, <1>2, <1>3 DEF InForce

\* Steps of one thread inside the loop of Start: it is enough to look at the
\* sources it was going to start.
LEMMA InForceStep ==
    ASSUME InForce, ~ctxDone, ~panicked, NEW t \in Threads,
           tpc[t] \notin {"prune", "cancel"},
           UNCHANGED dcfg,
           \A u \in Threads \ {t} :
              tpc'[u] = tpc[u] /\ todo'[u] = todo[u] /\ pick'[u] = pick[u],
           LiveSources \subseteq LiveSources',
           LiveSources' \subseteq LiveSources \cup On(dcfg) \cup strays',
           strays \subseteq strays',
           \A s \in On(dcfg) : WillStart(t, s) => s \in LiveSources' \/ WillStart(t, s)'
    PROVE  InForce'
<1> SUFFICES ASSUME \A u \in Threads : tpc'[u] \notin {"prune", "cancel"}
             PROVE  /\ \A s \in On(dcfg)' :
                          s \in LiveSources' \/ \E u \in Threads : WillStart(u, s)'
                    /\ LiveSources' \subseteq On(dcfg)' \cup strays'
  BY DEF InForce
<1>1. \A u \in Threads : tpc[u] \notin {"prune", "cancel"}
  OBVIOUS
<1>2. On(dcfg)' = On(dcfg)
  OBVIOUS
<1>3. /\ \A s \in On(dcfg) : s \in LiveSources \/ \E u \in Threads : WillStart(u, s)
      /\ LiveSources \subseteq On(dcfg) \cup strays
  BY <1>1 DEF InForce
<1>4. \A u \in Threads \ {t} : \A s : WillStart(u, s) => WillStart(u, s)'
  BY DEF WillStart
<1>5. ASSUME NEW s \in On(dcfg)
      PROVE  s \in LiveSources' \/ \E u \in Threads : WillStart(u, s)'
  BY <1>3, <1>4
<1>6. QED
  BY <1>2, <1>3, <1>5

LEMMA InForceNext ==
    ASSUME Inv, ReloadInv, [Next]_vars
    PROVE  InForce'
<1> SUFFICES ASSUME ~ctxDone', ~panicked' PROVE InForce'
  BY DEF InForce
<1> USE DEF sysVars, fileVars, thrVars, callVars, histVars, ReloadInv
<1>0. /\ ~ctxDone /\ main \notin {"waiting", "exited"}
      /\ tpc = [u \in Threads |-> tpc[u]] /\ todo = [u \in Threads |-> todo[u]]
      /\ pick = [u \in Threads |-> pick[u]]
      /\ dcfg \in Configs /\ Len(dcfg) \in Nat
  BY StopIsFinal, ConfigIDs DEF Inv, Stopping, TypeOK
<1>1. ASSUME NEW t \in Threads, Fire(t) \/ LoadConfig(t)
      PROVE  InForce'
  <2>1. UNCHANGED <<dcfg, todo, pick, panicked, strays, runner>>
    BY <1>1 DEF Fire, LoadConfig
  <2>2. LiveSources' = LiveSources
    BY <2>1, SameLive
  <2>3. \A u \in Threads :
              \/ tpc'[u] = tpc[u]
              \/ tpc[u] \in {"idle", "load"} /\ tpc'[u] \in {"idle", "load", "swap"}
    BY <1>0, <1>1 DEF Fire, LoadConfig
  <2>4. QED
    BY <1>0, <2>1, <2>2, <2>3, InForceFrame
\* Whoever has a new config is going to cancel all runners.
<1>2. ASSUME NEW t \in Threads, SwapConfig(t) \/ Prune(t) PROVE InForce'
  <2>1. tpc'[t] \in {"prune", "cancel"}
    BY <1>0, <1>2 DEF SwapConfig, Prune
  <2>2. QED
    BY <2>1 DEF InForce
<1>3. ASSUME NEW t \in Threads, CancelAll(t) PROVE InForce'
  <2>1. tpc'[t] = "range" /\ runner' = Cancelled(Mapped)
    BY <1>0, <1>3 DEF CancelAll
  <2>2. runner \in [Runners -> RunnerState] /\ ~Free.live /\ Free.pc = "free"
    BY DEF Inv, TypeOK, RunnerState, Free
  <2>3. \A r \in Runners : runner[r].live => r \in Mapped
    BY <2>2 DEF Inv, LiveRunnersAreMapped, Assigned, Mapped, Free
  <2>4. \A r \in Runners : ~runner'[r].live
    BY <2>1, <2>2, <2>3, CancelledRunners DEF Free
  <2>5. LiveSources' = {}
    BY <2>4 DEF LiveSources
  <2>6. \A s : WillStart(t, s)'
    BY <2>1 DEF WillStart
  <2>7. QED
    BY <2>5, <2>6 DEF InForce
<1>4. ASSUME NEW t \in Threads, RangeConfig(t) PROVE InForce'
  <2>1. /\ tpc[t] = "range" /\ tpc'[t] = "loop" /\ todo'[t] = 1..Len(dcfg)
        /\ \A u \in Threads \ {t} :
              tpc'[u] = tpc[u] /\ todo'[u] = todo[u] /\ pick'[u] = pick[u]
        /\ UNCHANGED <<runner, dcfg, strays, panicked>>
    BY <1>0, <1>4 DEF RangeConfig, RangeTo
  <2>2. LiveSources' = LiveSources
    BY <2>1, SameLive
  <2>3. \A s \in On(dcfg) : WillStart(t, s)'
    BY <2>1 DEF On, WillStart
  <2>4. QED
    BY <1>0, <2>1, <2>2, <2>3, InForceStep
<1>5. ASSUME NEW t \in Threads, PickSource(t) PROVE InForce'
  <2> DEFINE i == First(todo[t])
  <2>1. tpc[t] = "loop" /\ todo[t] \in SUBSET Nat /\ todo[t] # {}
    BY <1>5 DEF PickSource, Inv, TypeOK
  <2>2. i \in todo[t]
    BY <2>1, FirstIsLeft
  <2> HIDE DEF i
  <2>3. /\ todo'[t] = todo[t] \ {i} /\ UNCHANGED <<runner, dcfg, strays>>
        /\ \A u \in Threads \ {t} :
              tpc'[u] = tpc[u] /\ todo'[u] = todo[u] /\ pick'[u] = pick[u]
        /\ \/ dcfg[i].on /\ tpc'[t] = "start" /\ pick'[t] = dcfg[i].id
           \/ ~dcfg[i].on /\ tpc'[t] = "loop"
        /\ ~panicked
    BY <1>0, <1>5 DEF PickSource, i
  <2>4. LiveSources' = LiveSources
    BY <2>3, SameLive
  <2>5. ASSUME NEW s \in On(dcfg), WillStart(t, s) PROVE WillStart(t, s)'
    <3>1. PICK j \in todo[t] \cap (1..Len(dcfg)) : dcfg[j].on /\ dcfg[j].id = s
      BY <2>1, <2>5 DEF WillStart
    <3>2. CASE j = i
      BY <2>3, <3>1, <3>2 DEF WillStart
    <3>3. CASE j # i
      BY <2>3, <3>1, <3>3 DEF WillStart
    <3>4. QED
      BY <3>2, <3>3
  <2>6. QED
    BY <1>0, <2>1, <2>3, <2>4, <2>5, InForceStep
<1>6. ASSUME NEW t \in Threads, StartOne(t) PROVE InForce'
  <2>1. /\ tpc[t] = "start" /\ tpc'[t] = "loop" /\ ~panicked
        /\ \A u \in Threads \ {t} :
              tpc'[u] = tpc[u] /\ todo'[u] = todo[u] /\ pick'[u] = pick[u]
        /\ UNCHANGED <<todo, dcfg>>
        /\ strays' = strays \cup ({pick[t]} \ On(dcfg))
    BY <1>0, <1>6 DEF StartOne, Launch, Alive
  <2>2. PICK r \in Runners :
           /\ runner[r] = Free
           /\ runner'[r].src = pick[t] /\ runner'[r].live = ~ctxDone
           /\ \A q \in Runners \ {r} :
                 IF q = map[pick[t]] THEN ~runner'[q].live
                                     ELSE runner'[q] = runner[q]
    BY <1>6, LaunchStep
  <2>3. pick[t] \in Sources
    BY <1>6, LaunchStep
  <2>4. LiveSources' = LiveSources \cup {pick[t]}
    <3>1. \A q \in Runners : q = map[pick[t]] => runner[q].src = pick[t]
      BY <2>3, RunnerAssumption DEF Filed
    <3>2. ~runner[r].live
      BY <2>2 DEF Free
    <3>3. ASSUME NEW x \in LiveSources' PROVE x \in LiveSources \cup {pick[t]}
      BY <2>2, <3>3 DEF LiveSources
    <3>4. pick[t] \in LiveSources'
      BY <1>0, <2>2 DEF LiveSources
    <3>5. ASSUME NEW x \in LiveSources PROVE x \in LiveSources'
      <4>1. PICK q \in Runners : runner[q].live /\ runner[q].src = x
        BY <3>5 DEF LiveSources
      <4>2. CASE q = map[pick[t]]
        BY <3>1, <3>4, <4>1, <4>2
      <4>3. CASE q # map[pick[t]]
        BY <2>2, <3>2, <4>1, <4>3 DEF LiveSources
      <4>4. QED
        BY <4>2, <4>3
    <3>6. QED
      BY <3>3, <3>4, <3>5
  <2>5. ASSUME NEW s \in On(dcfg), WillStart(t, s), s # pick[t]
        PROVE  WillStart(t, s)'
    BY <2>1, <2>5 DEF WillStart
  <2>6. QED
    BY <1>0, <2>1, <2>4, <2>5, InForceStep
<1>7. ASSUME NEW t \in Threads, StartReturns(t) PROVE InForce'
  <2>1. /\ tpc[t] = "loop" /\ todo[t] = {} /\ ~panicked
        /\ \A u \in Threads \ {t} :
              tpc'[u] = tpc[u] /\ todo'[u] = todo[u] /\ pick'[u] = pick[u]
        /\ UNCHANGED <<runner, dcfg, strays>>
    BY <1>0, <1>7 DEF StartReturns, Alive
  <2>2. LiveSources' = LiveSources
    BY <2>1, SameLive
  <2>3. \A s : ~WillStart(t, s)
    BY <2>1 DEF WillStart
  <2>4. QED
    BY <1>0, <2>1, <2>2, <2>3, InForceStep
<1>8. ASSUME \/ \E r \in Runners : RunnerStep(r) \/ TimerCheck(r)
             \/ \E c \in Callers : Send(c) \/ \E s \in Sources : Lookup(c, s)
      PROVE  InForce'
  <2>1. UNCHANGED <<dcfg, todo, pick, panicked, strays, tpc>>
    BY <1>8, RunnersKept
  <2>2. LiveSources' = LiveSources
    BY <1>8, RunnersKept, SameLive
  <2>3. QED
    BY <1>0, <2>1, <2>2, InForceFrame
<1>9. CASE StartWatcher \/ Edit \/ UNCHANGED vars
  <2>1. UNCHANGED <<dcfg, todo, pick, panicked, strays, tpc, runner>>
    BY <1>9 DEF StartWatcher, Edit, vars
  <2>2. LiveSources' = LiveSources
    BY <2>1, SameLive
  <2>3. QED
    BY <1>0, <2>1, <2>2, InForceFrame
<1>10. ~Signal /\ ~StopCancel /\ ~StopReturns
  BY <1>0 DEF Signal, StopCancel, StopReturns
<1>11. QED
  BY <1>1, <1>2, <1>3, <1>4, <1>5, <1>6, <1>7, <1>8, <1>9, <1>10
     DEF Next, ThreadStep, MainStep

LEMMA LastLoadedNext ==
    ASSUME Inv, ReloadInv, [Next]_vars
    PROVE  LastLoaded'
<1> SUFFICES ASSUME ~ctxDone', ~missed', ~pending',
                    \A t \in Threads : tpc'[t] # "load"
             PROVE  \/ file' = BadConfig
                    \/ IF tpc'[last'] = "swap" THEN tcfg'[last'] = file'
                                               ELSE overtaken' \/ dcfg' = file'
  BY DEF LastLoaded
<1> USE DEF sysVars, fileVars, thrVars, callVars, histVars, ReloadInv
<1> DEFINE Goal == \/ file' = BadConfig
                   \/ IF tpc'[last'] = "swap" THEN tcfg'[last'] = file'
                                              ELSE overtaken' \/ dcfg' = file'
<1>0. /\ ~ctxDone /\ last \in Threads
      /\ tpc = [u \in Threads |-> tpc[u]] /\ tcfg = [u \in Threads |-> tcfg[u]]
  BY StopIsFinal DEF Inv, TypeOK
<1>1. ASSUME UNCHANGED <<file, missed, pending, dcfg, last, overtaken>>,
             \A u \in Threads :
                \/ tpc'[u] = tpc[u] /\ tcfg'[u] = tcfg[u]
                \/ tpc[u] \notin {"load", "swap"} /\ tpc'[u] \notin {"load", "swap"}
      PROVE  Goal
  BY <1>0, <1>1 DEF LastLoaded
\* A callback that is about to read the file is not done with it.
<1>2. ASSUME NEW t \in Threads, Fire(t) PROVE Goal
  BY <1>0, <1>2 DEF Fire
<1>3. ASSUME NEW t \in Threads, LoadConfig(t) PROVE Goal
  BY <1>0, <1>3 DEF LoadConfig
<1>4. ASSUME NEW t \in Threads, SwapConfig(t) PROVE Goal
  <2>1. /\ tpc[t] = "swap" /\ tpc'[t] = "prune" /\ dcfg' = tcfg[t]
        /\ overtaken' = (last # t)
        /\ UNCHANGED <<file, missed, pending, last, tcfg>>
        /\ \A u \in Threads \ {t} : tpc'[u] = tpc[u]
    BY <1>0, <1>4 DEF SwapConfig
  <2>2. \A u \in Threads : tpc[u] # "load"
    BY <2>1
  <2>3. file = BadConfig \/ IF tpc[last] = "swap" THEN tcfg[last] = file
                                                  ELSE overtaken \/ dcfg = file
    BY <1>0, <2>1, <2>2 DEF LastLoaded
  <2>4. CASE last = t
    BY <2>1, <2>3, <2>4
  <2>5. CASE last # t
    BY <1>0, <2>1, <2>3, <2>5
  <2>6. QED
    BY <2>4, <2>5
<1>5. ASSUME NEW t \in Threads,
             \/ Prune(t) \/ CancelAll(t) \/ RangeConfig(t) \/ PickSource(t)
             \/ StartOne(t) \/ StartReturns(t)
      PROVE  Goal
  <2>1. UNCHANGED <<file, missed, pending, dcfg, last, overtaken>>
    BY <1>5 DEF Prune, CancelAll, RangeConfig, RangeTo, PickSource, StartOne,
                Launch, StartReturns
  <2>2. \A u \in Threads :
                \/ tpc'[u] = tpc[u] /\ tcfg'[u] = tcfg[u]
                \/ tpc[u] \notin {"load", "swap"} /\ tpc'[u] \notin {"load", "swap"}
    BY <1>0, <1>5 DEF Prune, CancelAll, RangeConfig, RangeTo, PickSource,
                      StartOne, Launch, StartReturns
  <2>3. QED
    BY <1>1, <2>1, <2>2
<1>6. ASSUME \/ \E r \in Runners : RunnerStep(r) \/ TimerCheck(r)
             \/ \E c \in Callers : Send(c) \/ \E s \in Sources : Lookup(c, s)
      PROVE  Goal
  <2>1. UNCHANGED <<file, missed, pending, dcfg, tcfg, tpc, last, overtaken>>
    BY <1>6, RunnersKept
  <2>2. QED
    BY <1>1, <2>1
<1>7. CASE MainStep \/ UNCHANGED vars
  <2>1. UNCHANGED <<file, missed, pending, dcfg, tcfg, tpc, last, overtaken>>
    BY <1>7 DEF MainStep, StartWatcher, StopCancel, StopReturns, vars
  <2>2. QED
    BY <1>1, <2>1
\* An edit is either seen, and starts the timer, or missed.
<1>8. ~Edit /\ ~Signal
  BY <1>0 DEF Edit, Signal, Armed
<1>9. QED
  BY <1>2, <1>3, <1>4, <1>5, <1>6, <1>7, <1>8 DEF Next, ThreadStep

LEMMA ReloadInvInit == Init => ReloadInv
<1> SUFFICES ASSUME Init PROVE ReloadInv
  OBVIOUS
<1>1. Main \in Threads /\ tpc[Main] = "cancel" /\ last = Main
  BY DEF Init, Threads
<1>2. Filed /\ InForce /\ LastLoaded
  BY <1>1 DEF Init, Filed, InForce, LastLoaded
<1>3. QED
  BY <1>2 DEF ReloadInv

LEMMA ReloadInvariance == Spec => [](Inv /\ ReloadInv)
<1>1. Inv /\ ReloadInv /\ [Next]_vars => (Inv /\ ReloadInv)'
  BY InvNext, FiledNext, InForceNext, LastLoadedNext DEF ReloadInv
<1>2. QED
  BY <1>1, InvInit, ReloadInvInit, PTL DEF Spec

\* Whenever no reload is under way, all enabled sources of the config in force
\* are watched, and besides them only what a reload had picked from a config
\* that another one exchanged under its loop.
THEOREM ConfigInForceRuns == Spec => []ConfigIsRunning
<1>1. Inv /\ ReloadInv => ConfigIsRunning
  BY DEF ReloadInv, InForce, ConfigIsRunning, Settled, WillStart, Alive
<1>2. QED
  BY <1>1, ReloadInvariance, PTL

\* When all events are handled, the config in force is the valid one in the
\* file, unless a callback that loaded earlier has swapped last.
THEOREM LastEditIsInForce == Spec => []LastEditWins
<1>1. Inv /\ ReloadInv => LastEditWins
  BY DEF Inv, TypeOK, ReloadInv, LastLoaded, LastEditWins
<1>2. QED
  BY <1>1, ReloadInvariance, PTL

=============================================================================
