-------------------------- MODULE TrendingProofs --------------------------
(***************************************************************************)
(* Proofs about Trending for every set of repos, every forget_after and    *)
(* every bound of the clock: the cache, which forgets, reports exactly     *)
(* what SeenHistory, which forgets nothing, reports.                       *)
(***************************************************************************)
EXTENDS Trending, TLAPS

USE ForgetAssumption, TimeAssumption

\* How a cache stands for a history.  An undated cache has not been checked
\* yet.  A dated one holds the true times of its repos, and what it does not
\* hold was sighted too long ago.
Mirrors(c, p) ==
    /\ ~c.dated => /\ c.times = NoTimes
                   /\ p.sighted = NoTimes
                   /\ p.undated = c.items
    /\ c.dated => /\ DOMAIN c.times = c.items /\ c.items # {}
                  /\ p.undated = {}
                  /\ c.items \subseteq DOMAIN p.sighted
                  /\ \A i \in c.items : p.sighted[i] = c.times[i]
                  /\ \A i \in DOMAIN p.sighted \ c.items :
                        now - p.sighted[i] > ForgetAfter
                  /\ \A j \in DOMAIN p.sighted :
                        /\ p.sighted[j] <= now
                        /\ \A i \in c.items :
                              p.sighted[j] - p.sighted[i] <= ForgetAfter

Inv ==
    /\ TypeOK
    /\ Mirrors(cache, past)
    /\ Mirrors(disk, durable)

\* A cache comes back from the file as it was.
LEMMA RoundTrip ==
    ASSUME NEW c, NEW p, Cache(c), Mirrors(c, p)
    PROVE  Stored(c) = c
<1>1. c.dated = (DOMAIN c.times # {})
  BY DEF Cache, Mirrors, NoTimes
<1>2. QED
  BY <1>1 DEF Stored, Cache

\* One check of a page keeps the cache a mirror of the history, and its
\* report is that of the history.
LEMMA CheckMirrors ==
    ASSUME TypeOK, Mirrors(cache, past),
           NEW current \in SUBSET Repos, current # {}
    PROVE  /\ Cache(CacheAfter(current))
           /\ Past(Sighting(current))
           /\ Mirrors(CacheAfter(current), Sighting(current))
           /\ Added(current) = current \ History!Remembered
<1> DEFINE gone == Pruned(Times, current)
           c    == CacheAfter(current)
           p    == Sighting(current)
<1>1. /\ DOMAIN Times = cache.items
      /\ Times \in [cache.items -> Nat]
      /\ \A i \in cache.items : Times[i] = p.sighted[i] \/ i \in current
      /\ \A i \in cache.items : Times[i] <= now
  <2>1. CASE cache.dated
    BY <2>1 DEF Times, Mirrors, TypeOK, Cache, Past, Sighting
  <2>2. CASE ~cache.dated
    BY <2>2 DEF Times, Mirrors, TypeOK, Cache, Past, Sighting
  <2>3. QED
    BY <2>1, <2>2
<1>2. gone \subseteq cache.items /\ gone \cap current = {}
  BY <1>1 DEF Pruned
<1>3. /\ c.items = (cache.items \cup current) \ gone
      /\ DOMAIN c.times = c.items
      /\ c.dated
      /\ c.times = [i \in c.items |-> IF i \in current THEN now ELSE Times[i]]
      /\ c = [items |-> c.items, times |-> c.times, dated |-> c.dated]
  BY <1>1 DEF CacheAfter, ItemsAfter
<1>4. Cache(c)
  BY <1>1, <1>3 DEF Cache, TypeOK
<1>5. /\ DOMAIN p.sighted = DOMAIN past.sighted \cup past.undated \cup current
      /\ p.undated = {}
      /\ \A i \in DOMAIN p.sighted :
            p.sighted[i] = IF i \in past.undated \cup current THEN now
                           ELSE past.sighted[i]
      /\ p = [sighted |-> p.sighted, undated |-> p.undated]
  BY DEF Sighting
<1>6. Past(p)
  BY <1>5 DEF Past, TypeOK, Sighting
<1>7. cache.items \subseteq DOMAIN p.sighted
  BY <1>5 DEF Mirrors
<1>8. \A i \in c.items : p.sighted[i] = c.times[i]
  BY <1>1, <1>3, <1>5, <1>7
<1>9. \A j \in DOMAIN p.sighted : p.sighted[j] <= now
  BY <1>5 DEF Mirrors, TypeOK, NoTimes
<1>10. \A i \in DOMAIN p.sighted \ c.items : now - p.sighted[i] > ForgetAfter
  <2> SUFFICES ASSUME NEW i \in DOMAIN p.sighted \ c.items
               PROVE  now - p.sighted[i] > ForgetAfter
    OBVIOUS
  <2>1. i \notin current
    BY <1>2, <1>3
  <2>2. CASE i \in gone
    BY <2>1, <2>2, <1>1, <1>2 DEF Pruned, Expired
  <2>3. CASE i \notin cache.items
    BY <2>1, <2>3, <1>5 DEF Mirrors, NoTimes
  <2>4. QED
    BY <2>1, <2>2, <2>3, <1>3
<1>11. \A i \in c.items : now - p.sighted[i] <= ForgetAfter
  <2> SUFFICES ASSUME NEW i \in c.items
               PROVE  now - p.sighted[i] <= ForgetAfter
    OBVIOUS
  <2>1. CASE i \in current
    BY <2>1, <1>5 DEF TypeOK
  <2>2. CASE i \notin current
    <3>1. i \in DOMAIN Times \ current /\ i \notin gone
      BY <2>2, <1>1, <1>3
    <3>2. ~(now - Times[i] > ForgetAfter)
      BY <3>1 DEF Pruned, Expired
    <3>3. Times[i] \in Nat /\ p.sighted[i] = Times[i]
      BY <3>1, <1>1
    <3>4. QED
      BY <3>2, <3>3 DEF TypeOK
  <2>3. QED
    BY <2>1, <2>2
<1>12. Mirrors(c, p)
  <2>1. c.items # {} /\ c.items \subseteq DOMAIN p.sighted
    BY <1>2, <1>3, <1>5, <1>7
  <2>2. \A j \in DOMAIN p.sighted, i \in c.items :
           p.sighted[j] - p.sighted[i] <= ForgetAfter
    BY <1>6, <1>9, <1>11, <2>1 DEF Past, TypeOK
  <2> HIDE DEF c, p
  <2>3. QED
    BY <2>1, <2>2, <1>3, <1>5, <1>8, <1>9, <1>10 DEF Mirrors
<1>13. Added(current) = current \ History!Remembered
  <2> SUFFICES ASSUME NEW i \in current
               PROVE  i \in History!Remembered
                        <=> i \in cache.items /\ ~Expired(Times, i)
    BY <1>1 DEF Added
  <2>1. CASE cache.dated
    BY <2>1 DEF Times, Mirrors, Expired, TypeOK, Cache, Past,
                History!Remembered
  <2>2. CASE ~cache.dated
    BY <2>2, <1>1 DEF Times, Mirrors, Expired, TypeOK, Cache, NoTimes,
                      History!Remembered
  <2>3. QED
    BY <2>1, <2>2
<1>14. QED
  BY <1>4, <1>6, <1>12, <1>13

LEMMA InvInit == Init => Inv
<1> SUFFICES ASSUME Init PROVE Inv
  OBVIOUS
<1>1. /\ cache = [items |-> cache.items, times |-> NoTimes, dated |-> FALSE]
      /\ cache.items \in SUBSET Repos
      /\ cache.times = NoTimes /\ cache.dated = FALSE
      /\ disk = cache /\ durable = past
  BY DEF Init
<1>2. Cache(cache)
  BY <1>1 DEF Cache, NoTimes
<1>3. Past(past)
  BY <1>1 DEF Past, NoTimes, Init
<1>4. Mirrors(cache, past)
  BY <1>1 DEF Mirrors, Init
<1>5. QED
  BY <1>1, <1>2, <1>3, <1>4 DEF Inv, TypeOK, Init

LEMMA InvNext == Inv /\ [Next]_vars => Inv'
<1> SUFFICES ASSUME Inv, [Next]_vars PROVE Inv'
  OBVIOUS
<1>1. CASE Tick
  <2>1. now' \in Nat /\ now' > now
    BY <1>1 DEF Tick, Inv, TypeOK
  <2>2. UNCHANGED <<cache, disk, report, past, durable>>
    BY <1>1 DEF Tick
  <2>3. TypeOK'
    BY <2>1, <2>2 DEF Inv, TypeOK, Cache, Past
  <2>4. Mirrors(cache, past)'
    BY <2>1, <2>2 DEF Inv, TypeOK, Mirrors, Past
  <2>5. Mirrors(disk, durable)'
    BY <2>1, <2>2 DEF Inv, TypeOK, Mirrors, Past
  <2>6. QED
    BY <2>3, <2>4, <2>5 DEF Inv
<1>2. ASSUME NEW current \in SUBSET Repos, Check(current) PROVE Inv'
  <2>1. /\ cache' = CacheAfter(current) /\ past' = Sighting(current)
        /\ report' = Added(current) /\ now' = now
        /\ current # {}
    BY <1>2 DEF Check
  <2>2. /\ Cache(cache') /\ Past(past')
        /\ Mirrors(cache', past')
    BY <2>1, CheckMirrors DEF Inv
  <2>3. /\ \/ disk' = cache' /\ durable' = past'
           \/ UNCHANGED <<disk, durable>>
    BY <1>2, <2>2, RoundTrip DEF Check
  <2>4. /\ Cache(disk') /\ Past(durable')
        /\ Mirrors(disk', durable')
    BY <2>2, <2>3 DEF Inv, TypeOK
  <2>5. Added(current) \in SUBSET Repos
    BY DEF Added
  <2>6. QED
    BY <2>1, <2>2, <2>4, <2>5 DEF Inv, TypeOK, Mirrors, Cache, Past
<1>3. CASE Save
  <2>1. Stored(cache) = cache
    BY RoundTrip DEF Inv, TypeOK
  <2>2. QED
    BY <1>3, <2>1 DEF Save, Inv, TypeOK, Mirrors, Cache, Past
<1>4. CASE Restart
  BY <1>4 DEF Restart, Inv, TypeOK, Mirrors, Cache, Past
<1>5. CASE UNCHANGED vars
  BY <1>5 DEF vars, Inv, TypeOK, Mirrors, Cache, Past
<1>6. QED
  BY <1>1, <1>2, <1>3, <1>4, <1>5 DEF Next

\* The inductive invariant: cache and file mirror what was sighted.
THEOREM Invariance == Spec => []Inv
BY InvInit, InvNext, PTL DEF Spec

\* Every variable keeps its type: the times of the cache are those of repos.
THEOREM TypeCorrect == Spec => []TypeOK
<1>1. Inv => TypeOK
  BY DEF Inv
<1>2. QED
  BY <1>1, Invariance, PTL

\* ItemsSeen and SeenAt hold the same repos, in memory and in the file.
THEOREM Agreement == Spec => []CacheAgrees
<1>1. Inv => CacheAgrees
  BY DEF Inv, Mirrors, CacheAgrees
<1>2. QED
  BY <1>1, Invariance, PTL

\* The cache holds only repos sighted within ForgetAfter of the last sighting.
THEOREM Freshness == Spec => []CacheIsFresh
<1>1. Inv => CacheIsFresh
  BY DEF Inv, Mirrors, CacheIsFresh
<1>2. QED
  BY <1>1, Invariance, PTL

\* RememberTrending, its save and its restart implement the full history.
THEOREM Refinement == Spec => RefinesHistory
<1>1. Init => History!Init
  BY DEF Init, History!Init, NoTimes, History!NoSighting
<1>2. Inv /\ [Next]_vars => [History!Next]_(History!vars)
  <2> SUFFICES ASSUME Inv, [Next]_vars
               PROVE  History!Next \/ UNCHANGED History!vars
    OBVIOUS
  <2>1. CASE Tick
    BY <2>1 DEF Tick, History!Next, History!Tick, Inv, TypeOK
  <2>2. ASSUME NEW current \in SUBSET Repos, Check(current)
        PROVE  History!Check(current)
    <3>1. report' = current \ History!Remembered
      BY <2>2, CheckMirrors DEF Check, Inv
    <3>2. Sighting(current) = History!Sighting(current)
      BY DEF Sighting, History!Sighting
    <3>3. QED
      BY <2>2, <3>1, <3>2 DEF Check, History!Check
  <2>3. CASE Save
    BY <2>3 DEF Save, History!Next, History!Save
  <2>4. CASE Restart
    BY <2>4 DEF Restart, History!Next, History!Restart
  <2>5. CASE UNCHANGED vars
    BY <2>5 DEF vars, History!vars
  <2>6. QED
    BY <2>1, <2>2, <2>3, <2>4, <2>5 DEF Next, History!Next
<1>3. QED
  BY <1>1, <1>2, Invariance, PTL DEF Spec, RefinesHistory, History!Spec

=============================================================================
