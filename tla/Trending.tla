----------------------------- MODULE Trending -----------------------------
(***************************************************************************)
(* The cumulative seen-cache of a github_trending source, with its time:   *)
(* state.RememberTrending, and the cache on its way through state.json.    *)
(* (When the cache moves relative to the publish and to the saves of other *)
(* sources is the subject of Checker.)                                     *)
(*                                                                         *)
(* Abstractions: a repo is its ID; time is a natural number; one check is  *)
(* one step (RememberTrending holds the state lock throughout) together    *)
(* with the save that ends it; the clock does not step back.               *)
(***************************************************************************)
EXTENDS Integers

CONSTANTS
    Repos,       \* repo IDs
    ForgetAfter, \* forget_after
    MaxTime      \* bound: the clock

ASSUME ForgetAssumption == ForgetAfter \in Nat \ {0}
ASSUME TimeAssumption == MaxTime \in Nat

VARIABLES
    now,     \* the clock
    cache,   \* cache.items: Baseline.ItemsSeen; cache.times: Baseline.SeenAt,
             \* a function on the repos it holds; cache.dated: SeenAt # nil
    disk,    \* the cache in state.json
    report,  \* what the last RememberTrending returned
    \* history
    past,    \* past.sighted[i]: the last time i was on a checked page;
             \* past.undated: repos of an old state file, until a check
    durable  \* past as it was when disk was written

vars == <<now, cache, disk, report, past, durable>>

NoTimes == [i \in {} |-> 0]

\* An empty cache, or one written before SeenAt existed.
Init ==
    /\ now = 0
    /\ cache \in [items : SUBSET Repos, times : {NoTimes}, dated : {FALSE}]
    /\ disk = cache
    /\ report = {}
    /\ past = [sighted |-> NoTimes, undated |-> cache.items]
    /\ durable = past

Tick ==
    /\ \E t \in now + 1..MaxTime : now' = t
    /\ UNCHANGED <<cache, disk, report, past, durable>>

-----------------------------------------------------------------------------
(* RememberTrending.                                                       *)

\* Slip: the repos of an old file count as seen long ago.
TimesBackdated ==
    IF cache.dated THEN cache.times
    ELSE [i \in cache.items |-> now - ForgetAfter]

\* Repos without a time count as seen now; otherwise the times are as they are.
Times == IF cache.dated THEN cache.times ELSE [i \in cache.items |-> now]

\* Slip: the limit itself counts as too long ago.
ExpiredEarly(times, i) == now - times[i] >= ForgetAfter

Expired(times, i) == now - times[i] > ForgetAfter

\* Slip: nothing is ever pruned.
PrunedNever(times, current) == {}

\* What the pruning loop deletes: absent and expired.
Pruned(times, current) ==
    {i \in DOMAIN times \ current : Expired(times, i)}

\* Slip: the pruned repos stay in ItemsSeen.
ItemsUnpruned(current, gone) == cache.items \cup current

\* ItemsSeen after a check: the page is added, the pruned repos are deleted.
ItemsAfter(current, gone) == (cache.items \cup current) \ gone

\* The cache after a check: the page is stamped, the kept repos are not.
CacheAfter(current) ==
    LET times == Times
        gone  == Pruned(times, current)
    IN  [items |-> ItemsAfter(current, gone),
         times |-> [i \in (DOMAIN times \cup current) \ gone |->
                      IF i \in current THEN now ELSE times[i]],
         dated |-> TRUE]

\* The items that are new, decided before their times are refreshed.
Added(current) ==
    {i \in current : i \in DOMAIN Times => Expired(Times, i)}

\* History: a page was sighted.
Sighting(current) ==
    [sighted |-> [i \in DOMAIN past.sighted \cup past.undated \cup current |->
                    IF i \in past.undated \cup current THEN now
                    ELSE past.sighted[i]],
     undated |-> {}]

\* The cache as the file holds it: an empty SeenAt is omitted (omitempty) and
\* comes back as nil.
Stored(c) == [c EXCEPT !.dated = DOMAIN c.times # {}]

\* RememberTrending on the fetched repos (the fetcher refuses an empty page)
\* and the save of the same check, which may fail.
Check(current) ==
    /\ current # {}
    /\ report' = Added(current)
    /\ cache' = CacheAfter(current)
    /\ past' = Sighting(current)
    /\ \/ disk' = Stored(cache') /\ durable' = past'
       \/ UNCHANGED <<disk, durable>>
    /\ UNCHANGED now

\* The check of another source saves the state file.
Save ==
    /\ disk' = Stored(cache)
    /\ durable' = past
    /\ UNCHANGED <<now, cache, report, past>>

\* A new process loads the file.
Restart ==
    /\ cache' = disk
    /\ past' = durable
    /\ UNCHANGED <<now, disk, report, durable>>

Next ==
    \/ Tick
    \/ \E current \in SUBSET Repos : Check(current)
    \/ Save
    \/ Restart

Spec == Init /\ [][Next]_vars

-----------------------------------------------------------------------------
(* Properties.                                                             *)

Cache(c) ==
    /\ c = [items |-> c.items, times |-> c.times, dated |-> c.dated]
    /\ c.items \in SUBSET Repos
    /\ DOMAIN c.times \in SUBSET Repos
    /\ c.times \in [DOMAIN c.times -> Nat]
    /\ c.dated \in BOOLEAN

Past(p) ==
    /\ p = [sighted |-> p.sighted, undated |-> p.undated]
    /\ DOMAIN p.sighted \in SUBSET Repos
    /\ p.sighted \in [DOMAIN p.sighted -> Nat]
    /\ p.undated \in SUBSET Repos

TypeOK ==
    /\ now \in Nat
    /\ Cache(cache) /\ Cache(disk)
    /\ Past(past) /\ Past(durable)
    /\ report \in SUBSET Repos

\* The two maps of the baseline agree, in memory and in the file: the web UI
\* counts ItemsSeen, the diff reads SeenAt.
CacheAgrees ==
    \A c \in {cache, disk} : c.dated => DOMAIN c.times = c.items

\* The cache does not grow without end: once it was checked it holds only
\* repos sighted at most ForgetAfter before the last sighting of any.
CacheIsFresh ==
    cache.dated =>
        \A i \in cache.items :
            /\ i \in DOMAIN past.sighted
            /\ \A j \in DOMAIN past.sighted :
                  past.sighted[j] - past.sighted[i] <= ForgetAfter

\* The pruned cache reports exactly what the full history would: no repo
\* twice within ForgetAfter of a sighting, and every repo that is new or was
\* away for longer, across failed saves, restarts and the upgrade of a file
\* without times.
History == INSTANCE SeenHistory WITH
    Repos <- Repos, ForgetAfter <- ForgetAfter,
    now <- now, past <- past, durable <- durable, report <- report
RefinesHistory == History!Spec

=============================================================================
