---------------------------- MODULE SeenHistory ----------------------------
(***************************************************************************)
(* What a github_trending source promises, stated without a cache: every   *)
(* repo ever sighted is remembered with the time of its last sighting, and *)
(* a check reports the repos that were never sighted or whose last         *)
(* sighting is more than ForgetAfter ago.  Repos taken over from a state   *)
(* file without times count as sighted at the first check.  A restart      *)
(* falls back to the history as it was last saved.                         *)
(***************************************************************************)
EXTENDS Integers

CONSTANTS Repos, ForgetAfter

VARIABLES
    now,     \* the time a check is stamped with
    past,    \* past.sighted[i]: the last sighting of repo i, if any;
             \* past.undated: repos of an old state file, without a time
    durable, \* the history as last saved
    report   \* what the last check reported as new

vars == <<now, past, durable, report>>

NoSighting == [i \in {} |-> 0]

Init ==
    /\ now \in Nat
    /\ past \in [sighted : {NoSighting}, undated : SUBSET Repos]
    /\ durable = past
    /\ report = {}

Tick ==
    /\ now' \in Nat /\ now' > now
    /\ UNCHANGED <<past, durable, report>>

\* The repos that are remembered at the present time.
Remembered ==
    past.undated \cup
        {i \in DOMAIN past.sighted : now - past.sighted[i] <= ForgetAfter}

\* The history after a page was sighted.
Sighting(page) ==
    [sighted |-> [i \in DOMAIN past.sighted \cup past.undated \cup page |->
                    IF i \in past.undated \cup page THEN now
                    ELSE past.sighted[i]],
     undated |-> {}]

\* One check of a page; its save may fail.
Check(page) ==
    /\ report' = page \ Remembered
    /\ past' = Sighting(page)
    /\ durable' \in {durable, past'}
    /\ UNCHANGED now

\* The check of another source saves the state file too.
Save ==
    /\ durable' = past
    /\ UNCHANGED <<now, past, report>>

Restart ==
    /\ past' = durable
    /\ UNCHANGED <<now, durable, report>>

Next == Tick \/ Save \/ Restart \/ \E page \in SUBSET Repos : Check(page)

Spec == Init /\ [][Next]_vars

=============================================================================
