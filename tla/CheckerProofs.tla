--------------------------- MODULE CheckerProofs ---------------------------
(***************************************************************************)
(* Proofs about Checker for every set of sources and items, every          *)
(* assignment of types and flags, and every bound.                         *)
(***************************************************************************)
EXTENDS Checker, TLAPS

USE TypeAssumption, FlagAssumption, NoEntryAssumption, NoSourceAssumption,
    BoundAssumption

\* The operators on entries stay within their sets.
LEMMA EntryTypes ==
    /\ \A e \in Entry \cup {NoEntry} : Seen(e) \in SUBSET Items
    /\ \A e \in Entry \cup {NoEntry} : EntryAfterError(e) \in Entry
    /\ \A c \in SUBSET Items : EntryAfterCheck(c) \in Entry
BY DEF Seen, EntryAfterError, EntryAfterCheck, Entry

\* What a runner's page can hold is a set of items.
LEMMA PagesAreItems ==
    \A s \in Sources : Pages(s) \subseteq SUBSET Items
BY DEF Pages, Types

\* Every variable keeps its type: the type invariant of the check pipeline.
THEOREM TypeCorrect == Spec => []TypeOK
<1>1. Init => TypeOK
  BY DEF Init, TypeOK, NoEntries
<1>2. TypeOK /\ [Next]_vars => TypeOK'
  <2> SUFFICES ASSUME TypeOK, [Next]_vars PROVE TypeOK'
    OBVIOUS
  <2> USE EntryTypes DEF TypeOK
  <2>1. ASSUME NEW s \in Sources, FetchOK(s) PROVE TypeOK'
    BY <2>1 DEF FetchOK, memVars, obsVars, cntVars
  <2>2. ASSUME NEW s \in Sources, FetchFails(s) PROVE TypeOK'
    BY <2>2 DEF FetchFails, Faulty
  <2>3. ASSUME NEW s \in Sources, FirstRun(s) PROVE TypeOK'
    <3>1. EntryAfterCheck(items[s]) \in Entry
      BY <2>3
    <3>2. QED
      BY <2>3, <3>1 DEF FirstRun, Silently, NeedsNoTelling, cntVars
  <2>4. ASSUME NEW s \in Sources, Diff(s) PROVE TypeOK'
    <3> DEFINE new     == items[s] \ Seen(mem[s])
               missing == Seen(mem[s]) \ items[s]
    <3>1. /\ UNCHANGED <<page, phase, items, mem, disk, mutex, buf, gap,
                         unsaved, edits, faults, stops>>
          /\ told' = told
      BY <2>4 DEF Diff, Loudly, memVars, cntVars
    <3>2. new \in SUBSET Items /\ NotifyRemoved(s, missing) \in SUBSET Items
      BY DEF NotifyRemoved
    <3>3. CASE Loudly(s, new, NotifyRemoved(s, missing))
      BY <3>1, <3>2, <3>3 DEF Loudly
    <3>4. CASE /\ Silently(s) /\ pc' = [pc EXCEPT ![s] = "remember"]
               /\ NeedsNoTelling(s) \/ UNCHANGED announced
      BY <3>1, <3>4 DEF Silently, NeedsNoTelling
    <3>5. \/ Loudly(s, new, NotifyRemoved(s, missing))
          \/ /\ Silently(s) /\ pc' = [pc EXCEPT ![s] = "remember"]
             /\ NeedsNoTelling(s) \/ UNCHANGED announced
      BY <2>4, Zenon DEF Diff
    <3>6. QED
      BY <3>3, <3>4, <3>5
  <2>5. ASSUME NEW s \in Sources, DiffTrending(s) PROVE TypeOK'
    <3>1. PICK forgotten \in SUBSET Seen(mem[s]) :
             LET kept == Seen(mem[s]) \ forgotten
                 new  == NewRepos(s, kept)
             IN  /\ mem' = [mem EXCEPT ![s] = EntryAfterCheck(kept \cup items[s])]
                 /\ \/ /\ Silently(s)
                       /\ pc' = [pc EXCEPT ![s] = "save"]
                       /\ UNCHANGED <<announced, told>>
                    \/ Loudly(s, new, {})
      BY <2>5 DEF DiffTrending
    <3> DEFINE kept == Seen(mem[s]) \ forgotten
               new  == NewRepos(s, kept)
    <3>2. EntryAfterCheck(kept \cup items[s]) \in Entry /\ new \in SUBSET Items
      BY DEF NewRepos
    <3>3. mem' \in [Sources -> Entry \cup {NoEntry}]
      BY <3>1, <3>2
    <3>4. UNCHANGED <<page, phase, items, disk, mutex, buf, gap, unsaved,
                      edits, faults, stops>>
      BY <2>5 DEF DiffTrending, cntVars
    <3>5. CASE /\ Silently(s) /\ pc' = [pc EXCEPT ![s] = "save"]
               /\ UNCHANGED <<announced, told>>
      BY <3>3, <3>4, <3>5 DEF Silently
    <3>6. CASE Loudly(s, new, {})
      BY <3>2, <3>3, <3>4, <3>6 DEF Loudly
    <3>7. QED
      BY <3>1, <3>5, <3>6
  <2>6. ASSUME NEW s \in Sources, PublishOK(s) PROVE TypeOK'
    BY <2>6 DEF PublishOK, Published, Deliver, AfterPublish, memVars
  <2>7. ASSUME NEW s \in Sources, PublishFails(s) PROVE TypeOK'
    BY <2>7 DEF PublishFails, Published, Deliver, AfterPublish, Faulty, memVars
  <2>8. ASSUME NEW s \in Sources, Remember(s) PROVE TypeOK'
    BY <2>8 DEF Remember, obsVars, cntVars
  <2>9. ASSUME NEW s \in Sources, SaveSnapshot(s) PROVE TypeOK'
    BY <2>9 DEF SaveSnapshot, obsVars, cntVars
  <2>10. ASSUME NEW s \in Sources, SaveOK(s) PROVE TypeOK'
    BY <2>10 DEF SaveOK, SaveReturns, NoEntries
  <2>11. ASSUME NEW s \in Sources, SaveFails(s) PROVE TypeOK'
    BY <2>11 DEF SaveFails, SaveReturns, Faulty, NoEntries
  <2>12. ASSUME NEW s \in Sources, Exit(s) PROVE TypeOK'
    BY <2>12 DEF Exit, memVars, obsVars, cntVars
  <2>13. ASSUME NEW s \in Sources, PageChanges(s) PROVE TypeOK'
    BY <2>13, PagesAreItems DEF PageChanges, runVars, memVars, obsVars
  <2>14. CASE Signal
    BY <2>14 DEF Signal, runVars, memVars, obsVars
  <2>15. CASE FinalSave
    <3>1. CutShort \in [Sources -> BOOLEAN]
      BY Zenon DEF CutShort, Trending
    <3>2. QED
      BY <2>15, <3>1 DEF FinalSave, Faulty, runVars
  <2>16. CASE Crash
    BY <2>16 DEF Crash, CutShort, Trending, NoEntries
  <2>17. CASE Restart
    BY <2>17 DEF Restart, cntVars
  <2>18. CASE UNCHANGED vars
    BY <2>18 DEF vars, runVars, memVars, obsVars, cntVars
  <2>19. QED
    BY <2>1, <2>2, <2>3, <2>4, <2>5, <2>6, <2>7, <2>8, <2>9, <2>10, <2>11,
       <2>12, <2>13, <2>14, <2>15, <2>16, <2>17, <2>18
       DEF Next, Runner, Process
<1>3. QED
  BY <1>1, <1>2, PTL DEF Spec

-----------------------------------------------------------------------------
(* CheckedIsDurable.                                                       *)

\* The entry of s has not changed since the last Save made by s: s is between
\* checks, or in a check that has not yet touched the entry.
Settled(s) ==
    \/ pc[s] \in {"idle", "check"}
    \/ pc[s] \in {"publish", "remember"} /\ ~Trending(s)

\* The inductive strengthening.  One Save runs at a time, the copy it writes
\* holds the current entry of every settled source and of its own, and so does
\* state.json for the settled sources whose last Save succeeded.
SaveInv ==
    /\ \A s \in Sources : pc[s] = "write" => mutex = s /\ buf[s][s] = mem[s]
    /\ \A s \in Sources :
          Settled(s) /\ ~unsaved[s] =>
             /\ disk[s] = mem[s]
             /\ \A h \in Sources : pc[h] = "write" => buf[h][s] = mem[s]

LEMMA SaveInvInit == Init => SaveInv
BY DEF Init, SaveInv, NoEntries

LEMMA SaveInvNext == TypeOK /\ SaveInv /\ [Next]_vars => SaveInv'
<1> SUFFICES ASSUME TypeOK, SaveInv, [Next]_vars PROVE SaveInv'
  OBVIOUS
<1> USE DEF TypeOK, SaveInv, Settled, Trending
<1>1. ASSUME NEW s \in Sources, FetchOK(s) PROVE SaveInv'
  BY <1>1 DEF FetchOK, memVars, obsVars
<1>2. ASSUME NEW s \in Sources, FetchFails(s) PROVE SaveInv'
  BY <1>2 DEF FetchFails
<1>3. ASSUME NEW s \in Sources, FirstRun(s) PROVE SaveInv'
  BY <1>3 DEF FirstRun
<1>4. ASSUME NEW s \in Sources, Diff(s) PROVE SaveInv'
  <2>1. /\ pc[s] = "check" /\ ~Trending(s)
        /\ \/ pc' = [pc EXCEPT ![s] = "remember"]
           \/ pc' = [pc EXCEPT ![s] = "publish"]
        /\ UNCHANGED <<mem, disk, mutex, buf, unsaved>>
    BY <1>4 DEF Diff, Loudly, memVars
  <2>2. QED
    BY <2>1
<1>5. ASSUME NEW s \in Sources, DiffTrending(s) PROVE SaveInv'
  <2>1. /\ pc[s] = "check" /\ Trending(s)
        /\ \/ pc' = [pc EXCEPT ![s] = "save"]
           \/ pc' = [pc EXCEPT ![s] = "publish"]
        /\ \E e : mem' = [mem EXCEPT ![s] = e]
        /\ UNCHANGED <<disk, mutex, buf, unsaved>>
    BY <1>5 DEF DiffTrending, Loudly
  <2>2. QED
    BY <2>1
<1>6. ASSUME NEW s \in Sources, NEW r, Published(s, r) PROVE SaveInv'
  BY <1>6 DEF Published, AfterPublish, memVars
<1>7. ASSUME NEW s \in Sources, Remember(s) PROVE SaveInv'
  BY <1>7 DEF Remember, obsVars
<1>8. ASSUME NEW s \in Sources, SaveSnapshot(s) PROVE SaveInv'
  <2>1. \A h \in Sources : pc[h] # "write"
    BY <1>8 DEF SaveSnapshot
  <2>2. QED
    BY <1>8, <2>1 DEF SaveSnapshot, obsVars
<1>9. ASSUME NEW s \in Sources, SaveReturns(s),
             \/ disk' = buf[s] /\ unsaved' = [unsaved EXCEPT ![s] = FALSE]
             \/ disk' = disk /\ unsaved' = [unsaved EXCEPT ![s] = TRUE]
      PROVE  SaveInv'
  <2>1. \A h \in Sources : pc'[h] # "write"
    BY <1>9 DEF SaveReturns
  <2>2. QED
    BY <1>9, <2>1 DEF SaveReturns
<1>10. ASSUME NEW s \in Sources, Exit(s) PROVE SaveInv'
  BY <1>10 DEF Exit, memVars, obsVars
<1>11. ASSUME NEW s \in Sources, PageChanges(s) PROVE SaveInv'
  BY <1>11 DEF PageChanges, runVars, memVars, obsVars
<1>12. CASE Signal
  BY <1>12 DEF Signal, runVars, memVars, obsVars
<1>13. CASE FinalSave
  BY <1>13 DEF FinalSave, runVars
<1>14. CASE Crash
  BY <1>14 DEF Crash
<1>15. CASE Restart
  BY <1>15 DEF Restart
<1>16. CASE UNCHANGED vars
  BY <1>16 DEF vars, runVars, memVars, obsVars
<1>17. QED
  BY <1>1, <1>2, <1>3, <1>4, <1>5, <1>6, <1>7, <1>8, <1>9, <1>10, <1>11,
     <1>12, <1>13, <1>14, <1>15, <1>16
     DEF Next, Runner, Process, PublishOK, PublishFails, SaveOK, SaveFails

\* However the checks and saves of any number of sources interleave, with
\* failures, crashes and restarts, the entry of a source that is between two
\* checks and whose last save succeeded is the one in state.json.
THEOREM Durability == Spec => []CheckedIsDurable
<1>1. SaveInv => CheckedIsDurable
  BY DEF SaveInv, Settled, CheckedIsDurable
<1>2. QED
  BY <1>1, TypeCorrect, SaveInvInit, SaveInvNext, PTL DEF Spec

-----------------------------------------------------------------------------
(* NoSilentAddition.                                                       *)

\* The inductive strengthening.  The copies of the state that are on their way
\* to the disk hold only announced items as well, and so do the fetched items
\* that Remember is about to store; while they are being published, the items
\* that are not announced are the ones in the notification.
AnnouncedInv ==
    \A s \in Sources : ~Trending(s) =>
        /\ Seen(mem[s]) \subseteq announced[s]
        /\ Seen(disk[s]) \subseteq announced[s]
        /\ \A h \in Sources : Seen(buf[h][s]) \subseteq announced[s]
        /\ pc[s] = "publish" => items[s] \subseteq announced[s] \cup added[s]
        /\ pc[s] = "remember" => items[s] \subseteq announced[s]

\* Seen of the entries the actions build.
LEMMA SeenOfEntries ==
    /\ \A c \in SUBSET Items : Seen(EntryAfterCheck(c)) = c
    /\ \A e \in Entry \cup {NoEntry} : Seen(EntryAfterError(e)) = Seen(e)
    /\ Seen(NoEntry) = {}
<1>1. ASSUME NEW c \in SUBSET Items PROVE Seen(EntryAfterCheck(c)) = c
  <2>1. EntryAfterCheck(c) # NoEntry
    BY EntryTypes
  <2>2. QED
    BY <2>1 DEF Seen, EntryAfterCheck
<1>2. ASSUME NEW e \in Entry \cup {NoEntry}
      PROVE  Seen(EntryAfterError(e)) = Seen(e)
  <2>1. EntryAfterError(e) # NoEntry
    BY EntryTypes
  <2>2. Seen(EntryAfterError(e)) = EntryAfterError(e).seen
    BY <2>1 DEF Seen
  <2>3. QED
    BY <2>2 DEF EntryAfterError
<1>3. QED
  BY <1>1, <1>2 DEF Seen

LEMMA AnnouncedInvInit == Init => AnnouncedInv
BY SeenOfEntries DEF Init, AnnouncedInv, NoEntries

LEMMA AnnouncedInvNext == TypeOK /\ AnnouncedInv /\ [Next]_vars => AnnouncedInv'
<1> SUFFICES ASSUME TypeOK, AnnouncedInv, [Next]_vars PROVE AnnouncedInv'
  OBVIOUS
<1> USE SeenOfEntries DEF TypeOK, AnnouncedInv, Trending
<1>1. ASSUME NEW s \in Sources, FetchOK(s) PROVE AnnouncedInv'
  BY <1>1 DEF FetchOK, memVars, obsVars
<1>2. ASSUME NEW s \in Sources, FetchFails(s) PROVE AnnouncedInv'
  BY <1>2 DEF FetchFails
<1>3. ASSUME NEW s \in Sources, FirstRun(s) PROVE AnnouncedInv'
  BY <1>3 DEF FirstRun, Silently, NeedsNoTelling
<1>4. ASSUME NEW s \in Sources, Diff(s) PROVE AnnouncedInv'
  <2> DEFINE new == items[s] \ Seen(mem[s])
  <2>1. /\ ~Trending(s)
        /\ UNCHANGED <<mem, disk, buf, items>>
        /\ \/ /\ Silently(s) /\ pc' = [pc EXCEPT ![s] = "remember"]
              /\ (new = {} /\ UNCHANGED announced) \/ NeedsNoTelling(s)
           \/ \E missing : Loudly(s, new, missing)
    BY <1>4 DEF Diff, Quiet, memVars
  <2>2. CASE /\ Silently(s) /\ pc' = [pc EXCEPT ![s] = "remember"]
             /\ (new = {} /\ UNCHANGED announced) \/ NeedsNoTelling(s)
    <3>1. new = {} => items[s] \subseteq announced[s]
      BY <2>1
    <3>2. QED
      BY <2>1, <2>2, <3>1 DEF Silently, NeedsNoTelling
  <2>3. CASE \E missing : Loudly(s, new, missing)
    <3>1. items[s] \subseteq announced[s] \cup new
      BY <2>1
    <3>2. QED
      BY <2>1, <2>3, <3>1 DEF Loudly
  <2>4. QED
    BY <2>1, <2>2, <2>3
<1>5. ASSUME NEW s \in Sources, DiffTrending(s) PROVE AnnouncedInv'
  <2>1. /\ Trending(s)
        /\ \A t \in Sources \ {s} : /\ mem'[t] = mem[t]
                                    /\ pc'[t] = pc[t]
                                    /\ added'[t] = added[t]
                                    /\ announced'[t] = announced[t]
        /\ UNCHANGED <<disk, buf, items>>
    BY <1>5 DEF DiffTrending, Silently, Loudly
  <2>2. QED
    BY <2>1
<1>6. ASSUME NEW s \in Sources, NEW r, Published(s, r) PROVE AnnouncedInv'
  BY <1>6 DEF Published, AfterPublish, memVars
<1>7. ASSUME NEW s \in Sources, Remember(s) PROVE AnnouncedInv'
  BY <1>7 DEF Remember, obsVars
<1>8. ASSUME NEW s \in Sources, SaveSnapshot(s) PROVE AnnouncedInv'
  BY <1>8 DEF SaveSnapshot, obsVars
<1>9. ASSUME NEW s \in Sources, SaveReturns(s), disk' = buf[s] \/ disk' = disk
      PROVE  AnnouncedInv'
  BY <1>9 DEF SaveReturns, NoEntries
<1>10. ASSUME NEW s \in Sources, Exit(s) PROVE AnnouncedInv'
  BY <1>10 DEF Exit, memVars, obsVars
<1>11. ASSUME NEW s \in Sources, PageChanges(s) PROVE AnnouncedInv'
  BY <1>11 DEF PageChanges, runVars, memVars, obsVars
<1>12. CASE Signal
  BY <1>12 DEF Signal, runVars, memVars, obsVars
<1>13. CASE FinalSave
  BY <1>13 DEF FinalSave, runVars
<1>14. CASE Crash
  BY <1>14 DEF Crash, NoEntries
<1>15. CASE Restart
  BY <1>15 DEF Restart
<1>16. CASE UNCHANGED vars
  BY <1>16 DEF vars, runVars, memVars, obsVars
<1>17. QED
  BY <1>1, <1>2, <1>3, <1>4, <1>5, <1>6, <1>7, <1>8, <1>9, <1>10, <1>11,
     <1>12, <1>13, <1>14, <1>15, <1>16
     DEF Next, Runner, Process, PublishOK, PublishFails, SaveOK, SaveFails

\* No item of a generic source enters a baseline, in memory or on disk, before
\* the user was tried to be told of it, wherever the process is killed.
THEOREM Announcement == Spec => []NoSilentAddition
<1>1. AnnouncedInv => NoSilentAddition
  BY DEF AnnouncedInv, NoSilentAddition
<1>2. QED
  BY <1>1, TypeCorrect, AnnouncedInvInit, AnnouncedInvNext, PTL DEF Spec

-----------------------------------------------------------------------------
(* ReaderInSync.                                                           *)

\* What the reader knows of s fits the baseline in memory.
InSync(s) ==
    /\ Seen(mem[s]) \subseteq told[s]
    /\ Exact(s) => told[s] = Seen(mem[s])

\* The sources the reader can follow: nothing was lost, no model filters.
Followed(s) == ~gap[s] /\ Type[s] # "page_llm"

\* The inductive strengthening for one source.  Between RememberTrending and
\* its publish the baseline is ahead of the reader by the notification, between
\* a publish and the deferred Remember the reader is ahead of the baseline; a
\* single value has at most one item, so an unchanged value is all there is.
SyncInv(s) ==
    /\ pc[s] \in {"idle", "check", "save", "write", "exited"} => InSync(s)
    /\ pc[s] = "publish" /\ ~Trending(s) =>
          /\ InSync(s)
          /\ added[s] = items[s] \ Seen(mem[s])
          /\ gone[s] = NotifyRemoved(s, Seen(mem[s]) \ items[s])
    /\ pc[s] = "publish" /\ Trending(s) =>
          Seen(mem[s]) \subseteq told[s] \cup added[s] /\ gone[s] = {}
    /\ pc[s] = "remember" =>
          items[s] \subseteq told[s] /\ (Exact(s) => told[s] = items[s])
    /\ pc[s] \in {"check", "publish", "remember"} => items[s] \in Pages(s)
    /\ Type[s] = "single" => \A i, j \in Seen(mem[s]) : i = j
    /\ phase = "down" => mem[s] = disk[s]

ReaderInv ==
    \A s \in Sources :
        /\ page[s] \in Pages(s)
        /\ phase = "down" => pc[s] = "exited"
        /\ Followed(s) => SyncInv(s)

\* A single value has one item on its page.
LEMMA OneItem ==
    \A s \in Sources : Type[s] = "single" =>
        \A p \in Pages(s) : p # {} /\ \A i, j \in p : i = j
BY DEF Pages

LEMMA ReaderInvInit == Init => ReaderInv
BY SeenOfEntries DEF Init, ReaderInv, SyncInv, InSync, NoEntries

\* A source no step of this kind concerns.
Idle(t) ==
    /\ page'[t] = page[t]
    /\ pc'[t] = pc[t] /\ mem'[t] = mem[t] /\ items'[t] = items[t]
    /\ added'[t] = added[t] /\ gone'[t] = gone[t]
    /\ told'[t] = told[t] /\ gap'[t] = gap[t]
    /\ phase' = "down" => phase = "down" /\ disk'[t] = disk[t]

LEMMA IdleKeeps ==
    ASSUME ReaderInv, NEW t \in Sources, Idle(t)
    PROVE  /\ page'[t] \in Pages(t)
           /\ phase' = "down" => pc'[t] = "exited"
           /\ Followed(t)' => SyncInv(t)'
<1>1. page'[t] \in Pages(t) /\ (phase' = "down" => pc'[t] = "exited")
  BY DEF ReaderInv, Idle
<1>2. ASSUME Followed(t)' PROVE SyncInv(t)'
  <2>1. SyncInv(t)
    BY <1>2 DEF ReaderInv, Followed, Idle
  <2>2. InSync(t)' = InSync(t)
    BY DEF InSync, Idle
  <2>3. (phase = "down" => mem[t] = disk[t])'
    BY <2>1 DEF SyncInv, Idle
  <2>4. QED
    BY <2>1, <2>2, <2>3 DEF SyncInv, Idle
<1>3. QED
  BY <1>1, <1>2

\* A check that is quiet leaves the reader with all that was fetched.
LEMMA QuietIsInSync ==
    ASSUME TypeOK, ReaderInv, NEW s \in Sources, Followed(s),
           pc[s] = "check", ~Trending(s),
           Quiet(s, items[s] \ Seen(mem[s]), Seen(mem[s]) \ items[s])
    PROVE  items[s] \subseteq told[s] /\ (Exact(s) => told[s] = items[s])
<1>1. /\ InSync(s) /\ items[s] \in Pages(s)
      /\ Type[s] = "single" => \A i, j \in Seen(mem[s]) : i = j
  BY DEF ReaderInv, SyncInv
<1>2. items[s] \subseteq Seen(mem[s])
  BY DEF Quiet
<1>3. items[s] \subseteq told[s]
  BY <1>1, <1>2 DEF InSync
<1>4. ASSUME Exact(s) PROVE told[s] = items[s]
  <2>1. told[s] = Seen(mem[s])
    BY <1>1, <1>4 DEF InSync
  <2>2. CASE Seen(mem[s]) \subseteq items[s]
    BY <1>2, <2>1, <2>2
  <2>3. CASE IgnoreRemovals[s]
    <3>1. Type[s] = "single"
      BY <1>4, <2>3 DEF Exact
    <3>2. items[s] # {}
      BY <1>1, <3>1, OneItem
    <3>3. \A i, j \in Seen(mem[s]) : i = j
      BY <1>1, <3>1
    <3>4. QED
      BY <1>2, <2>1, <3>2, <3>3
  <2>4. QED
    BY <2>2, <2>3 DEF Quiet
<1>5. QED
  BY <1>3, <1>4

\* A delivered notification of a generic source brings the reader to what was
\* fetched.
LEMMA DeliveryIsInSync ==
    ASSUME TypeOK, ReaderInv, NEW s \in Sources, Followed(s),
           pc[s] = "publish", ~Trending(s)
    PROVE  LET now == (told[s] \ gone[s]) \cup added[s]
           IN  items[s] \subseteq now /\ (Exact(s) => now = items[s])
<1>1. /\ InSync(s)
      /\ added[s] = items[s] \ Seen(mem[s])
      /\ gone[s] = NotifyRemoved(s, Seen(mem[s]) \ items[s])
  BY DEF ReaderInv, SyncInv
<1>2. gone[s] \subseteq Seen(mem[s]) \ items[s]
  BY <1>1 DEF NotifyRemoved
<1>3. items[s] \subseteq (told[s] \ gone[s]) \cup added[s]
  BY <1>1, <1>2 DEF InSync
<1>4. Exact(s) => gone[s] = Seen(mem[s]) \ items[s]
  BY <1>1 DEF NotifyRemoved, Exact
<1>5. QED
  BY <1>1, <1>3, <1>4 DEF InSync

LEMMA ReaderInvNext == TypeOK /\ ReaderInv /\ [Next]_vars => ReaderInv'
<1> SUFFICES ASSUME TypeOK, ReaderInv, [Next]_vars PROVE ReaderInv'
  OBVIOUS
\* It is enough to look at the source that takes the step.
<1>0. ASSUME NEW s \in Sources, \A t \in Sources \ {s} : Idle(t),
             pc[s] # "exited", UNCHANGED <<page, phase>>,
             Followed(s) /\ SyncInv(s) /\ Followed(s)' => SyncInv(s)',
             gap[s] => gap'[s]
      PROVE  ReaderInv'
  <2>1. /\ page'[s] \in Pages(s)
        /\ phase' = "down" => pc'[s] = "exited"
        /\ Followed(s)' => SyncInv(s)'
    BY <1>0 DEF ReaderInv, Followed
  <2>2. QED
    BY <1>0, <2>1, IdleKeeps DEF ReaderInv
<1>1. ASSUME NEW s \in Sources, FetchOK(s) PROVE ReaderInv'
  <2>1. \A t \in Sources \ {s} : Idle(t)
    BY <1>1 DEF FetchOK, memVars, obsVars, Idle, TypeOK
  <2>2. /\ pc[s] = "idle" /\ pc'[s] = "check" /\ items'[s] \in Pages(s)
        /\ UNCHANGED <<page, phase, mem, disk, told, gap>>
    BY <1>1 DEF FetchOK, memVars, obsVars, ReaderInv, TypeOK
  <2>3. SyncInv(s) => SyncInv(s)'
    BY <2>2 DEF SyncInv, InSync
  <2>4. QED
    BY <1>0, <2>1, <2>2, <2>3
<1>2. ASSUME NEW s \in Sources, FetchFails(s) PROVE ReaderInv'
  <2>1. \A t \in Sources \ {s} : Idle(t)
    BY <1>2 DEF FetchFails, Idle, TypeOK
  <2>2. /\ pc[s] = "idle" /\ pc'[s] = "save" /\ phase # "down"
        /\ UNCHANGED <<page, phase, items, disk, told, gap>>
    BY <1>2 DEF FetchFails, TypeOK
  <2>3. Seen(mem'[s]) = Seen(mem[s])
    <3>1. mem'[s] = EntryAfterError(mem[s])
      BY <1>2 DEF FetchFails, TypeOK
    <3>2. QED
      BY <3>1, SeenOfEntries DEF TypeOK
  <2>4. SyncInv(s) => SyncInv(s)'
    BY <2>2, <2>3 DEF SyncInv, InSync
  <2>5. QED
    BY <1>0, <2>1, <2>2, <2>4
<1>3. ASSUME NEW s \in Sources, FirstRun(s) PROVE ReaderInv'
  <2>1. \A t \in Sources \ {s} : Idle(t)
    BY <1>3 DEF FirstRun, Silently, NeedsNoTelling, Idle, TypeOK
  <2>2. /\ pc[s] = "check" /\ pc'[s] = "save" /\ told'[s] = items[s]
        /\ UNCHANGED <<page, phase, items, disk, gap>>
    BY <1>3 DEF FirstRun, TypeOK
  <2>3. Seen(mem'[s]) = items[s]
    <3>1. mem'[s] = EntryAfterCheck(items[s])
      BY <1>3 DEF FirstRun, TypeOK
    <3>2. QED
      BY <3>1, SeenOfEntries DEF TypeOK
  <2>4. SyncInv(s) => SyncInv(s)'
    <3>1. SyncInv(s) /\ Type[s] = "single" => \A i, j \in items[s] : i = j
      BY <2>2, OneItem DEF SyncInv
    <3>2. phase # "down"
      BY <2>2 DEF ReaderInv
    <3>3. QED
      BY <2>2, <2>3, <3>1, <3>2 DEF SyncInv, InSync
  <2>5. QED
    BY <1>0, <2>1, <2>2, <2>4
<1>4. ASSUME NEW s \in Sources, Diff(s) PROVE ReaderInv'
  <2> DEFINE fresh   == items[s] \ Seen(mem[s])
             missing == Seen(mem[s]) \ items[s]
  <2>1. /\ ~Trending(s) /\ pc[s] = "check"
        /\ UNCHANGED <<page, phase, items, mem, disk, gap>>
    BY <1>4 DEF Diff, memVars, cntVars
  <2>2. \/ /\ Quiet(s, fresh, missing) /\ Silently(s)
           /\ pc' = [pc EXCEPT ![s] = "remember"] /\ UNCHANGED told
        \/ Loudly(s, fresh, NotifyRemoved(s, missing))
        \/ /\ Type[s] = "page_llm" /\ Silently(s)
           /\ pc' = [pc EXCEPT ![s] = "remember"] /\ UNCHANGED told
    BY <1>4, Zenon DEF Diff
  <2> HIDE DEF fresh, missing
  <2>3. \A t \in Sources \ {s} : Idle(t)
    BY <2>1, <2>2 DEF Silently, Loudly, Idle, TypeOK
  <2>5. ASSUME Followed(s), SyncInv(s) PROVE SyncInv(s)'
    <3>1. Followed(s) /\ SyncInv(s)
      BY <2>5
    <3>2. CASE /\ Quiet(s, fresh, missing) /\ Silently(s)
               /\ pc' = [pc EXCEPT ![s] = "remember"] /\ UNCHANGED told
      <4>1. items[s] \subseteq told[s] /\ (Exact(s) => told[s] = items[s])
        BY <2>1, <3>1, <3>2, QuietIsInSync DEF fresh, missing
      <4>2. QED
        BY <2>1, <3>1, <3>2, <4>1 DEF SyncInv, TypeOK
    <3>3. CASE Loudly(s, fresh, NotifyRemoved(s, missing))
      <4>1. /\ added'[s] = items[s] \ Seen(mem[s])
            /\ gone'[s] = NotifyRemoved(s, Seen(mem[s]) \ items[s])
        BY <3>3 DEF Loudly, TypeOK, fresh, missing
      <4>2. QED
        BY <2>1, <3>1, <3>3, <4>1 DEF Loudly, SyncInv, InSync, TypeOK
    <3>4. QED
      BY <2>2, <3>1, <3>2, <3>3 DEF Followed
  <2>6. QED
    BY <1>0, <2>1, <2>3, <2>5
<1>5. ASSUME NEW s \in Sources, DiffTrending(s) PROVE ReaderInv'
  <2>1. PICK forgotten \in SUBSET Seen(mem[s]) :
           LET kept == Seen(mem[s]) \ forgotten
               new  == NewRepos(s, kept)
           IN  /\ mem' = [mem EXCEPT ![s] = EntryAfterCheck(kept \cup items[s])]
               /\ \/ /\ new = {} /\ Silently(s)
                     /\ pc' = [pc EXCEPT ![s] = "save"]
                     /\ UNCHANGED <<announced, told>>
                  \/ Loudly(s, new, {})
    BY <1>5 DEF DiffTrending
  <2> DEFINE kept == Seen(mem[s]) \ forgotten
             new  == items[s] \ kept
  <2>2. /\ Trending(s) /\ pc[s] = "check"
        /\ UNCHANGED <<page, phase, items, disk, gap>>
    BY <1>5 DEF DiffTrending, cntVars
  <2>3. /\ mem' = [mem EXCEPT ![s] = EntryAfterCheck(kept \cup items[s])]
        /\ \/ /\ new = {} /\ Silently(s)
              /\ pc' = [pc EXCEPT ![s] = "save"] /\ told' = told
           \/ Loudly(s, new, {})
    BY <2>1, Zenon DEF NewRepos
  <2>4. kept \cup items[s] \in SUBSET Items
    BY EntryTypes DEF TypeOK
  <2>5. Seen(mem'[s]) = kept \cup items[s] /\ kept \subseteq Seen(mem[s])
    BY <2>3, <2>4, SeenOfEntries DEF TypeOK
  <2>6. \A t \in Sources \ {s} : Idle(t)
    BY <2>2, <2>3 DEF Silently, Loudly, Idle, TypeOK
  <2>7. phase # "down" /\ ~Exact(s) /\ Type[s] # "single"
    BY <2>2 DEF ReaderInv, Exact, Trending
  <2> HIDE DEF kept
  <2>8. ASSUME SyncInv(s) PROVE SyncInv(s)'
    <3>1. phase' # "down"
      BY <2>2, <2>7
    <3>2. CASE /\ new = {} /\ Silently(s)
               /\ pc' = [pc EXCEPT ![s] = "save"] /\ told' = told
      <4>1. pc'[s] = "save"
        BY <3>2 DEF TypeOK
      <4>2. InSync(s)'
        BY <2>2, <2>5, <2>7, <2>8, <3>2 DEF SyncInv, InSync
      <4>3. QED
        BY <2>7, <3>1, <4>1, <4>2 DEF SyncInv
    <3>3. CASE Loudly(s, new, {})
      <4>1. pc'[s] = "publish" /\ added'[s] = new /\ gone'[s] = {} /\ told' = told
        BY <3>3 DEF Loudly, TypeOK
      <4>2. Seen(mem'[s]) \subseteq told'[s] \cup added'[s]
        BY <2>2, <2>5, <2>8, <4>1 DEF SyncInv, InSync
      <4>3. items'[s] \in Pages(s)
        BY <2>2, <2>8 DEF SyncInv
      <4>4. QED
        BY <2>2, <2>7, <3>1, <4>1, <4>2, <4>3 DEF SyncInv
    <3>4. QED
      BY <2>3, <3>2, <3>3
  <2>9. QED
    BY <1>0, <2>2, <2>6, <2>8
<1>6. ASSUME NEW s \in Sources, NEW r, Published(s, r),
             \/ Deliver(s) /\ UNCHANGED gap
             \/ /\ gap' = [gap EXCEPT ![s] = TRUE]
                /\ Deliver(s) \/ UNCHANGED told
      PROVE  ReaderInv'
  <2>1. \A t \in Sources \ {s} : Idle(t)
    BY <1>6 DEF Published, Deliver, memVars, Idle, TypeOK
  <2>2. pc[s] = "publish" /\ UNCHANGED <<page, phase>>
    BY <1>6 DEF Published
  <2>3. ASSUME Followed(s), SyncInv(s), Followed(s)' PROVE SyncInv(s)'
    <3>1. Followed(s) /\ SyncInv(s) /\ Deliver(s)
      BY <1>6, <2>3 DEF Followed, TypeOK
    <3>2. /\ told'[s] = (told[s] \ gone[s]) \cup added[s]
          /\ pc'[s] = AfterPublish(s)
          /\ UNCHANGED <<phase, items, mem, disk>>
      BY <1>6, <3>1 DEF Deliver, Published, memVars, TypeOK
    <3>3. CASE Trending(s)
      <4>1. pc'[s] = "save" /\ ~Exact(s)
        BY <3>2, <3>3 DEF AfterPublish, Exact
      <4>2. Seen(mem[s]) \subseteq told'[s]
        BY <2>2, <3>1, <3>2, <3>3 DEF SyncInv
      <4>3. QED
        BY <2>2, <3>1, <3>2, <3>3, <4>1, <4>2 DEF SyncInv, InSync
    <3>4. CASE ~Trending(s)
      <4>1. pc'[s] = "remember"
        BY <3>2, <3>4 DEF AfterPublish
      <4>2. items[s] \subseteq told'[s] /\ (Exact(s) => told'[s] = items[s])
        BY <2>2, <3>1, <3>2, <3>4, DeliveryIsInSync
      <4>3. QED
        BY <2>2, <3>1, <3>2, <4>1, <4>2 DEF SyncInv
    <3>5. QED
      BY <3>3, <3>4
  <2>4. gap[s] => gap'[s]
    BY <1>6 DEF TypeOK
  <2>5. QED
    BY <1>0, <2>1, <2>2, <2>3, <2>4
<1>7. ASSUME NEW s \in Sources, Remember(s) PROVE ReaderInv'
  <2>1. \A t \in Sources \ {s} : Idle(t)
    BY <1>7 DEF Remember, obsVars, Idle, TypeOK
  <2>2. /\ pc[s] = "remember" /\ pc'[s] = "save"
        /\ UNCHANGED <<page, phase, items, disk, told, gap>>
    BY <1>7 DEF Remember, obsVars, TypeOK
  <2>3. Seen(mem'[s]) = items[s]
    <3>1. mem'[s] = EntryAfterCheck(items[s])
      BY <1>7 DEF Remember, TypeOK
    <3>2. QED
      BY <3>1, SeenOfEntries DEF TypeOK
  <2>4. SyncInv(s) => SyncInv(s)'
    <3>1. SyncInv(s) /\ Type[s] = "single" => \A i, j \in items[s] : i = j
      BY <2>2, OneItem DEF SyncInv
    <3>2. phase # "down"
      BY <2>2 DEF ReaderInv
    <3>3. QED
      BY <2>2, <2>3, <3>1, <3>2 DEF SyncInv, InSync
  <2>5. QED
    BY <1>0, <2>1, <2>2, <2>4
<1>8. ASSUME NEW s \in Sources, SaveSnapshot(s) \/ SaveReturns(s) \/ Exit(s)
      PROVE  ReaderInv'
  <2>1. /\ UNCHANGED <<page, phase, mem, added, gone, told, gap>>
        /\ pc[s] \in {"save", "write", "idle"}
        /\ \E k \in {"write", "idle", "exited"} : pc' = [pc EXCEPT ![s] = k]
        /\ \A t \in Sources \ {s} : items'[t] = items[t]
    BY <1>8 DEF SaveSnapshot, SaveReturns, Exit, memVars, obsVars, TypeOK
  <2>2. phase' # "down"
    BY <2>1 DEF ReaderInv
  <2>3. \A t \in Sources \ {s} : Idle(t)
    BY <2>1, <2>2 DEF Idle, TypeOK
  <2>4. pc'[s] \in {"write", "idle", "exited"}
    BY <2>1 DEF TypeOK
  <2>5. SyncInv(s) => SyncInv(s)'
    BY <2>1, <2>2, <2>4 DEF SyncInv, InSync
  <2>6. QED
    BY <1>0, <2>1, <2>3, <2>5
<1>9. ASSUME NEW s \in Sources, PageChanges(s) PROVE ReaderInv'
  <2>1. \A t \in Sources : page'[t] \in Pages(t)
    BY <1>9 DEF PageChanges, ReaderInv, TypeOK
  <2>2. UNCHANGED <<phase, pc, items, added, gone, mem, disk, told, gap>>
    BY <1>9 DEF PageChanges, runVars, memVars, obsVars
  <2>3. \A t \in Sources : SyncInv(t)' = SyncInv(t) /\ Followed(t)' = Followed(t)
    BY <2>2 DEF SyncInv, InSync, Followed
  <2>4. QED
    BY <2>1, <2>2, <2>3 DEF ReaderInv
<1>10. CASE Signal
  <2>1. \A t \in Sources : Idle(t)
    BY <1>10 DEF Signal, runVars, memVars, obsVars, Idle
  <2>2. QED
    BY <2>1, IdleKeeps DEF ReaderInv
\* The processes that end: whatever is not on the disk is a gap.
<1>11. CASE FinalSave
  <2>1. /\ \A t \in Sources : pc[t] = "exited" /\ pc'[t] = "exited"
        /\ UNCHANGED <<page, items, added, gone, mem, told>>
        /\ phase' = "down"
        /\ (disk' = mem /\ gap' = gap) \/ (disk' = disk /\ gap' = CutShort)
    BY <1>11 DEF FinalSave, runVars
  <2>2. ASSUME NEW t \in Sources, Followed(t)' PROVE SyncInv(t)'
    <3>1. Followed(t) /\ mem'[t] = disk'[t]
      BY <2>1, <2>2 DEF Followed, CutShort
    <3>2. SyncInv(t)
      BY <3>1 DEF ReaderInv
    <3>3. QED
      BY <2>1, <3>1, <3>2 DEF SyncInv, InSync
  <2>3. QED
    BY <2>1, <2>2 DEF ReaderInv
<1>12. CASE Crash
  <2>1. /\ \A t \in Sources : pc'[t] = "exited"
        /\ UNCHANGED <<page, mem, disk, told>>
        /\ phase' = "down" /\ gap' = CutShort
    BY <1>12 DEF Crash
  <2>2. ASSUME NEW t \in Sources, Followed(t)' PROVE SyncInv(t)'
    <3>1. /\ Followed(t) /\ mem[t] = disk[t]
          /\ pc[t] # "remember" /\ (pc[t] = "publish" => ~Trending(t))
      BY <2>1, <2>2 DEF Followed, CutShort
    <3>2. SyncInv(t)
      BY <3>1 DEF ReaderInv
    <3>3. InSync(t)
      BY <3>1, <3>2 DEF SyncInv, TypeOK
    <3>4. QED
      BY <2>1, <3>1, <3>2, <3>3 DEF SyncInv, InSync
  <2>3. QED
    BY <2>1, <2>2 DEF ReaderInv
<1>13. CASE Restart
  <2>1. /\ \A t \in Sources : pc'[t] = "idle"
        /\ UNCHANGED <<page, disk, told, gap>>
        /\ phase = "down" /\ phase' = "up" /\ mem' = disk
    BY <1>13 DEF Restart
  <2>2. ASSUME NEW t \in Sources, Followed(t)' PROVE SyncInv(t)'
    <3>1. Followed(t) /\ SyncInv(t) /\ pc[t] = "exited"
      BY <2>1, <2>2 DEF Followed, ReaderInv
    <3>2. mem'[t] = mem[t]
      BY <2>1, <3>1 DEF SyncInv
    <3>3. QED
      BY <2>1, <3>1, <3>2 DEF SyncInv, InSync
  <2>3. QED
    BY <2>1, <2>2 DEF ReaderInv
<1>14. CASE UNCHANGED vars
  <2>1. \A t \in Sources : Idle(t)
    BY <1>14 DEF vars, runVars, memVars, obsVars, Idle
  <2>2. QED
    BY <2>1, IdleKeeps DEF ReaderInv
<1>15. QED
  BY <1>1, <1>2, <1>3, <1>4, <1>5, <1>6, <1>7, <1>8, <1>9, <1>10, <1>11,
     <1>12, <1>13, <1>14
     DEF Next, Runner, Process, PublishOK, PublishFails, SaveOK, SaveFails

\* Whoever applies the delivered notifications of a source in order holds its
\* baseline (all of it where removals are reported), through any number of
\* checks, failures, crashes and restarts that lose no notification.
THEOREM ReaderFollows == Spec => []ReaderInSync
<1>1. ReaderInv => ReaderInSync
  BY DEF ReaderInv, SyncInv, InSync, Followed, ReaderInSync
<1>2. QED
  BY <1>1, TypeCorrect, ReaderInvInit, ReaderInvNext, PTL DEF Spec

=============================================================================
