--------------------------- MODULE SyncQueueProofs ---------------------------
(* The guard of the sync queue's handlers keeps syncs of one job apart, for *)
(* any jobs and any number of concurrent handler invocations.               *)
EXTENDS SyncQueue, TLAPS

Labels == {"idle", "picking"} \union Deciding \union Guarded \union Scanning \union Ended

USE SyncQueueConstants DEF Deciding, Marking, Saving, Failing, Scanning, Guarded, Ended

LEMMA InitInv == Init => IInv
<1> SUFFICES ASSUME Init PROVE IInv
  OBVIOUS
<1>1. TypeOK
  BY DEF Init, TypeOK, Queues, Statuses, Flags, Empty
<1>2. \A c \in Calls : pc[c] = "idle"
  BY DEF Init
<1>3. guard = {}
  BY DEF Init
<1>4. RaceSeen /\ DecidersFree /\ OneSyncPerJob /\ PauseReachesSync
  BY <1>2 DEF RaceSeen, Race, DecidersFree, OneSyncPerJob, PauseReachesSync, Owns
<1>5. GuardExact
  BY <1>2, <1>3 DEF GuardExact, Owns
<1>6. Saved
  BY <1>2 DEF Init, Saved, OverlapSeen, Overlap, Window, SyncedListed, Empty,
     OwnersUnsynced, Owns, OneSaver, SyncedStays, Merging, Renaming
<1> QED
  BY <1>1, <1>4, <1>5, <1>6 DEF IInv

-----------------------------------------------------------------------------
(* Types                                                                   *)

LEMMA UpdatedType ==
  ASSUME NEW c \in Calls, TypeOK, Updated(c)
  PROVE  /\ want' \in [Calls -> Statuses]
         /\ snap' \in [Calls -> Queues]
         /\ pc' \in [Calls -> Labels]
         /\ guard' \subseteq Jobs
         /\ signal' \in [Jobs -> Calls \union {None}]
         /\ paused' \subseteq Calls
  BY DEF TypeOK, Updated, Goto, Finish, guardVars, Labels, Queues, Statuses, Empty

LEMMA HistoryType ==
  ASSUME TypeOK, NEW more \in SUBSET {"race", "overlap", "resync", "leak", "unread"},
         History(more)
  PROVE  hazards' \subseteq {"race", "overlap", "resync", "leak", "unread"}
  BY DEF TypeOK, History

LEMMA TypeStep == TypeOK /\ [Next]_vars => TypeOK'
<1> SUFFICES ASSUME TypeOK, [Next]_vars PROVE TypeOK'
  OBVIOUS
<1> USE DEF fileVars, guardVars, manifestVars, Goto
<1>h. ASSUME NEW more \in SUBSET {"race", "overlap", "resync", "leak", "unread"},
             History(more)
      PROVE  hazards' \subseteq {"race", "overlap", "resync", "leak", "unread"}
  BY <1>h, HistoryType
<1>1. ASSUME NEW c \in Calls, Start(c) PROVE TypeOK'
  BY <1>1, <1>h DEF TypeOK, Start
<1>2. ASSUME NEW c \in Calls, StartBatch(c) PROVE TypeOK'
  BY <1>2, <1>h DEF TypeOK, StartBatch
<1>3. ASSUME NEW c \in Calls, Refresh(c) PROVE TypeOK'
  <2>1. PICK q \in {queue, Empty} :
          /\ snap' = [snap EXCEPT ![c] = q]
          /\ History(IF q # queue THEN {"unread"} ELSE {})
    BY <1>3 DEF Refresh
  <2>2. q \in Queues
    BY <2>1 DEF TypeOK, Queues, Empty, Statuses
  <2>3. hazards' \subseteq {"race", "overlap", "resync", "leak", "unread"}
    BY <2>1, <1>h
  <2> QED
    BY <1>3, <2>1, <2>2, <2>3 DEF TypeOK, Refresh
<1>4. ASSUME NEW c \in Calls, GetJob(c) PROVE TypeOK'
  BY <1>4, <1>h DEF TypeOK, GetJob
<1>5. ASSUME NEW c \in Calls, Pick(c) PROVE TypeOK'
  <2>1. hazards' \subseteq {"race", "overlap", "resync", "leak", "unread"}
    BY <1>5, <1>h DEF Pick
  <2>2. CASE todo[c] = {} /\ Goto(c, "done") /\ UNCHANGED <<job, todo>>
    BY <1>5, <2>1, <2>2 DEF TypeOK, Pick
  <2>3. ASSUME NEW j \in todo[c],
               todo' = [todo EXCEPT ![c] = @ \ {j}],
               job' = [job EXCEPT ![c] = j],
               Goto(c, IF j \in guard THEN "picking" ELSE "linking")
        PROVE  TypeOK'
    <3>1. j \in Jobs /\ todo[c] \ {j} \subseteq Jobs
      BY DEF TypeOK
    <3> QED
      BY <1>5, <2>1, <2>3, <3>1 DEF TypeOK, Pick
  <2> QED
    BY <1>5, <2>2, <2>3 DEF Pick
<1>6. ASSUME NEW c \in Calls, Blocked(c) PROVE TypeOK'
  BY <1>6, <1>h DEF TypeOK, Blocked
<1>7. ASSUME NEW c \in Calls, Claim(c) PROVE TypeOK'
  <2>1. hazards' \subseteq {"race", "overlap", "resync", "leak", "unread"}
    BY <1>7, <1>h DEF Claim
  <2> QED
    BY <1>7, <2>1 DEF TypeOK, Claim, Statuses
<1>8. ASSUME NEW c \in Calls, UpdateLoad(c) PROVE TypeOK'
  <2>1. PICK q \in {queue, Empty} :
          /\ IF q[job[c]] = "absent"
               THEN Updated(c)
               ELSE /\ snap' = [snap EXCEPT ![c] = q]
                    /\ Goto(c, Loaded(c))
                    /\ UNCHANGED <<guardVars, want>>
          /\ History(IF q # queue THEN {"unread"} ELSE {})
    BY <1>8 DEF UpdateLoad
  <2>2. hazards' \subseteq {"race", "overlap", "resync", "leak", "unread"}
    BY <2>1, <1>h
  <2>3. q \in Queues
    BY <2>1 DEF TypeOK, Queues, Empty, Statuses
  <2>4. CASE Updated(c)
    BY <1>8, <2>2, <2>4, UpdatedType DEF TypeOK, UpdateLoad, Labels
  <2>5. CASE /\ snap' = [snap EXCEPT ![c] = q]
             /\ Goto(c, Loaded(c))
             /\ UNCHANGED <<guardVars, want>>
    BY <1>8, <2>2, <2>3, <2>5 DEF TypeOK, UpdateLoad, Loaded
  <2> QED
    BY <2>1, <2>4, <2>5
<1>9. ASSUME NEW c \in Calls, UpdateWrite(c) PROVE TypeOK'
  <2>1. [snap[c] EXCEPT ![job[c]] = want[c]] \in Queues
    BY DEF TypeOK, Queues
  <2>2. hazards' \subseteq {"race", "overlap", "resync", "leak", "unread"}
    BY <1>9, <1>h DEF UpdateWrite
  <2>3. Empty \in Queues
    BY DEF Empty, Queues, Statuses
  <2> QED
    BY <1>9, <2>1, <2>2, <2>3 DEF TypeOK, UpdateWrite, Written
<1>10. ASSUME NEW c \in Calls, UpdateRename(c) PROVE TypeOK'
  <2>1. hazards' \subseteq {"race", "overlap", "resync", "leak", "unread"}
    BY <1>10, <1>h DEF UpdateRename
  <2>2. synced' \subseteq Jobs
    BY <1>10 DEF TypeOK, UpdateRename
  <2>3. Updated(c)
    BY <1>10 DEF UpdateRename
  <2> QED
    BY <1>10, <2>1, <2>2, <2>3, UpdatedType DEF TypeOK, UpdateRename, Labels
<1>11. ASSUME NEW c \in Calls, UpdateFails(c) PROVE TypeOK'
  <2>1. hazards' \subseteq {"race", "overlap", "resync", "leak", "unread"}
    BY <1>11, <1>h DEF UpdateFails
  <2>2. Empty \in Queues
    BY DEF Empty, Queues, Statuses
  <2>3. CASE pc[c] \in Marking
    BY <1>11, <2>1, <2>2, <2>3 DEF TypeOK, UpdateFails
  <2>4. CASE pc[c] \in Saving
    BY <1>11, <2>1, <2>2, <2>4 DEF TypeOK, UpdateFails, Statuses
  <2>5. CASE pc[c] \notin Marking \union Saving
    BY <1>11, <2>1, <2>2, <2>5 DEF TypeOK, UpdateFails, Finish
  <2> QED
    BY <2>3, <2>4, <2>5
<1>12. ASSUME NEW c \in Calls, Launch(c) PROVE TypeOK'
  BY <1>12, <1>h DEF TypeOK, Launch
<1>13. ASSUME NEW c \in Calls, SyncEnds(c) PROVE TypeOK'
  <2>1. hazards' \subseteq {"race", "overlap", "resync", "leak", "unread"}
    BY <1>13, <1>h DEF SyncEnds
  <2>2. want' \in [Calls -> Statuses]
    BY <1>13 DEF TypeOK, SyncEnds, Statuses, Flags
  <2>3. pc' \in [Calls -> Labels]
    BY <1>13 DEF TypeOK, SyncEnds, Labels
  <2>4. newer' \subseteq Jobs
    BY <1>13 DEF TypeOK, SyncEnds
  <2> QED
    BY <1>13, <2>1, <2>2, <2>3, <2>4 DEF TypeOK, SyncEnds, Labels
<1>14. ASSUME NEW c \in Calls, ScanWrite(c) PROVE TypeOK'
  <2>1. PICK seen \in SUBSET Listed, again \in SUBSET updated :
          /\ tmp' = Scanned(snap[c], seen, again)
          /\ History(IF seen # Listed THEN {"unread"} ELSE {})
    BY <1>14 DEF ScanWrite
  <2>2. Scanned(snap[c], seen, again) \in Queues
    BY DEF TypeOK, Scanned, Queues, Statuses, Flags
  <2>3. Empty \in Queues
    BY DEF Empty, Queues, Statuses
  <2>4. hazards' \subseteq {"race", "overlap", "resync", "leak", "unread"}
    BY <2>1, <1>h
  <2> QED
    BY <1>14, <2>1, <2>2, <2>3, <2>4 DEF TypeOK, ScanWrite
<1>15. ASSUME NEW c \in Calls, ScanRename(c) PROVE TypeOK'
  BY <1>15, <1>h DEF TypeOK, ScanRename
<1>16. ASSUME NEW c \in Calls, RefreshFails(c) PROVE TypeOK'
  <2>1. Empty \in Queues
    BY DEF Empty, Queues, Statuses
  <2> QED
    BY <1>16, <2>1, <1>h DEF TypeOK, RefreshFails
<1>17. ASSUME NEW j \in Jobs, PauseJob(j) PROVE TypeOK'
  BY <1>17, <1>h DEF TypeOK, PauseJob
<1>18. ASSUME NEW j \in Jobs, AppendJob(j) PROVE TypeOK'
  <2>1. hazards' \subseteq {"race", "overlap", "resync", "leak", "unread"}
    BY <1>18, <1>h DEF AppendJob
  <2>2. /\ entry' \in [Jobs -> Flags \union {"absent"}]
        /\ updated' \subseteq Jobs /\ newer' \subseteq Jobs /\ synced' \subseteq Jobs
    BY <1>18 DEF TypeOK, AppendJob, Listed
  <2> QED
    BY <1>18, <2>1, <2>2 DEF TypeOK, AppendJob
<1>19. CASE Crash
  <2>1. hazards' \subseteq {"race", "overlap", "resync", "leak", "unread"}
    BY <1>19, <1>h DEF Crash
  <2>2. Empty \in Queues
    BY DEF Empty, Queues, Statuses
  <2> QED
    BY <1>19, <2>1, <2>2 DEF TypeOK, Crash, Statuses
<1>20. CASE UNCHANGED vars
  BY <1>20 DEF TypeOK, vars
<1> QED
  BY <1>1, <1>2, <1>3, <1>4, <1>5, <1>6, <1>7, <1>8, <1>9, <1>10, <1>11, <1>12,
     <1>13, <1>14, <1>15, <1>16, <1>17, <1>18, <1>19, <1>20
     DEF Next, Begin, Running, Update

-----------------------------------------------------------------------------
(* The guard                                                               *)

GuardInv == RaceSeen /\ DecidersFree /\ OneSyncPerJob /\ GuardExact

LEMMA HistoryRace ==
  ASSUME NEW more, History(more)
  PROVE  hazards \subseteq hazards' /\ RaceSeen'
  BY DEF History, RaceSeen

\* A step that neither claims nor gives up a job, and finds free only jobs
\* that the guard does not hold.
LEMMA GuardFrame ==
  ASSUME GuardInv, guard' = guard, hazards \subseteq hazards', RaceSeen',
         \A c \in Calls : /\ Owns(c)' <=> Owns(c)
                          /\ Owns(c) => job'[c] = job[c],
         \A c \in Calls : pc'[c] \in Deciding =>
           \/ job'[c] \notin guard
           \/ pc[c] \in Deciding /\ job'[c] = job[c]
  PROVE  GuardInv'
<1>0. CASE "race" \in hazards'
  BY <1>0 DEF GuardInv, DecidersFree, OneSyncPerJob, GuardExact
<1>1. CASE "race" \notin hazards'
  <2>1. "race" \notin hazards
    BY <1>1
  <2>2. /\ guard = {job[c] : c \in {d \in Calls : Owns(d)}}
        /\ \A c, d \in Calls : Owns(c) /\ Owns(d) /\ job[c] = job[d] => c = d
        /\ \A c, d \in Calls : pc[c] \in Deciding /\ Owns(d) => job[c] # job[d]
    BY <2>1 DEF GuardInv, DecidersFree, OneSyncPerJob, GuardExact
  <2>3. \A d \in Calls : Owns(d) => job[d] \in guard
    BY <2>2
  <2>4. GuardExact'
    <3>1. {job'[c] : c \in {d \in Calls : Owns(d)'}}
          = {job[c] : c \in {d \in Calls : Owns(d)}}
      BY ONLY \A c \in Calls : (Owns(c)' <=> Owns(c)) /\ (Owns(c) => job'[c] = job[c])
    <3> QED
      BY <2>2, <3>1 DEF GuardExact
  <2>5. OneSyncPerJob'
    BY <2>2 DEF OneSyncPerJob
  <2>6. DecidersFree'
    BY <2>2, <2>3 DEF DecidersFree
  <2> QED
    BY <2>4, <2>5, <2>6 DEF GuardInv
<1> QED
  BY <1>0, <1>1

\* Whoever claims a job is the only one that had found it free.
LEMMA GuardClaim ==
  ASSUME TypeOK, GuardInv, NEW c \in Calls, Claim(c)
  PROVE  GuardInv'
<1>1. hazards \subseteq hazards' /\ RaceSeen'
  BY HistoryRace DEF Claim
<1>0. CASE "race" \in hazards'
  BY <1>0, <1>1 DEF GuardInv, DecidersFree, OneSyncPerJob, GuardExact
<1>2. CASE "race" \notin hazards'
  <2>1. "race" \notin hazards
    BY <1>1, <1>2
  <2>2. /\ guard = {job[e] : e \in {d \in Calls : Owns(d)}}
        /\ \A e, d \in Calls : Owns(e) /\ Owns(d) /\ job[e] = job[d] => e = d
        /\ \A e, d \in Calls : pc[e] \in Deciding /\ Owns(d) => job[e] # job[d]
    BY <2>1 DEF GuardInv, DecidersFree, OneSyncPerJob, GuardExact
  <2>3. \A d \in Calls : pc[d] \in Deciding /\ d # c => job[d] # job[c]
    BY <2>1 DEF GuardInv, RaceSeen, Race, Claim
  <2>4. /\ pc[c] \in Deciding /\ pc' = [pc EXCEPT ![c] = "markLoad"]
        /\ job' = job /\ guard' = guard \union {job[c]}
    BY DEF Claim, Goto
  <2>6. GuardExact'
    <3>1. {job[e] : e \in {d \in Calls : Owns(d)'}}
          = {job[e] : e \in {d \in Calls : Owns(d)}} \union {job[c]}
      BY <2>4 DEF Owns, TypeOK
    <3> QED
      BY <2>2, <2>4, <3>1 DEF GuardExact
  <2>7. OneSyncPerJob'
    BY <2>2, <2>4 DEF OneSyncPerJob, Owns, TypeOK
  <2>8. DecidersFree'
    BY <2>2, <2>3, <2>4 DEF DecidersFree, Owns, TypeOK
  <2> QED
    BY <1>1, <2>6, <2>7, <2>8 DEF GuardInv
<1> QED
  BY <1>0, <1>2

\* finally gives up the job of its own call and no other's.
LEMMA GuardFinish ==
  ASSUME TypeOK, GuardInv, NEW c \in Calls, Owns(c), job' = job,
         pc' = [pc EXCEPT ![c] = pc'[c]], pc'[c] \in {"picking", "done"},
         guard' = guard \ {job[c]}, hazards \subseteq hazards', RaceSeen'
  PROVE  GuardInv'
<1>0. CASE "race" \in hazards'
  BY <1>0 DEF GuardInv, DecidersFree, OneSyncPerJob, GuardExact
<1>2. CASE "race" \notin hazards'
  <2>1. "race" \notin hazards
    BY <1>2
  <2>2. /\ guard = {job[e] : e \in {d \in Calls : Owns(d)}}
        /\ \A e, d \in Calls : Owns(e) /\ Owns(d) /\ job[e] = job[d] => e = d
        /\ \A e, d \in Calls : pc[e] \in Deciding /\ Owns(d) => job[e] # job[d]
    BY <2>1 DEF GuardInv, DecidersFree, OneSyncPerJob, GuardExact
  <2>6. GuardExact'
    <3>1. {job[e] : e \in {d \in Calls : Owns(d)'}}
          = {job[e] : e \in {d \in Calls : Owns(d)}} \ {job[c]}
      BY <2>2 DEF Owns, TypeOK
    <3> QED
      BY <2>2, <3>1 DEF GuardExact
  <2>7. OneSyncPerJob'
    BY <2>2 DEF OneSyncPerJob, Owns, TypeOK
  <2>8. DecidersFree'
    BY <2>2 DEF DecidersFree, Owns, TypeOK
  <2> QED
    BY <2>6, <2>7, <2>8 DEF GuardInv
<1> QED
  BY <1>0, <1>2

\* The steps of a call that owns its job and keeps it.
LEMMA GuardKeep ==
  ASSUME TypeOK, GuardInv, NEW c \in Calls, Owns(c), job' = job, guard' = guard,
         pc' = [pc EXCEPT ![c] = pc'[c]], pc'[c] \in Guarded \union {"leaked"},
         hazards \subseteq hazards', RaceSeen'
  PROVE  GuardInv'
<1>1. \A d \in Calls : Owns(d)' <=> Owns(d)
  BY DEF Owns, TypeOK
<1>2. \A d \in Calls : Owns(d) => job'[d] = job[d]
  OBVIOUS
<1>3. \A d \in Calls : pc'[d] \in Deciding => pc[d] \in Deciding /\ job'[d] = job[d]
  BY DEF TypeOK
<1> QED
  BY <1>1, <1>2, <1>3, GuardFrame

\* The steps of a call that owns no job before and after.
LEMMA GuardAside ==
  ASSUME TypeOK, GuardInv, NEW c \in Calls, ~Owns(c), guard' = guard,
         pc' = [pc EXCEPT ![c] = pc'[c]], pc'[c] \notin Guarded \union {"leaked"},
         job' = [job EXCEPT ![c] = job'[c]],
         pc'[c] \in Deciding => \/ job'[c] \notin guard
                               \/ (pc[c] \in Deciding /\ job'[c] = job[c]),
         hazards \subseteq hazards', RaceSeen'
  PROVE  GuardInv'
<1>1. \A d \in Calls : Owns(d)' <=> Owns(d)
  BY DEF Owns, TypeOK
<1>2. \A d \in Calls : Owns(d) => job'[d] = job[d]
  BY DEF TypeOK
<1>3. \A d \in Calls : pc'[d] \in Deciding =>
        \/ job'[d] \notin guard
        \/ pc[d] \in Deciding /\ job'[d] = job[d]
  BY DEF TypeOK
<1> QED
  BY <1>1, <1>2, <1>3, GuardFrame

\* updateJob done: the job stays claimed after the mark and is given up after
\* the verdict.
LEMMA GuardUpdated ==
  ASSUME TypeOK, GuardInv, NEW c \in Calls, Owns(c), pc[c] # "leaked", job' = job,
         Updated(c), hazards \subseteq hazards', RaceSeen'
  PROVE  GuardInv'
<1>1. CASE pc[c] \in Marking
  <2>1. /\ guard' = guard
        /\ pc' = [pc EXCEPT ![c] = "launching"]
    BY <1>1 DEF Updated, Goto, guardVars
  <2>2. pc'[c] = "launching"
    BY <2>1 DEF TypeOK
  <2> QED
    BY <2>1, <2>2, GuardKeep
<1>2. CASE pc[c] \notin Marking
  <2>1. /\ guard' = guard \ {job[c]}
        /\ pc' = [pc EXCEPT ![c] = IF KindOf[c] = "batch" THEN "picking" ELSE "done"]
    BY <1>2 DEF Updated, Goto, Finish
  <2>2. pc'[c] \in {"picking", "done"} /\ pc' = [pc EXCEPT ![c] = pc'[c]]
    BY <2>1 DEF TypeOK
  <2> QED
    BY <2>1, <2>2, GuardFinish
<1> QED
  BY <1>1, <1>2

LEMMA GuardStep == TypeOK /\ GuardInv /\ [Next]_vars => GuardInv'
<1> SUFFICES ASSUME TypeOK, GuardInv, [Next]_vars PROVE GuardInv'
  OBVIOUS
<1> USE DEF guardVars, Goto
<1>1. ASSUME NEW c \in Calls, Start(c) PROVE GuardInv'
  <2>1. hazards \subseteq hazards' /\ RaceSeen'
    BY <1>1, HistoryRace DEF Start
  <2>2. ~Owns(c) /\ guard' = guard /\ job' = job
    BY <1>1 DEF Start, Owns
  <2>3. pc' = [pc EXCEPT ![c] = pc'[c]] /\ pc'[c] \in {"done", "checking"}
        /\ (pc'[c] \in Deciding => job[c] \notin guard)
    BY <1>1 DEF Start, TypeOK
  <2>4. job' = [job EXCEPT ![c] = job'[c]]
    BY <2>2 DEF TypeOK
  <2> QED
    BY <2>1, <2>2, <2>3, <2>4, GuardAside
<1>2. ASSUME NEW c \in Calls, StartBatch(c) \/ Refresh(c) PROVE GuardInv'
  <2>1. hazards \subseteq hazards' /\ RaceSeen'
    BY <1>2, HistoryRace DEF StartBatch, Refresh
  <2>2. ~Owns(c) /\ guard' = guard /\ job' = job
    BY <1>2 DEF StartBatch, Refresh, Owns
  <2>3. pc' = [pc EXCEPT ![c] = pc'[c]] /\ pc'[c] \in {"picking", "scanning"}
    BY <1>2 DEF StartBatch, Refresh, TypeOK
  <2>4. job' = [job EXCEPT ![c] = job'[c]]
    BY <2>2 DEF TypeOK
  <2> QED
    BY <2>1, <2>2, <2>3, <2>4, GuardAside
<1>3. ASSUME NEW c \in Calls, GetJob(c) \/ Blocked(c) PROVE GuardInv'
  <2>1. hazards \subseteq hazards' /\ RaceSeen'
    BY <1>3, HistoryRace DEF GetJob, Blocked
  <2>2. ~Owns(c) /\ pc[c] \in Deciding /\ guard' = guard /\ job' = job
    BY <1>3 DEF GetJob, Blocked, Owns
  <2>3. pc' = [pc EXCEPT ![c] = pc'[c]] /\ pc'[c] \in {"linking", "picking", "done"}
    BY <1>3 DEF GetJob, Blocked, TypeOK
  <2>4. job' = [job EXCEPT ![c] = job'[c]]
    BY <2>2 DEF TypeOK
  <2> QED
    BY <2>1, <2>2, <2>3, <2>4, GuardAside
<1>4. ASSUME NEW c \in Calls, Pick(c) PROVE GuardInv'
  <2>1. hazards \subseteq hazards' /\ RaceSeen'
    BY <1>4, HistoryRace DEF Pick
  <2>2. ~Owns(c) /\ guard' = guard
    BY <1>4 DEF Pick, Owns
  <2>3. pc' = [pc EXCEPT ![c] = pc'[c]] /\ pc'[c] \in {"linking", "picking", "done"}
        /\ (pc'[c] \in Deciding => job'[c] \notin guard)
    BY <1>4 DEF Pick, TypeOK
  <2>4. job' = [job EXCEPT ![c] = job'[c]]
    BY <1>4 DEF Pick, TypeOK
  <2>5. \A d \in Calls : Owns(d)' <=> Owns(d)
    BY <2>2, <2>3 DEF Owns, TypeOK
  <2>6. \A d \in Calls : Owns(d) => job'[d] = job[d]
    BY <2>2, <2>4 DEF TypeOK
  <2>7. \A d \in Calls : pc'[d] \in Deciding =>
          \/ job'[d] \notin guard
          \/ pc[d] \in Deciding /\ job'[d] = job[d]
    BY <2>3, <2>4 DEF TypeOK
  <2> QED
    BY <2>1, <2>2, <2>5, <2>6, <2>7, GuardFrame
<1>5. ASSUME NEW c \in Calls, Claim(c) PROVE GuardInv'
  BY <1>5, GuardClaim
<1>6. ASSUME NEW c \in Calls, UpdateLoad(c) PROVE GuardInv'
  <2>1. PICK q \in {queue, Empty} :
          /\ IF q[job[c]] = "absent"
               THEN Updated(c)
               ELSE /\ snap' = [snap EXCEPT ![c] = q]
                    /\ Goto(c, Loaded(c))
                    /\ UNCHANGED <<guardVars, want>>
          /\ History(IF q # queue THEN {"unread"} ELSE {})
    BY <1>6 DEF UpdateLoad
  <2>2. hazards \subseteq hazards' /\ RaceSeen'
    BY <2>1, HistoryRace
  <2>3. Owns(c) /\ pc[c] # "leaked" /\ job' = job
    BY <1>6 DEF UpdateLoad, Loading, Owns
  <2>4. CASE Updated(c)
    BY <2>2, <2>3, <2>4, GuardUpdated
  <2>5. CASE Goto(c, Loaded(c)) /\ UNCHANGED <<guardVars, want>>
    <3>1. pc' = [pc EXCEPT ![c] = pc'[c]] /\ pc'[c] \in Guarded /\ guard' = guard
      BY <2>5 DEF Loaded, TypeOK
    <3> QED
      BY <2>2, <2>3, <3>1, GuardKeep
  <2> QED
    BY <2>1, <2>4, <2>5
<1>7. ASSUME NEW c \in Calls, UpdateWrite(c) PROVE GuardInv'
  <2>1. hazards \subseteq hazards' /\ RaceSeen'
    BY <1>7, HistoryRace DEF UpdateWrite
  <2>2. Owns(c) /\ guard' = guard /\ job' = job
    BY <1>7 DEF UpdateWrite, Merging, Owns
  <2>3. pc' = [pc EXCEPT ![c] = pc'[c]] /\ pc'[c] \in Guarded
    BY <1>7 DEF UpdateWrite, Written, TypeOK
  <2> QED
    BY <2>1, <2>2, <2>3, GuardKeep
<1>8. ASSUME NEW c \in Calls, UpdateRename(c) PROVE GuardInv'
  <2>1. hazards \subseteq hazards' /\ RaceSeen'
    BY <1>8, HistoryRace DEF UpdateRename
  <2>2. Owns(c) /\ pc[c] # "leaked" /\ Updated(c) /\ job' = job
    BY <1>8 DEF UpdateRename, Renaming, Owns
  <2> QED
    BY <2>1, <2>2, GuardUpdated
<1>9. ASSUME NEW c \in Calls, UpdateFails(c) PROVE GuardInv'
  <2>1. hazards \subseteq hazards' /\ RaceSeen'
    BY <1>9, HistoryRace DEF UpdateFails
  <2>2. Owns(c) /\ job' = job
    BY <1>9 DEF UpdateFails, Merging, Renaming, Owns
  <2>3. CASE pc[c] \in Marking \union Saving
    <3>1. pc' = [pc EXCEPT ![c] = pc'[c]] /\ pc'[c] \in Guarded \union {"leaked"}
          /\ guard' = guard
      BY <1>9, <2>3 DEF UpdateFails, TypeOK
    <3> QED
      BY <2>1, <2>2, <3>1, GuardKeep
  <2>4. CASE pc[c] \notin Marking \union Saving
    <3>1. pc' = [pc EXCEPT ![c] = pc'[c]] /\ pc'[c] = "done"
          /\ guard' = guard \ {job[c]}
      BY <1>9, <2>4 DEF UpdateFails, Finish, TypeOK
    <3> QED
      BY <2>1, <2>2, <3>1, GuardFinish
  <2> QED
    BY <2>3, <2>4
<1>10. ASSUME NEW c \in Calls, Launch(c) \/ SyncEnds(c) PROVE GuardInv'
  <2>1. hazards \subseteq hazards' /\ RaceSeen'
    BY <1>10, HistoryRace DEF Launch, SyncEnds
  <2>2. Owns(c) /\ guard' = guard /\ job' = job
    BY <1>10 DEF Launch, SyncEnds, Owns
  <2>3. pc' = [pc EXCEPT ![c] = pc'[c]] /\ pc'[c] \in Guarded
    BY <1>10 DEF Launch, SyncEnds, TypeOK
  <2> QED
    BY <2>1, <2>2, <2>3, GuardKeep
<1>11. ASSUME NEW c \in Calls, ScanWrite(c) \/ ScanRename(c) \/ RefreshFails(c)
       PROVE  GuardInv'
  <2>1. hazards \subseteq hazards' /\ RaceSeen'
    BY <1>11, HistoryRace DEF ScanWrite, ScanRename, RefreshFails
  <2>2. ~Owns(c) /\ guard' = guard /\ job' = job
    BY <1>11 DEF ScanWrite, ScanRename, RefreshFails, Owns
  <2>3. pc' = [pc EXCEPT ![c] = pc'[c]] /\ pc'[c] \in {"scanRename", "done"}
    BY <1>11 DEF ScanWrite, ScanRename, RefreshFails, TypeOK
  <2>4. job' = [job EXCEPT ![c] = job'[c]]
    BY <2>2 DEF TypeOK
  <2> QED
    BY <2>1, <2>2, <2>3, <2>4, GuardAside
<1>12. ASSUME NEW j \in Jobs, PauseJob(j) \/ AppendJob(j) PROVE GuardInv'
  <2>1. hazards \subseteq hazards' /\ RaceSeen'
    BY <1>12, HistoryRace DEF PauseJob, AppendJob
  <2>2. guard' = guard /\ pc' = pc /\ job' = job
    BY <1>12 DEF PauseJob, AppendJob
  <2> QED
    BY <2>1, <2>2, GuardFrame DEF Owns
<1>13. CASE Crash
  <2>1. hazards \subseteq hazards' /\ RaceSeen'
    BY <1>13, HistoryRace DEF Crash
  <2>2. guard' = {} /\ \A c \in Calls : pc'[c] \in {"idle", "done", "dead"}
    BY <1>13 DEF Crash
  <2>3. \A c \in Calls : ~Owns(c)' /\ pc'[c] \notin Deciding
    BY <2>2 DEF Owns
  <2>4. GuardExact'
    BY <2>2, <2>3 DEF GuardExact
  <2> QED
    BY <2>1, <2>3, <2>4 DEF GuardInv, DecidersFree, OneSyncPerJob
<1>14. CASE UNCHANGED vars
  BY <1>14 DEF vars, GuardInv, RaceSeen, Race, DecidersFree, OneSyncPerJob,
               GuardExact, Owns
<1> QED
  BY <1>1, <1>2, <1>3, <1>4, <1>5, <1>6, <1>7, <1>8, <1>9, <1>10, <1>11, <1>12,
     <1>13, <1>14 DEF Next, Begin, Running, Update

-----------------------------------------------------------------------------
(* The pause signal                                                        *)

\* Only Launch makes a call copy; a signal goes with the job's owner.
LEMMA SignalStep == IInv /\ [Next]_vars => PauseReachesSync'
<1> SUFFICES ASSUME IInv, [Next]_vars, "race" \notin hazards',
                    NEW e \in Calls, pc'[e] = "copying"
             PROVE  signal'[job'[e]] = e
  BY DEF PauseReachesSync
<1> USE DEF guardVars, Goto
<1>0. /\ TypeOK /\ OneSyncPerJob /\ PauseReachesSync
  BY DEF IInv
<1>f. ASSUME hazards \subseteq hazards', signal' = signal, job'[e] = job[e], pc[e] = "copying"
      PROVE  signal'[job'[e]] = e
  BY <1>f, <1>0 DEF PauseReachesSync
<1>g. ASSUME NEW c \in Calls, hazards \subseteq hazards', Owns(c), pc[e] = "copying", e # c,
             job' = job, signal' = [signal EXCEPT ![job[c]] = None]
      PROVE  signal'[job'[e]] = e
  <2>1. Owns(e) /\ "race" \notin hazards
    BY <1>g DEF Owns
  <2>2. job[e] # job[c]
    BY <1>g, <2>1, <1>0 DEF OneSyncPerJob
  <2> QED
    BY <1>g, <2>1, <2>2, <1>0 DEF PauseReachesSync, TypeOK
<1>u. ASSUME NEW c \in Calls, hazards \subseteq hazards', Owns(c), Updated(c), job' = job
      PROVE  signal'[job'[e]] = e
  <2>1. pc[e] = "copying" /\ e # c
    BY <1>u, <1>0 DEF Updated, TypeOK
  <2>2. CASE signal' = signal
    BY <1>u, <2>1, <2>2, <1>f
  <2>3. CASE signal' = [signal EXCEPT ![job[c]] = None]
    BY <1>u, <2>1, <2>3, <1>g
  <2> QED
    BY <1>u, <2>2, <2>3 DEF Updated, Finish
<1>1. ASSUME NEW c \in Calls,
             \/ Start(c) \/ StartBatch(c) \/ Refresh(c) \/ GetJob(c) \/ Blocked(c)
             \/ Claim(c) \/ UpdateWrite(c) \/ SyncEnds(c)
             \/ ScanWrite(c) \/ ScanRename(c) \/ RefreshFails(c)
      PROVE  signal'[job'[e]] = e
  <2>1. hazards \subseteq hazards'
    BY <1>1, HistoryRace DEF Start, StartBatch, Refresh, GetJob, Blocked, Claim,
       UpdateWrite, SyncEnds, ScanWrite, ScanRename, RefreshFails
  <2>2. signal' = signal /\ job' = job
    BY <1>1 DEF Start, StartBatch, Refresh, GetJob, Blocked, Claim,
       UpdateWrite, SyncEnds, ScanWrite, ScanRename, RefreshFails
  <2>3. pc' = [pc EXCEPT ![c] = pc'[c]] /\ pc'[c] # "copying"
    BY <1>1, <1>0 DEF TypeOK, Start, StartBatch, Refresh, GetJob, Blocked, Claim,
       UpdateWrite, Written, SyncEnds, ScanWrite, ScanRename, RefreshFails
  <2>4. pc[e] = "copying"
    BY <2>3, <1>0 DEF TypeOK
  <2> QED
    BY <2>1, <2>2, <2>4, <1>f
<1>2. ASSUME NEW c \in Calls, Pick(c) PROVE signal'[job'[e]] = e
  <2>1. hazards \subseteq hazards' /\ signal' = signal
    BY <1>2, HistoryRace DEF Pick
  <2>2. e # c /\ pc[e] = "copying" /\ job'[e] = job[e]
    BY <1>2, <1>0 DEF Pick, TypeOK
  <2> QED
    BY <2>1, <2>2, <1>f
<1>3. ASSUME NEW c \in Calls, UpdateLoad(c) PROVE signal'[job'[e]] = e
  <2>1. PICK q \in {queue, Empty} :
          /\ IF q[job[c]] = "absent"
               THEN Updated(c)
               ELSE /\ snap' = [snap EXCEPT ![c] = q]
                    /\ Goto(c, Loaded(c))
                    /\ UNCHANGED <<guardVars, want>>
          /\ History(IF q # queue THEN {"unread"} ELSE {})
    BY <1>3 DEF UpdateLoad
  <2>2. hazards \subseteq hazards' /\ Owns(c) /\ job' = job
    BY <1>3, <2>1, HistoryRace DEF UpdateLoad, Loading, Owns
  <2>3. CASE Updated(c)
    BY <2>2, <2>3, <1>u
  <2>4. CASE Goto(c, Loaded(c)) /\ UNCHANGED <<guardVars, want>>
    <3>1. pc[e] = "copying" /\ signal' = signal
      BY <2>4, <1>0 DEF Loaded, TypeOK
    <3> QED
      BY <2>2, <3>1, <1>f
  <2> QED
    BY <2>1, <2>3, <2>4
<1>4. ASSUME NEW c \in Calls, UpdateRename(c) PROVE signal'[job'[e]] = e
  <2>1. hazards \subseteq hazards'
    BY <1>4, HistoryRace DEF UpdateRename
  <2>2. Owns(c) /\ Updated(c) /\ job' = job
    BY <1>4 DEF UpdateRename, Renaming, Owns
  <2> QED
    BY <2>1, <2>2, <1>u
<1>5. ASSUME NEW c \in Calls, UpdateFails(c) PROVE signal'[job'[e]] = e
  <2>1. hazards \subseteq hazards'
    BY <1>5, HistoryRace DEF UpdateFails
  <2>2. Owns(c) /\ job' = job /\ e # c /\ pc[e] = "copying"
    BY <1>5, <1>0 DEF UpdateFails, Merging, Renaming, Owns, TypeOK
  <2>3. \/ signal' = signal
        \/ signal' = [signal EXCEPT ![job[c]] = None]
    BY <1>5 DEF UpdateFails, Finish
  <2> QED
    BY <2>1, <2>2, <2>3, <1>f, <1>g
<1>6. ASSUME NEW c \in Calls, Launch(c) PROVE signal'[job'[e]] = e
  <2>1. hazards \subseteq hazards'
    BY <1>6, HistoryRace DEF Launch
  <2>2. CASE e = c
    BY <1>6, <2>2, <1>0 DEF Launch, TypeOK
  <2>3. CASE e # c
    <3>1. pc[e] = "copying" /\ pc[c] = "launching" /\ job' = job
          /\ signal' = [signal EXCEPT ![job[c]] = c]
      BY <1>6, <2>3, <1>0 DEF Launch, TypeOK
    <3>2. job[e] # job[c]
      BY <2>1, <2>3, <3>1, <1>0 DEF OneSyncPerJob, Owns
    <3> QED
      BY <2>1, <3>1, <3>2, <1>0 DEF PauseReachesSync, TypeOK
  <2> QED
    BY <2>2, <2>3
<1>7. ASSUME NEW j \in Jobs, PauseJob(j) \/ AppendJob(j) PROVE signal'[job'[e]] = e
  <2>1. hazards \subseteq hazards'
    BY <1>7, HistoryRace DEF PauseJob, AppendJob
  <2> QED
    BY <1>7, <2>1, <1>f DEF PauseJob, AppendJob
<1>8. CASE Crash
  BY <1>8 DEF Crash
<1>9. CASE UNCHANGED vars
  BY <1>9, <1>f DEF vars
<1> QED
  BY <1>1, <1>2, <1>3, <1>4, <1>5, <1>6, <1>7, <1>8, <1>9
     DEF Next, Begin, Running, Update

-----------------------------------------------------------------------------
(* What is saved                                                           *)

LEMMA HistoryMore ==
  ASSUME NEW more, History(more)
  PROVE  hazards \subseteq hazards' /\ more \subseteq hazards' /\ OverlapSeen'
  BY DEF History, OverlapSeen

\* A step of a call outside the load, merge and save of the file.
LEMMA Outside ==
  ASSUME TypeOK, TypeOK', Saved, NEW c \in Calls, NEW more, History(more),
         UNCHANGED <<queue, tmp, synced>>,
         entry' = entry, newer' \subseteq newer,
         \A d \in Calls \ {c} : /\ pc'[d] = pc[d] /\ job'[d] = job[d]
                                /\ want'[d] = want[d] /\ snap'[d] = snap[d],
         pc'[c] \notin Window, snap'[c] \in {snap[c], Empty},
         Undisturbed' /\ Owns(c)' => job'[c] \notin synced
  PROVE  Saved'
<1> USE DEF Saved
<1>1. OverlapSeen' /\ (Undisturbed' => Undisturbed)
  BY HistoryMore DEF Undisturbed
<1>2. SyncedListed'
  BY DEF SyncedListed, manifestVars
<1>3. OwnersUnsynced'
  BY <1>1 DEF OwnersUnsynced, Owns
<1>4. OneSaver'
  <2>1. ASSUME Undisturbed', NEW d \in Calls, pc'[d] \in Window
        PROVE  d # c /\ pc[d] = pc'[d] /\ job'[d] = job[d] /\ want'[d] = want[d]
               /\ snap'[d] = snap[d]
    BY <2>1
  <2> QED
    BY <1>1, <2>1 DEF OneSaver, Merging, Renaming, Window
<1>5. SyncedStays'
  BY <1>1 DEF SyncedStays, Undisturbed
<1> QED
  BY <1>1, <1>2, <1>3, <1>4, <1>5

\* The file is read, as it is, by the only one who is about to save it.
LEMMA Reads ==
  ASSUME TypeOK, TypeOK', Saved, NEW c \in Calls, NEW q \in {queue, Empty},
         History(IF q # queue THEN {"unread"} ELSE {}),
         UNCHANGED <<queue, tmp, manifestVars, synced, job, want>>,
         snap' = [snap EXCEPT ![c] = q],
         pc' = [pc EXCEPT ![c] = pc'[c]],
         pc'[c] \in Merging \union {"scanning"},
         Owns(c)' => Owns(c)
  PROVE  Saved'
<1> USE DEF Saved
<1>1. OverlapSeen' /\ (Undisturbed' => Undisturbed /\ q = queue)
  BY HistoryMore DEF Undisturbed
<1>2. SyncedListed'
  BY DEF SyncedListed, manifestVars
<1>3. OwnersUnsynced'
  BY <1>1 DEF OwnersUnsynced, Owns, TypeOK
<1>4. OneSaver'
  BY <1>1 DEF OneSaver, Merging, Renaming, TypeOK
<1>5. SyncedStays'
  BY <1>1 DEF SyncedStays, Undisturbed
<1> QED
  BY <1>1, <1>2, <1>3, <1>4, <1>5

\* Nobody else is between the load and the rename.
LEMMA Alone ==
  ASSUME Saved, Undisturbed, NEW c \in Calls, pc[c] \in Window,
         NEW d \in Calls, pc[d] \in Window
  PROVE  c = d
  BY DEF Saved, OverlapSeen, Overlap, Undisturbed

LEMMA Writes ==
  ASSUME TypeOK, TypeOK', Saved, NEW c \in Calls, UpdateWrite(c)
  PROVE  Saved'
<1> USE DEF Saved
<1>1. OverlapSeen' /\ (Undisturbed' => Undisturbed)
  BY HistoryMore DEF UpdateWrite, Undisturbed
<1>2. /\ UNCHANGED <<queue, manifestVars, job, want, synced>>
      /\ pc' = [pc EXCEPT ![c] = Written(c)] /\ Written(c) \in Renaming
      /\ snap' = [snap EXCEPT ![c] = Empty]
      /\ tmp' = [snap[c] EXCEPT ![job[c]] = want[c]]
      /\ pc[c] \in Merging /\ pc[c] \in Window
  BY DEF UpdateWrite, Goto, Written, Renaming, Merging, Window
<1>3. SyncedListed'
  BY <1>2 DEF SyncedListed, manifestVars
<1>4. OwnersUnsynced'
  BY <1>1, <1>2 DEF OwnersUnsynced, Owns, TypeOK, Merging, Renaming
<1>5. OneSaver'
  <2>1. ASSUME Undisturbed', NEW d \in Calls, pc'[d] \in Window PROVE d = c
    BY <1>1, <1>2, <2>1, Alone DEF TypeOK
  <2> QED
    BY <1>1, <1>2, <2>1 DEF OneSaver, Merging, Renaming, Window, TypeOK
<1>6. SyncedStays'
  BY <1>1, <1>2 DEF SyncedStays, Undisturbed
<1> QED
  BY <1>1, <1>3, <1>4, <1>5, <1>6

\* A refresh writes what it makes of the queue: a verdict of a listed job stays.
LEMMA Scans ==
  ASSUME TypeOK, TypeOK', Saved, NEW c \in Calls, ScanWrite(c)
  PROVE  Saved'
<1> USE DEF Saved
<1>0. PICK seen \in SUBSET Listed, again \in SUBSET updated :
        /\ tmp' = Scanned(snap[c], seen, again)
        /\ History(IF seen # Listed THEN {"unread"} ELSE {})
  BY DEF ScanWrite
<1>1. OverlapSeen' /\ (Undisturbed' => Undisturbed /\ seen = Listed)
  BY <1>0, HistoryMore DEF Undisturbed
<1>2. /\ UNCHANGED <<queue, manifestVars, job, want, synced>>
      /\ pc' = [pc EXCEPT ![c] = "scanRename"]
      /\ snap' = [snap EXCEPT ![c] = Empty]
      /\ pc[c] = "scanning" /\ pc[c] \in Window
  BY DEF ScanWrite, Goto, Window
<1>3. SyncedListed'
  BY <1>2 DEF SyncedListed, manifestVars
<1>4. OwnersUnsynced'
  BY <1>1, <1>2 DEF OwnersUnsynced, Owns, TypeOK
<1>5. OneSaver'
  <2>1. ASSUME Undisturbed', NEW d \in Calls, pc'[d] \in Window PROVE d = c
    BY <1>1, <1>2, <2>1, Alone DEF TypeOK
  <2>2. ASSUME Undisturbed', NEW j \in synced PROVE tmp'[j] = "synced"
    <3>1. snap[c][j] = "synced" /\ j \in Jobs
      BY <1>1, <1>2, <2>2 DEF OneSaver, SyncedStays, Undisturbed, TypeOK
    <3>2. j \in seen /\ j \notin newer
      BY <1>1, <2>2, <3>1 DEF SyncedListed, Listed
    <3> QED
      BY <1>0, <3>1, <3>2 DEF Scanned
  <2> QED
    BY <1>1, <1>2, <2>1, <2>2 DEF OneSaver, Merging, Renaming, Window, TypeOK
<1>6. SyncedStays'
  BY <1>1, <1>2 DEF SyncedStays, Undisturbed
<1> QED
  BY <1>1, <1>3, <1>4, <1>5, <1>6

\* What is renamed into place has every "synced" that was saved, and its own.
LEMMA Renames ==
  ASSUME TypeOK, TypeOK', OneSyncPerJob, Saved, NEW c \in Calls,
         UpdateRename(c) \/ ScanRename(c)
  PROVE  Saved'
<1> USE DEF Saved
<1>1. OverlapSeen' /\ (Undisturbed' => Undisturbed)
  BY HistoryMore DEF UpdateRename, ScanRename, Undisturbed
<1>2. /\ UNCHANGED <<manifestVars, job>>
      /\ queue' = tmp /\ tmp' = None /\ tmp # None
      /\ \A d \in Calls \ {c} : pc'[d] = pc[d]
      /\ Owns(c)' => pc[c] = "markRename"
      /\ pc'[c] \notin Window
      /\ \A d \in Calls : snap'[d] \in {snap[d], Empty}
      /\ \A d \in Calls \ {c} : snap'[d] = snap[d]
      /\ pc[c] \in Window
  <2>1. CASE ScanRename(c)
    BY <2>1 DEF ScanRename, Goto, Window, Owns, TypeOK
  <2>2. CASE UpdateRename(c)
    <3>1. pc[c] \in Renaming /\ Updated(c)
      BY <2>2 DEF UpdateRename
    <3>2. pc' = [pc EXCEPT ![c] = pc'[c]] /\ pc'[c] \in {"launching", "picking", "done"}
      BY <3>1 DEF Updated, Goto, TypeOK
    <3>3. Owns(c)' => pc[c] = "markRename"
      BY <3>1 DEF Updated, Goto, Owns, Renaming, TypeOK
    <3> QED
      BY <2>2, <3>1, <3>2, <3>3 DEF UpdateRename, Updated, Renaming, Window, TypeOK
  <2> QED
    BY <2>1, <2>2
<1>3. \/ synced' = synced
      \/ /\ pc[c] = "rename" /\ want[c] = "synced" /\ synced' = synced \union {job[c]}
         /\ entry[job[c]] # "absent" /\ job[c] \notin newer
  BY DEF UpdateRename, ScanRename
<1>4. SyncedListed'
  BY <1>2, <1>3 DEF SyncedListed, manifestVars
<1>5. OwnersUnsynced'
  <2>1. SUFFICES ASSUME Undisturbed', NEW d \in Calls, Owns(d)' PROVE job[d] \notin synced'
    BY <1>2 DEF OwnersUnsynced
  <2>2. Owns(d)
    BY <1>2, <2>1 DEF Owns, TypeOK, UpdateRename, ScanRename, Renaming
  <2>3. CASE pc[c] = "rename"
    <3>1. d # c /\ Owns(c)
      BY <1>2, <2>1, <2>3 DEF Owns
    <3>2. job[d] # job[c]
      BY <1>1, <2>1, <2>2, <3>1 DEF OneSyncPerJob, Undisturbed
    <3> QED
      BY <1>1, <1>3, <2>1, <2>2, <3>2 DEF OwnersUnsynced
  <2> QED
    BY <1>1, <1>3, <2>1, <2>2, <2>3 DEF OwnersUnsynced
<1>6. OneSaver'
  <2>1. ASSUME Undisturbed', NEW d \in Calls PROVE pc'[d] \notin Window
    BY <1>1, <1>2, <2>1, Alone DEF TypeOK
  <2> QED
    BY <2>1 DEF OneSaver, Merging, Renaming, Window
<1>7. SyncedStays'
  <2>1. SUFFICES ASSUME Undisturbed', NEW j \in synced' PROVE tmp[j] = "synced"
    BY <1>2 DEF SyncedStays, Undisturbed
  <2>2. CASE pc[c] = "scanRename"
    BY <1>1, <1>3, <2>1, <2>2 DEF OneSaver
  <2>3. CASE pc[c] \in Renaming
    <3>1. tmp = [queue EXCEPT ![job[c]] = want[c]] /\ queue \in Queues /\ job[c] \in Jobs
      BY <1>1, <2>1, <2>3 DEF OneSaver, TypeOK
    <3>2. job[c] \notin synced
      BY <1>1, <2>1, <2>3 DEF OwnersUnsynced, Owns, Renaming
    <3>3. CASE j \in synced
      BY <1>1, <2>1, <3>1, <3>2, <3>3 DEF SyncedStays, Undisturbed, Queues, TypeOK
    <3>4. CASE j = job[c] /\ want[c] = "synced"
      BY <3>1, <3>4 DEF Queues
    <3> QED
      BY <1>3, <2>1, <3>3, <3>4
  <2> QED
    BY <2>2, <2>3 DEF UpdateRename, ScanRename
<1> QED
  BY <1>1, <1>4, <1>5, <1>6, <1>7

LEMMA SavedStep ==
  ASSUME TypeOK, TypeOK', OneSyncPerJob, Saved, [Next]_vars
  PROVE  Saved'
<1> USE DEF fileVars, guardVars, manifestVars, Goto
<1>1. ASSUME NEW c \in Calls,
             \/ Start(c) \/ StartBatch(c) \/ GetJob(c) \/ Pick(c) \/ Blocked(c)
             \/ Launch(c) \/ SyncEnds(c) \/ RefreshFails(c) \/ UpdateFails(c)
      PROVE  Saved'
  <2>1. PICK more : History(more)
    BY <1>1 DEF Start, StartBatch, GetJob, Pick, Blocked, Launch, SyncEnds,
       RefreshFails, UpdateFails
  <2>2. UNCHANGED <<queue, tmp, synced>> /\ entry' = entry /\ newer' \subseteq newer
    BY <1>1 DEF Start, StartBatch, GetJob, Pick, Blocked, Launch, SyncEnds,
       RefreshFails, UpdateFails
  <2>3. \A d \in Calls \ {c} : /\ pc'[d] = pc[d] /\ job'[d] = job[d]
                                /\ want'[d] = want[d] /\ snap'[d] = snap[d]
    BY <1>1 DEF Start, StartBatch, GetJob, Pick, Blocked, Launch, SyncEnds,
       RefreshFails, UpdateFails, TypeOK
  <2>4. pc'[c] \notin Window /\ snap'[c] \in {snap[c], Empty}
    BY <1>1 DEF Start, StartBatch, GetJob, Pick, Blocked, Launch, SyncEnds,
       RefreshFails, UpdateFails, Window, TypeOK
  <2>5. Owns(c)' => Owns(c) /\ job'[c] = job[c]
    BY <1>1 DEF Start, StartBatch, GetJob, Pick, Blocked, Launch, SyncEnds,
       RefreshFails, UpdateFails, Owns, Merging, Renaming, TypeOK
  <2>6. Undisturbed' => Undisturbed
    BY <2>1, HistoryMore DEF Undisturbed
  <2>7. Undisturbed' /\ Owns(c)' => job'[c] \notin synced
    BY <2>5, <2>6 DEF Saved, OwnersUnsynced
  <2> QED
    BY <2>1, <2>2, <2>3, <2>4, <2>7, Outside
<1>2. ASSUME NEW c \in Calls, Claim(c) PROVE Saved'
  <2>1. History(IF job[c] \in synced THEN {"resync"} ELSE {})
    BY <1>2 DEF Claim
  <2>2. Undisturbed' => job'[c] \notin synced
    BY <1>2, <2>1, HistoryMore DEF Claim, Undisturbed
  <2>3. \A d \in Calls \ {c} : /\ pc'[d] = pc[d] /\ job'[d] = job[d]
                                /\ want'[d] = want[d] /\ snap'[d] = snap[d]
    BY <1>2 DEF Claim, TypeOK
  <2>4. pc'[c] \notin Window /\ snap'[c] \in {snap[c], Empty}
    BY <1>2 DEF Claim, Window, TypeOK
  <2> QED
    BY <1>2, <2>1, <2>2, <2>3, <2>4, Outside DEF Claim
<1>3. ASSUME NEW c \in Calls, UpdateLoad(c) PROVE Saved'
  <2>1. PICK q \in {queue, Empty} :
          /\ IF q[job[c]] = "absent"
               THEN Updated(c)
               ELSE /\ snap' = [snap EXCEPT ![c] = q]
                    /\ Goto(c, Loaded(c))
                    /\ UNCHANGED <<guardVars, want>>
          /\ History(IF q # queue THEN {"unread"} ELSE {})
    BY <1>3 DEF UpdateLoad
  <2>2. UNCHANGED <<queue, tmp, manifestVars, job, synced>> /\ Owns(c) /\ pc[c] \in Loading
    BY <1>3 DEF UpdateLoad, Owns, Loading
  <2>3. CASE Updated(c)
    <3>1. \A d \in Calls \ {c} : /\ pc'[d] = pc[d] /\ job'[d] = job[d]
                                  /\ want'[d] = want[d] /\ snap'[d] = snap[d]
      BY <2>2, <2>3 DEF Updated, TypeOK
    <3>2. pc'[c] \notin Window /\ snap'[c] \in {snap[c], Empty}
      BY <2>2, <2>3 DEF Updated, Window, TypeOK
    <3>3. Undisturbed' => job'[c] \notin synced
      BY <2>1, <2>2, HistoryMore DEF Undisturbed, Saved, OwnersUnsynced
    <3> QED
      BY <2>1, <2>2, <3>1, <3>2, <3>3, Outside
  <2>4. CASE /\ q[job[c]] # "absent"
             /\ snap' = [snap EXCEPT ![c] = q]
             /\ Goto(c, Loaded(c))
             /\ UNCHANGED <<guardVars, want>>
    <3>1. pc' = [pc EXCEPT ![c] = pc'[c]] /\ pc'[c] \in Merging
      BY <2>2, <2>4 DEF Loaded, Merging, TypeOK
    <3> QED
      BY <2>1, <2>2, <2>4, <3>1, Reads
  <2> QED
    BY <2>1, <2>3, <2>4
<1>4. ASSUME NEW c \in Calls, Refresh(c) PROVE Saved'
  <2>1. PICK q \in {queue, Empty} :
          /\ snap' = [snap EXCEPT ![c] = q]
          /\ History(IF q # queue THEN {"unread"} ELSE {})
    BY <1>4 DEF Refresh
  <2>2. /\ UNCHANGED <<queue, tmp, manifestVars, synced, job, want>>
        /\ pc' = [pc EXCEPT ![c] = pc'[c]] /\ pc'[c] = "scanning" /\ ~Owns(c)'
    BY <1>4 DEF Refresh, TypeOK, Owns
  <2> QED
    BY <2>1, <2>2, Reads
<1>5. ASSUME NEW j \in Jobs, PauseJob(j) \/ AppendJob(j) PROVE Saved'
  <2>1. OverlapSeen' /\ (Undisturbed' => Undisturbed)
    BY <1>5, HistoryMore DEF PauseJob, AppendJob, Undisturbed
  <2>2. UNCHANGED <<queue, tmp, pc, job, want, snap>> /\ synced' \subseteq synced
    BY <1>5 DEF PauseJob, AppendJob
  <2>3. \A k \in synced' : entry'[k] = entry[k] /\ (k \in newer' => k \in newer)
    <3>1. CASE PauseJob(j)
      BY <3>1 DEF PauseJob
    <3>2. CASE AppendJob(j)
      BY <3>2 DEF AppendJob, TypeOK
    <3> QED
      BY <1>5, <3>1, <3>2
  <2> QED
    BY <2>1, <2>2, <2>3 DEF Saved, SyncedListed, OwnersUnsynced, Owns, OneSaver, SyncedStays,
       Undisturbed
<1>6. CASE Crash
  <2>1. OverlapSeen' /\ (Undisturbed' => Undisturbed)
    BY <1>6, HistoryMore DEF Crash, Undisturbed
  <2>2. /\ UNCHANGED <<queue, tmp, manifestVars, synced>>
        /\ \A c \in Calls : pc'[c] \in {"idle", "done", "dead"} /\ snap'[c] = Empty
    BY <1>6 DEF Crash
  <2> QED
    BY <2>1, <2>2 DEF Saved, SyncedListed, OwnersUnsynced, Owns, OneSaver, SyncedStays,
       Undisturbed, Empty, Merging, Renaming
<1>7. CASE UNCHANGED vars
  BY <1>7 DEF vars, Saved, OverlapSeen, Overlap, SyncedListed, OwnersUnsynced, Owns,
     OneSaver, SyncedStays, Undisturbed
<1> QED
  BY <1>1, <1>2, <1>3, <1>4, <1>5, <1>6, <1>7, Writes, Scans, Renames
     DEF Next, Begin, Running, Update

-----------------------------------------------------------------------------
(* Theorems                                                                *)

LEMMA Step == IInv /\ [Next]_vars => IInv'
<1> SUFFICES ASSUME IInv, [Next]_vars PROVE IInv'
  OBVIOUS
<1>1. TypeOK' /\ RaceSeen' /\ DecidersFree' /\ OneSyncPerJob' /\ GuardExact'
      /\ PauseReachesSync'
  BY TypeStep, GuardStep, SignalStep DEF IInv, GuardInv
<1> QED
  BY <1>1, SavedStep DEF IInv

\* The inductive invariant holds for any jobs and handler invocations.
THEOREM Invariance == Spec => []IInv
  BY InitInv, Step, PTL DEF Spec

\* Type correctness of the queue file and its handlers.
THEOREM TypeCorrect == Spec => []TypeOK
<1>1. IInv => TypeOK
  BY DEF IInv
<1> QED
  BY <1>1, Invariance, PTL

\* _syncingJobIds keeps two syncs of one job apart, short of a race between
\* has-check and add.
THEOREM OneSyncCorrect == Spec => []OneSyncPerJob
<1>1. IInv => OneSyncPerJob
  BY DEF IInv
<1> QED
  BY <1>1, Invariance, PTL

\* The guard names exactly the jobs being synced and the leaked ones.
THEOREM GuardCorrect == Spec => []GuardExact
<1>1. IInv => GuardExact
  BY DEF IInv
<1> QED
  BY <1>1, Invariance, PTL

\* A pause request reaches the sync that copies the job.
THEOREM PauseCorrect == Spec => []PauseReachesSync
<1>1. IInv => PauseReachesSync
  BY DEF IInv
<1> QED
  BY <1>1, Invariance, PTL

\* A saved "synced" stays, short of overlapping saves, a failed read, and a job that
\* is synced again.
THEOREM SyncedStaysCorrect == Spec => []SyncedStays
<1>1. IInv => SyncedStays
  BY DEF IInv, Saved
<1> QED
  BY <1>1, Invariance, PTL

=============================================================================
