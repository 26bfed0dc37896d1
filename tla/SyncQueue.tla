------------------------------ MODULE SyncQueue ------------------------------
(***************************************************************************)
(* The durable sync queue of one application (src/services/                *)
(* syncQueueService.js, archiveSyncQueue.json) and the handlers of main.js *)
(* that work on it: archive:syncJobNow, archive:syncAllReadyJobs,          *)
(* archive:pauseJob and archive:refreshSyncQueue.                          *)
(*                                                                         *)
(* A call is one invocation of a handler, split where it awaits.  The jobs *)
(* come from the entries of the staging manifests, which appendJob of           *)
(* localSyncManifest.js adds, updates and cuts.  Of their times only the   *)
(* order matters: whether an entry is newer than a verdict on its job.     *)
(* What syncJob does is external to this module; its verdict is one of the *)
(* statuses it returns.                                                    *)
(***************************************************************************)
EXTENDS FiniteSets

CONSTANTS
  Jobs,     \* job ids
  Calls,    \* handler invocations
  KindOf,   \* call -> "one" (syncJobNow) | "batch" (syncAllReadyJobs) | "refresh"
  JobOf,    \* call of kind "one" -> its jobId argument
  None

Kinds == {"one", "batch", "refresh"}

ASSUME SyncQueueConstants ==
  /\ KindOf \in [Calls -> Kinds]
  /\ JobOf \in [Calls -> Jobs]
  /\ None \notin Calls

\* "absent" is a job the file does not list.
Flags    == {"ready", "attention", "blocked"}
Statuses == Flags \union {"absent", "syncing", "paused", "synced", "failed"}
Queues   == [Jobs -> Statuses]
Empty    == [j \in Jobs |-> "absent"]

VARIABLES
  queue,    \* archiveSyncQueue.json
  tmp,      \* archiveSyncQueue.json.tmp, or None
  entry,    \* job -> what _statusFromManifest says of its entry, or "absent"
  updated,  \* jobs whose entry has been updated, or cut and added again
  newer,    \* jobs whose entry is newer than the last "synced" of a sync of them
  guard,    \* _syncingJobIds
  signal,   \* _jobPauseSignals: job -> the call whose signal it is, or None
  paused,   \* calls whose pause signal is set
  pc,       \* call -> where it is
  job,      \* call -> the job it works on
  todo,     \* call -> the jobs its batch has still to visit
  snap,     \* call -> the queue its running load-merge-save read
  want,     \* call -> the status it is saving
  synced,   \* history: jobs whose "synced" a call has saved, with the entry that
            \* they have still
  hazards   \* history: what the handlers do not protect against, once met

fileVars   == <<queue, tmp>>
guardVars  == <<guard, signal, paused>>
manifestVars == <<entry, updated, newer>>
vars == <<queue, tmp, entry, updated, newer, guard, signal, paused, pc, job, todo,
          snap, want, synced, hazards>>

Deciding == {"checking", "linking"}                \* past the has-check
Marking  == {"markLoad", "markSave", "markRename"} \* updateJob: "syncing"
Saving   == {"saveLoad", "save", "rename"}         \* updateJob: the verdict
Failing  == {"failLoad", "failSave", "failRename"} \* updateJob: "sync-failed"
Scanning == {"scanning", "scanRename"} \* refreshQueue
Guarded  == Marking \union {"launching", "copying"} \union Saving \union Failing
Ended    == {"done", "leaked", "dead"}

\* From the load of a save to its rename.
Window == {"markSave", "markRename", "save", "rename", "failSave", "failRename"}
          \union Scanning

TypeOK ==
  /\ queue \in Queues
  /\ tmp \in Queues \union {None}
  /\ entry \in [Jobs -> Flags \union {"absent"}]
  /\ updated \subseteq Jobs
  /\ newer \subseteq Jobs
  /\ guard \subseteq Jobs
  /\ signal \in [Jobs -> Calls \union {None}]
  /\ paused \subseteq Calls
  /\ pc \in [Calls -> {"idle", "picking"} \union Deciding \union Guarded
                        \union Scanning \union Ended]
  /\ job \in [Calls -> Jobs]
  /\ todo \in [Calls -> SUBSET Jobs]
  /\ snap \in [Calls -> Queues]
  /\ want \in [Calls -> Statuses]
  /\ synced \subseteq Jobs
  /\ hazards \subseteq {"race", "overlap", "resync", "leak", "unread"}

Init ==
  /\ queue \in [Jobs -> {"absent", "ready"}]
  /\ tmp = None
  /\ entry = queue
  /\ updated = {}
  /\ newer = {}
  /\ guard = {}
  /\ signal = [j \in Jobs |-> None]
  /\ paused = {}
  /\ pc = [c \in Calls |-> "idle"]
  /\ job = JobOf
  /\ todo = [c \in Calls |-> {}]
  /\ snap = [c \in Calls |-> Empty]
  /\ want = [c \in Calls |-> "absent"]
  /\ synced = {}
  /\ hazards = {}

-----------------------------------------------------------------------------
(* History                                                                 *)

\* Two calls have both found the job free and claim it next.
Race == \E c, d \in Calls : c # d /\ pc[c] \in Deciding /\ pc[d] \in Deciding
                            /\ job[c] = job[d]

\* Two load-merge-saves of the queue file are open at once.
Overlap == \E c, d \in Calls : c # d /\ pc[c] \in Window /\ pc[d] \in Window

History(more) ==
  hazards' = hazards \union more
             \union (IF Race' THEN {"race"} ELSE {})
             \union (IF Overlap' THEN {"overlap"} ELSE {})

Goto(c, label) == pc' = [pc EXCEPT ![c] = label]

-----------------------------------------------------------------------------
(* Starting a sync                                                         *)

\* Mutant: the handler without its has-check.
StartUnchecked(c) ==
  /\ pc[c] = "idle" /\ KindOf[c] = "one"
  /\ Goto(c, "checking")
  /\ UNCHANGED <<fileVars, guardVars, manifestVars, job, todo, snap, want, synced>>
  /\ History({})

\* syncJobNow: "Already syncing" is decided before the first await.
Start(c) ==
  /\ pc[c] = "idle" /\ KindOf[c] = "one"
  /\ Goto(c, IF job[c] \in guard THEN "done" ELSE "checking")
  /\ UNCHANGED <<fileVars, guardVars, manifestVars, job, todo, snap, want, synced>>
  /\ History({})

\* getJob and the test of the job's status.  A queue file that cannot be read
\* is an empty queue.
Eligible == {"ready", "failed", "attention", "paused"}
GetJob(c) ==
  /\ pc[c] = "checking"
  /\ \E q \in {queue, Empty} :
       Goto(c, IF q[job[c]] \in Eligible THEN "linking" ELSE "done")
  /\ UNCHANGED <<fileVars, guardVars, manifestVars, job, todo, snap, want, synced>>
  /\ History({})

\* syncAllReadyJobs: after the wait for the slot, one look at the queue.
StartBatch(c) ==
  /\ pc[c] = "idle" /\ KindOf[c] = "batch"
  /\ \E q \in {queue, Empty} :
       todo' = [todo EXCEPT ![c] = {j \in Jobs : q[j] = "ready"}]
  /\ Goto(c, "picking")
  /\ UNCHANGED <<fileVars, guardVars, manifestVars, job, snap, want, synced>>
  /\ History({})

\* Mutant: the batch does not look at the guard.
PickUnchecked(c) ==
  /\ pc[c] = "picking"
  /\ \/ /\ todo[c] = {}
        /\ Goto(c, "done")
        /\ UNCHANGED <<job, todo>>
     \/ \E j \in todo[c] :
          /\ todo' = [todo EXCEPT ![c] = @ \ {j}]
          /\ job' = [job EXCEPT ![c] = j]
          /\ Goto(c, "linking")
  /\ UNCHANGED <<fileVars, guardVars, manifestVars, snap, want, synced>>
  /\ History({})

\* The next job of the batch; one that is syncing already is skipped.
Pick(c) ==
  /\ pc[c] = "picking"
  /\ \/ /\ todo[c] = {}
        /\ Goto(c, "done")
        /\ UNCHANGED <<job, todo>>
     \/ \E j \in todo[c] :
          /\ todo' = [todo EXCEPT ![c] = @ \ {j}]
          /\ job' = [job EXCEPT ![c] = j]
          /\ Goto(c, IF j \in guard THEN "picking" ELSE "linking")
  /\ UNCHANGED <<fileVars, guardVars, manifestVars, snap, want, synced>>
  /\ History({})

\* readLink: a provisional or stale link blocks the job.
Blocked(c) ==
  /\ pc[c] = "linking"
  /\ Goto(c, IF KindOf[c] = "batch" THEN "picking" ELSE "done")
  /\ UNCHANGED <<fileVars, guardVars, manifestVars, job, todo, snap, want, synced>>
  /\ History({})

\* _syncingJobIds.add, without a second look.  A batch does not look at the
\* job's status again either.
Claim(c) ==
  /\ pc[c] = "linking"
  /\ guard' = guard \union {job[c]}
  /\ want' = [want EXCEPT ![c] = "syncing"]
  /\ Goto(c, "markLoad")
  /\ UNCHANGED <<fileVars, signal, paused, manifestVars, job, todo, snap, synced>>
  /\ History(IF job[c] \in synced THEN {"resync"} ELSE {})

-----------------------------------------------------------------------------
(* updateJob: load, merge, save                                            *)

Loading == {"markLoad", "saveLoad", "failLoad"}
Merging == {"markSave", "save", "failSave"}
Renaming == {"markRename", "rename", "failRename"}

\* Where an update goes on after each of its steps.
Loaded(c)  == CASE pc[c] = "markLoad" -> "markSave"
                [] pc[c] = "saveLoad" -> "save"
                [] OTHER              -> "failSave"
Written(c) == CASE pc[c] = "markSave" -> "markRename"
                [] pc[c] = "save"     -> "rename"
                [] OTHER              -> "failRename"

\* finally: the guard and the signal of the job go, whoever set them.
Finish(c) ==
  /\ guard' = guard \ {job[c]}
  /\ signal' = [signal EXCEPT ![job[c]] = None]
  /\ paused' = paused \ {c}

\* The update is over: the mark starts the sync, a verdict ends it.
Updated(c) ==
  /\ want' = [want EXCEPT ![c] = "absent"]
  /\ snap' = [snap EXCEPT ![c] = Empty]
  /\ IF pc[c] \in Marking
       THEN Goto(c, "launching") /\ UNCHANGED guardVars
       ELSE /\ Goto(c, IF KindOf[c] = "batch" THEN "picking" ELSE "done")
            /\ Finish(c)

\* A job that the file does not list, or that could not be read, is not saved.
UpdateLoad(c) ==
  /\ pc[c] \in Loading
  /\ UNCHANGED <<fileVars, manifestVars, job, todo, synced>>
  /\ \E q \in {queue, Empty} :
       /\ IF q[job[c]] = "absent"
            THEN Updated(c)
            ELSE /\ snap' = [snap EXCEPT ![c] = q]
                 /\ Goto(c, Loaded(c))
                 /\ UNCHANGED <<guardVars, want>>
       /\ History(IF q # queue THEN {"unread"} ELSE {})

UpdateWrite(c) ==
  /\ pc[c] \in Merging
  /\ tmp' = [snap[c] EXCEPT ![job[c]] = want[c]]
  /\ snap' = [snap EXCEPT ![c] = Empty]
  /\ Goto(c, Written(c))
  /\ UNCHANGED <<queue, guardVars, manifestVars, job, todo, want, synced>>
  /\ History({})

UpdateRename(c) ==
  /\ pc[c] \in Renaming
  /\ tmp # None
  /\ queue' = tmp
  /\ tmp' = None
  /\ Updated(c)
  /\ synced' = IF /\ pc[c] = "rename" /\ want[c] = "synced"
                   /\ entry[job[c]] # "absent" /\ job[c] \notin newer
                 THEN synced \union {job[c]} ELSE synced
  /\ UNCHANGED <<manifestVars, job, todo>>
  /\ History({})

\* _saveRaw throws: on the mark before the try of the handler, on the verdict
\* inside it, and on the verdict's own catch.
UpdateFails(c) ==
  /\ pc[c] \in Merging \union Renaming
  /\ CASE pc[c] \in Marking -> /\ Goto(c, "leaked")
                               /\ UNCHANGED <<guardVars, want>>
       [] pc[c] \in Saving  -> /\ Goto(c, "failLoad")
                               /\ want' = [want EXCEPT ![c] = "failed"]
                               /\ UNCHANGED guardVars
       [] OTHER             -> /\ Goto(c, "done")
                               /\ Finish(c)
                               /\ UNCHANGED want
  /\ snap' = [snap EXCEPT ![c] = Empty]
  /\ UNCHANGED <<fileVars, manifestVars, job, todo, synced>>
  /\ History(IF pc[c] \in Marking THEN {"leak"} ELSE {})

-----------------------------------------------------------------------------
(* The sync                                                                *)

\* The manifest's files are read, then the pause signal is set up.
Launch(c) ==
  /\ pc[c] = "launching"
  /\ signal' = [signal EXCEPT ![job[c]] = c]
  /\ Goto(c, "copying")
  /\ UNCHANGED <<fileVars, guard, paused, manifestVars, job, todo, snap, want, synced>>
  /\ History({})

\* archive:pauseJob.
PauseJob(j) ==
  /\ j \in guard /\ signal[j] # None
  /\ paused' = paused \union {signal[j]}
  /\ UNCHANGED <<fileVars, guard, signal, manifestVars, pc, job, todo, snap, want, synced>>
  /\ History({})

\* Mutant: the guard is given up before the verdict is saved.
SyncEndsUnguarded(c) ==
  /\ pc[c] = "copying"
  /\ \/ /\ \E status \in IF c \in paused THEN {"paused", "failed"}
                          ELSE {"synced", "attention", "failed"} :
            /\ want' = [want EXCEPT ![c] = status]
            /\ newer' = IF status = "synced" THEN newer \ {job[c]} ELSE newer
        /\ Goto(c, "saveLoad")
     \/ /\ want' = [want EXCEPT ![c] = "failed"]
        /\ Goto(c, "failLoad")
        /\ UNCHANGED newer
  /\ Finish(c)
  /\ UNCHANGED <<fileVars, entry, updated, job, todo, snap, synced>>
  /\ History({})

\* syncJob returns its verdict, or throws.  A pause takes precedence over
\* everything but a job refused before its first file.
SyncEnds(c) ==
  /\ pc[c] = "copying"
  /\ \/ /\ \E status \in IF c \in paused THEN {"paused", "failed"}
                          ELSE {"synced", "attention", "failed"} :
            /\ want' = [want EXCEPT ![c] = status]
            /\ newer' = IF status = "synced" THEN newer \ {job[c]} ELSE newer
        /\ Goto(c, "saveLoad")
     \/ /\ want' = [want EXCEPT ![c] = "failed"]
        /\ Goto(c, "failLoad")
        /\ UNCHANGED newer
  /\ UNCHANGED <<fileVars, guardVars, entry, updated, job, todo, snap, synced>>
  /\ History({})

-----------------------------------------------------------------------------
(* refreshQueue                                                            *)

\* The existing queue is loaded first.  The renderer's _sqRefreshBusy keeps
\* refreshes apart.
Refresh(c) ==
  /\ pc[c] = "idle" /\ KindOf[c] = "refresh"
  /\ \A d \in Calls : pc[d] \notin Scanning
  /\ Goto(c, "scanning")
  /\ UNCHANGED <<fileVars, guardVars, manifestVars, job, todo, want, synced>>
  /\ \E q \in {queue, Empty} :
       /\ snap' = [snap EXCEPT ![c] = q]
       /\ History(IF q # queue THEN {"unread"} ELSE {})

Listed == {j \in Jobs : entry[j] # "absent"}

\* Mutant: only a failure is a verdict.
ScannedForgets(old, seen, again) ==
  [j \in Jobs |->
     IF j \notin seen THEN "absent"
     ELSE IF old[j] = "failed" THEN old[j]
     ELSE entry[j]]

\* The queue of the manifests that were seen.  A failure stays; "synced" and
\* "attention" stay until the job's entry is newer.  For "synced" that is newer
\* than the sync, for "attention" newer than at the refresh before: again are the
\* jobs for which it is.  Every other job is what its entry says.
Scanned(old, seen, again) ==
  [j \in Jobs |->
     IF j \notin seen THEN "absent"
     ELSE IF \/ old[j] = "failed"
             \/ old[j] = "synced" /\ j \notin newer
             \/ old[j] = "attention" /\ j \notin again
       THEN old[j]
     ELSE entry[j]]

\* A collection, or a manifest, that cannot be read is passed over.
ScanWrite(c) ==
  /\ pc[c] = "scanning"
  /\ snap' = [snap EXCEPT ![c] = Empty]
  /\ Goto(c, "scanRename")
  /\ UNCHANGED <<queue, guardVars, manifestVars, job, todo, want, synced>>
  /\ \E seen \in SUBSET Listed, again \in SUBSET updated :
       /\ tmp' = Scanned(snap[c], seen, again)
       /\ History(IF seen # Listed THEN {"unread"} ELSE {})

ScanRename(c) ==
  /\ pc[c] = "scanRename"
  /\ tmp # None
  /\ queue' = tmp
  /\ tmp' = None
  /\ Goto(c, "done")
  /\ UNCHANGED <<guardVars, manifestVars, job, todo, snap, want, synced>>
  /\ History({})

\* An unreadable staging root, or _saveRaw throws.
RefreshFails(c) ==
  /\ pc[c] \in Scanning
  /\ Goto(c, "done")
  /\ snap' = [snap EXCEPT ![c] = Empty]
  /\ UNCHANGED <<fileVars, guardVars, manifestVars, job, todo, want, synced>>
  /\ History({})

-----------------------------------------------------------------------------
(* The environment                                                         *)

\* An import adds its job to the manifest of its event, or updates the entry it
\* has there.  A manifest of MAX_JOBS entries loses its oldest to a new one.
AppendJob(j) ==
  /\ \E flag \in Flags, cut \in {{}} \union {{k} : k \in Listed \ {j}} :
       /\ j \in Listed => cut = {}
       /\ entry' = [k \in Jobs |-> IF k = j THEN flag
                                  ELSE IF k \in cut THEN "absent"
                                  ELSE entry[k]]
       /\ updated' = updated \union cut \union ({j} \intersect Listed)
       /\ newer' = newer \union ({j} \intersect updated')
       /\ synced' = synced \ ({j} \union cut)
  /\ UNCHANGED <<fileVars, guardVars, pc, job, todo, snap, want>>
  /\ History({})

\* The application dies; the files stay.
Crash ==
  /\ \E c \in Calls : pc[c] \notin {"idle", "done", "dead"}
  /\ pc' = [c \in Calls |-> IF pc[c] \in {"idle", "done"} THEN pc[c] ELSE "dead"]
  /\ guard' = {}
  /\ signal' = [j \in Jobs |-> None]
  /\ paused' = {}
  /\ job' = JobOf
  /\ todo' = [c \in Calls |-> {}]
  /\ snap' = [c \in Calls |-> Empty]
  /\ want' = [c \in Calls |-> "absent"]
  /\ UNCHANGED <<fileVars, manifestVars, synced>>
  /\ History({})

-----------------------------------------------------------------------------
Update(c) == UpdateLoad(c) \/ UpdateWrite(c) \/ UpdateRename(c) \/ UpdateFails(c)

Running(c) ==
  \/ GetJob(c) \/ Pick(c) \/ Blocked(c) \/ Claim(c)
  \/ Update(c) \/ Launch(c) \/ SyncEnds(c)
  \/ ScanWrite(c) \/ ScanRename(c) \/ RefreshFails(c)

Begin(c) == Start(c) \/ StartBatch(c) \/ Refresh(c)

Next ==
  \/ \E c \in Calls : Begin(c) \/ Running(c)
  \/ \E j \in Jobs : PauseJob(j) \/ AppendJob(j)
  \/ Crash

Spec == Init /\ [][Next]_vars

-----------------------------------------------------------------------------
(* Properties                                                              *)

\* The calls whose job is in the guard because of them.
Owns(c) == pc[c] \in Guarded \union {"leaked"}

\* main.js, _syncingJobIds: no job is synced by two handlers at once, as long
\* as no two of them were between has-check and add for the same job.
OneSyncPerJob ==
  "race" \notin hazards =>
    \A c, d \in Calls : Owns(c) /\ Owns(d) /\ job[c] = job[d] => c = d

\* The guard holds the jobs of the running syncs and of the leaked ones, and
\* nothing else: "Already syncing" is never said of a job at rest.
GuardExact ==
  "race" \notin hazards => guard = {job[c] : c \in {d \in Calls : Owns(d)}}

\* archive:pauseJob reaches the sync that runs: the job's signal is that of
\* the call that copies it.
PauseReachesSync ==
  "race" \notin hazards =>
    \A c \in Calls : pc[c] = "copying" => signal[job[c]] = c

\* syncQueueService.js, updateJob: "Atomically update a job in the persisted
\* queue".  A saved "synced" survives other updates, refreshes and crashes
\* until an import updates the job's entry or has it cut, short of overlapping
\* saves, a failed read, and a batch (or a duplicate) that syncs the job again.
SyncedStays ==
  hazards \intersect {"race", "overlap", "resync", "unread"} = {} =>
    \A j \in synced : queue[j] = "synced"

-----------------------------------------------------------------------------
(* The inductive invariant                                                 *)

RaceSeen == Race => "race" \in hazards

\* Whoever found a job free is the only one to have an eye on it.
DecidersFree ==
  "race" \notin hazards =>
    \A c, d \in Calls : pc[c] \in Deciding /\ Owns(d) => job[c] # job[d]

OverlapSeen == Overlap => "overlap" \in hazards

Undisturbed == hazards \intersect {"race", "overlap", "resync", "unread"} = {}

\* What is saved as synced has its entry, and no newer one.
SyncedListed == \A j \in synced : entry[j] # "absent" /\ j \notin newer

\* Nobody syncs a job whose "synced" is saved.
OwnersUnsynced ==
  Undisturbed => \A c \in Calls : Owns(c) => job[c] \notin synced

\* Who merges has the file as it is; who renames has what it merged.
OneSaver ==
  Undisturbed => \A c \in Calls :
    /\ pc[c] \in Merging \union {"scanning"} => snap[c] = queue
    /\ pc[c] \in Renaming => tmp = [queue EXCEPT ![job[c]] = want[c]]
    /\ pc[c] = "scanRename" => \A j \in synced : tmp[j] = "synced"

Saved == OverlapSeen /\ SyncedListed /\ OwnersUnsynced /\ OneSaver /\ SyncedStays

IInv ==
  /\ TypeOK
  /\ RaceSeen
  /\ DecidersFree
  /\ OneSyncPerJob
  /\ GuardExact
  /\ PauseReachesSync
  /\ Saved

=============================================================================
