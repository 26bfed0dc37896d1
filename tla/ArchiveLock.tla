----------------------------- MODULE ArchiveLock -----------------------------
(***************************************************************************)
(* The photographer-level write lock of the Active Archive                 *)
(* (src/services/archiveLockService.js) and its three kinds of client:     *)
(* the background sync of one photographer folder (archiveSyncService.js,  *)
(* syncJob), the Direct Archive import (main.js, import:commitTransaction) *)
(* and the event folder rename on the NAS (main.js).                       *)
(*                                                                         *)
(* A lock is one JSON file on the NAS.  Nothing below the file system      *)
(* makes "read, decide, write" atomic, so every operation is split where   *)
(* the code awaits: the file can change between the read and the write.    *)
(* The module models one lock file, i.e. one (collection, event,           *)
(* photographer) key.  A session is one client's use of the lock, from     *)
(* acquireLock to releaseLock.                                             *)
(***************************************************************************)
EXTENDS Integers, FiniteSets

CONSTANTS
  Devices,      \* machines sharing the archive; each runs one process
  Sessions,     \* uses of the lock
  DeviceOf,     \* session -> the device whose os.hostname() it writes
  KindOf,       \* session -> "sync" | "direct" | "rename"
  JobOf,        \* session -> the jobId it writes; a retried job reuses it
  Skew,         \* device -> offset of its Date.now() from true time
  TTL,          \* LOCK_TTL_MS
  HEARTBEAT,    \* LOCK_HEARTBEAT_INTERVAL_MS
  STALE,        \* STALE_THRESHOLD_MS of clearSelfLock
  MaxTime,      \* bound on the true time, for TLC
  None          \* no file

Kinds == {"sync", "direct", "rename"}

ASSUME LockConstants ==
  /\ DeviceOf \in [Sessions -> Devices]
  /\ KindOf \in [Sessions -> Kinds]
  /\ Skew \in [Devices -> Int]
  /\ HEARTBEAT \in Nat /\ STALE \in Nat /\ TTL \in Nat
  /\ HEARTBEAT <= STALE /\ STALE <= TTL
  /\ None \notin [owner : Sessions, hb : Int, exp : Int]

VARIABLES
  clock,        \* true time
  lockFile,     \* contents of <key>.json, or None
  tmpFile,      \* contents of <key>.json.tmp, which every writer shares
  pc,           \* session -> where it is between acquireLock and releaseLock
  rec,          \* session -> the lock record it last prepared
  beat,         \* session -> its renewLock call in flight
  aborted,      \* session -> heartbeat told it the lock is lost
  tool,         \* device -> its clearSelfLock / releaseStaleLock call
  hazards       \* history: the kinds of hazard met so far

fileVars == <<lockFile, tmpFile>>
vars == <<clock, lockFile, tmpFile, pc, rec, beat, aborted, tool, hazards>>

Now(d)      == clock + Skew[d]
Time(s)     == Now(DeviceOf[s])
LockData(s, t) == [owner |-> s, hb |-> t, exp |-> t + TTL]
Active(lock, t) == lock # None /\ lock.exp > t

\* The fields renewLock compares: jobId and deviceName.
SameOwner(lock, s) ==
  /\ JobOf[lock.owner] = JobOf[s]
  /\ DeviceOf[lock.owner] = DeviceOf[s]

Acquiring == {"reading", "claiming", "renaming"}
Claiming  == {"claiming", "renaming"}
Working   == {"copying", "metadata"}
Holding   == Working \union {"releasing"}

Unlinking == {"unlinkOld", "unlinkForced", "unlinkStale"}

LockRecord == [owner : Sessions, hb : Int, exp : Int]

TypeOK ==
  /\ clock \in Nat
  /\ lockFile \in LockRecord \union {None}
  /\ tmpFile \in LockRecord \union {None}
  /\ pc \in [Sessions -> {"idle", "refused", "done", "leaked", "dead"}
                           \union Acquiring \union Holding]
  /\ rec \in [Sessions -> LockRecord]
  /\ beat \in [Sessions -> {"idle", "verified", "written"}]
  /\ aborted \in [Sessions -> BOOLEAN]
  /\ tool \in [Devices -> {"idle", "clear", "force", "stale"}
                              \union Unlinking]
  /\ hazards \subseteq {"overlap", "lapse", "late", "force"}

Init ==
  /\ clock = 0
  /\ lockFile = None
  /\ tmpFile = None
  /\ pc = [s \in Sessions |-> "idle"]
  /\ rec = [s \in Sessions |-> LockData(s, Time(s))]
  /\ beat = [s \in Sessions |-> "idle"]
  /\ aborted = [s \in Sessions |-> FALSE]
  /\ tool = [d \in Devices |-> "idle"]
  /\ hazards = {}

-----------------------------------------------------------------------------
(* History: the hazards the design relies on not meeting                   *)

\* A check-then-act window is open from the read that decides to the write
\* or unlink that acts on it.
Windows ==
  {<<"acquire", s>> : s \in {t \in Sessions : pc[t] \in Claiming}}
  \union {<<"release", s>> : s \in {t \in Sessions : pc[t] = "releasing"}}
  \union {<<"beat", s>> : s \in {t \in Sessions : beat[t] # "idle"}}
  \union {<<"tool", d>> : d \in {e \in Devices : tool[e] \in Unlinking}}

Overlap == \E v, w \in Windows : v # w

\* The lock file is that of a session still relying on it.
Held == lockFile # None /\ pc[lockFile.owner] \in Holding

\* Some device's clock sees the lock of a working session as expired.
Lapse == Held /\ \E d \in Devices : ~Active(lockFile, Now(d))

\* The heartbeat of a working session is late by its own device's clock.
Late == Held /\ Time(lockFile.owner) - lockFile.hb >= STALE

\* A forced clear is about to remove the lock of a working session.
Forced == Held /\ \E d \in Devices : tool[d] = "unlinkForced"

HazardsNow ==
  {h \in {"overlap", "lapse", "late", "force"} :
     \/ h = "overlap" /\ Overlap
     \/ h = "lapse"   /\ Lapse
     \/ h = "late"    /\ Late
     \/ h = "force"   /\ Forced}

History == hazards' = hazards \union HazardsNow'

-----------------------------------------------------------------------------
(* acquireLock                                                             *)

\* Date.now() is taken, and lockData's times with it, before the file is read.
\* A direct import waits for the modal dialog that clears the device's lock.
Begin(s) ==
  /\ pc[s] = "idle"
  /\ KindOf[s] = "direct" =>
       tool[DeviceOf[s]] \notin {"clear", "force", "unlinkOld", "unlinkForced"}
  /\ pc' = [pc EXCEPT ![s] = "reading"]
  /\ rec' = [rec EXCEPT ![s] = LockData(s, Time(s))]
  /\ UNCHANGED <<clock, fileVars, beat, aborted, tool>>
  /\ History

\* Mutant: the lock is taken for re-entrant, a job's own lock does not refuse it.
AcquireReadReentrant(s) ==
  /\ pc[s] = "reading"
  /\ pc' = [pc EXCEPT ![s] =
              IF Active(lockFile, rec[s].hb) /\ ~SameOwner(lockFile, s)
              THEN "refused" ELSE "claiming"]
  /\ UNCHANGED <<clock, fileVars, rec, beat, aborted, tool>>
  /\ History

\* An active lock of anybody, its own job included, refuses the session.
AcquireRead(s) ==
  /\ pc[s] = "reading"
  /\ pc' = [pc EXCEPT ![s] =
              IF Active(lockFile, rec[s].hb) THEN "refused" ELSE "claiming"]
  /\ UNCHANGED <<clock, fileVars, rec, beat, aborted, tool>>
  /\ History

AcquireWriteTmp(s) ==
  /\ pc[s] = "claiming"
  /\ pc' = [pc EXCEPT ![s] = "renaming"]
  /\ tmpFile' = rec[s]
  /\ UNCHANGED <<clock, lockFile, rec, beat, aborted, tool>>
  /\ History

\* rename moves whatever the shared .tmp holds now.
AcquireRename(s) ==
  /\ pc[s] = "renaming"
  /\ tmpFile # None
  /\ pc' = [pc EXCEPT ![s] = "copying"]
  /\ lockFile' = tmpFile
  /\ tmpFile' = None
  /\ UNCHANGED <<clock, rec, beat, aborted, tool>>
  /\ History

\* An I/O error, or ENOENT because another writer's rename took the .tmp.
AcquireFails(s) ==
  /\ pc[s] \in Acquiring
  /\ pc' = [pc EXCEPT ![s] = "refused"]
  /\ UNCHANGED <<clock, fileVars, rec, beat, aborted, tool>>
  /\ History

-----------------------------------------------------------------------------
(* renewLock, driven by the client's setInterval heartbeat                 *)

TimerAlive(s) == pc[s] \in Working /\ KindOf[s] # "rename" /\ ~aborted[s]

\* The read of renewLock and its ownership test.
BeatRead(s) ==
  /\ TimerAlive(s)
  /\ beat[s] = "idle"
  /\ Time(s) >= rec[s].hb + HEARTBEAT
  /\ IF lockFile # None /\ SameOwner(lockFile, s)
     THEN /\ beat' = [beat EXCEPT ![s] = "verified"]
          /\ rec' = [rec EXCEPT ![s] = LockData(lockFile.owner, Time(s))]
          /\ UNCHANGED aborted
     ELSE /\ aborted' = [aborted EXCEPT ![s] = TRUE]
          /\ UNCHANGED <<beat, rec>>
  /\ UNCHANGED <<clock, fileVars, pc, tool>>
  /\ History

BeatWriteTmp(s) ==
  /\ beat[s] = "verified"
  /\ beat' = [beat EXCEPT ![s] = "written"]
  /\ tmpFile' = rec[s]
  /\ UNCHANGED <<clock, lockFile, pc, rec, aborted, tool>>
  /\ History

BeatRename(s) ==
  /\ beat[s] = "written"
  /\ tmpFile # None
  /\ beat' = [beat EXCEPT ![s] = "idle"]
  /\ lockFile' = tmpFile
  /\ tmpFile' = None
  /\ UNCHANGED <<clock, pc, rec, aborted, tool>>
  /\ History

\* Any I/O error of renewLock reaches the .catch of the heartbeat.
BeatFails(s) ==
  /\ beat[s] # "idle" \/ (TimerAlive(s) /\ Time(s) >= rec[s].hb + HEARTBEAT)
  /\ beat' = [beat EXCEPT ![s] = "idle"]
  /\ aborted' = [aborted EXCEPT ![s] = TRUE]
  /\ UNCHANGED <<clock, fileVars, pc, rec, tool>>
  /\ History

-----------------------------------------------------------------------------
(* The clients between acquireLock and releaseLock                         *)

\* Mutant: a session told of a lost lock returns without releasing.
FinishCopySkipsRelease(s) ==
  /\ pc[s] = "copying"
  /\ \/ pc' = [pc EXCEPT ![s] = IF aborted[s] THEN "done" ELSE "releasing"]
     \/ /\ KindOf[s] = "direct" /\ ~aborted[s]
        /\ pc' = [pc EXCEPT ![s] = "metadata"]
  /\ UNCHANGED <<clock, fileVars, rec, beat, aborted, tool>>
  /\ History

\* The copy (or the rename) is over.  A direct import goes on to write
\* metadata under the same lock unless the heartbeat reported a loss, or
\* metadata is off, or nothing was copied; all others release now.
\* clearInterval stops the timer but not a renewLock already in flight.
FinishCopy(s) ==
  /\ pc[s] = "copying"
  /\ \/ pc' = [pc EXCEPT ![s] = "releasing"]
     \/ /\ KindOf[s] = "direct" /\ ~aborted[s]
        /\ pc' = [pc EXCEPT ![s] = "metadata"]
  /\ UNCHANGED <<clock, fileVars, rec, beat, aborted, tool>>
  /\ History

\* batch_complete: the metadata batch runs to its end whatever the
\* heartbeat reported.
FinishMetadata(s) ==
  /\ pc[s] = "metadata"
  /\ pc' = [pc EXCEPT ![s] = "releasing"]
  /\ UNCHANGED <<clock, fileVars, rec, beat, aborted, tool>>
  /\ History

\* releaseLock: unlink by path; ENOENT is fine.
Release(s) ==
  /\ pc[s] = "releasing"
  /\ pc' = [pc EXCEPT ![s] = "done"]
  /\ lockFile' = None
  /\ UNCHANGED <<clock, tmpFile, rec, beat, aborted, tool>>
  /\ History

ReleaseFails(s) ==
  /\ pc[s] = "releasing"
  /\ pc' = [pc EXCEPT ![s] = "leaked"]
  /\ UNCHANGED <<clock, fileVars, rec, beat, aborted, tool>>
  /\ History

-----------------------------------------------------------------------------
(* clearSelfLock and releaseStaleLock                                      *)

\* archive:clearSelfStaleLock: `force` survives only while the process has no
\* sync running, and the renderer offers it only while no import is running,
\* an import being over for it when commitTransaction has returned.
SyncRunning(d) == \E s \in Sessions :
  /\ DeviceOf[s] = d /\ KindOf[s] = "sync"
  /\ pc[s] \in Acquiring \union Holding
ImportRunning(d) == \E s \in Sessions :
  /\ DeviceOf[s] = d /\ KindOf[s] = "direct"
  /\ pc[s] \in Acquiring \union {"copying"}

ClearSelf(d) ==
  /\ tool[d] = "idle"
  /\ ~ImportRunning(d)
  /\ tool' = [tool EXCEPT ![d] = IF SyncRunning(d) THEN "clear" ELSE "force"]
  /\ UNCHANGED <<clock, fileVars, pc, rec, beat, aborted>>
  /\ History

\* Mutant: clearSelfLock without the heartbeat recency guard.
ClearSelfReadAnyAge(d) ==
  /\ tool[d] \in {"clear", "force"}
  /\ LET mine == lockFile # None /\ DeviceOf[lockFile.owner] = d
     IN tool' = [tool EXCEPT ![d] =
                   IF mine /\ tool[d] = "force" THEN "unlinkForced"
                   ELSE IF mine THEN "unlinkOld"
                   ELSE "idle"]
  /\ UNCHANGED <<clock, fileVars, pc, rec, beat, aborted>>
  /\ History

\* The read and the safety rules of clearSelfLock.
ClearSelfRead(d) ==
  /\ tool[d] \in {"clear", "force"}
  /\ LET mine == lockFile # None /\ DeviceOf[lockFile.owner] = d
         old  == Now(d) - lockFile.hb >= STALE
     IN tool' = [tool EXCEPT ![d] =
                   IF mine /\ tool[d] = "force" THEN "unlinkForced"
                   ELSE IF mine /\ old THEN "unlinkOld"
                   ELSE "idle"]
  /\ UNCHANGED <<clock, fileVars, pc, rec, beat, aborted>>
  /\ History

\* releaseStaleLock, from the diagnostics screen of any device.
ReleaseStale(d) ==
  /\ tool[d] = "idle"
  /\ tool' = [tool EXCEPT ![d] = "stale"]
  /\ UNCHANGED <<clock, fileVars, pc, rec, beat, aborted>>
  /\ History

\* Mutant: releaseStaleLock without the re-read's check.
ReleaseStaleReadAny(d) ==
  /\ tool[d] = "stale"
  /\ tool' = [tool EXCEPT ![d] = IF lockFile = None THEN "idle" ELSE "unlinkStale"]
  /\ UNCHANGED <<clock, fileVars, pc, rec, beat, aborted>>
  /\ History

ReleaseStaleRead(d) ==
  /\ tool[d] = "stale"
  /\ tool' = [tool EXCEPT ![d] =
                IF lockFile = None \/ Active(lockFile, Now(d))
                THEN "idle" ELSE "unlinkStale"]
  /\ UNCHANGED <<clock, fileVars, pc, rec, beat, aborted>>
  /\ History

ToolUnlink(d) ==
  /\ tool[d] \in Unlinking
  /\ tool' = [tool EXCEPT ![d] = "idle"]
  /\ lockFile' = None
  /\ UNCHANGED <<clock, tmpFile, pc, rec, beat, aborted>>
  /\ History

-----------------------------------------------------------------------------
(* The environment                                                         *)

\* The process of device d dies: its files stay, its sessions do not.
Crash(d) ==
  LET here == {s \in Sessions : DeviceOf[s] = d} IN
  /\ pc' = [s \in Sessions |->
              IF s \in here /\ pc[s] \in Acquiring \union Holding
              THEN "dead" ELSE pc[s]]
  /\ beat' = [s \in Sessions |-> IF s \in here THEN "idle" ELSE beat[s]]
  /\ tool' = [tool EXCEPT ![d] = "idle"]
  /\ UNCHANGED <<clock, fileVars, rec, aborted>>
  /\ History

Tick ==
  /\ clock < MaxTime
  /\ clock' = clock + 1
  /\ UNCHANGED <<fileVars, pc, rec, beat, aborted, tool>>
  /\ History

-----------------------------------------------------------------------------

SessionStep(s) ==
  \/ Begin(s) \/ AcquireRead(s) \/ AcquireWriteTmp(s) \/ AcquireRename(s)
  \/ AcquireFails(s)
  \/ BeatRead(s) \/ BeatWriteTmp(s) \/ BeatRename(s) \/ BeatFails(s)
  \/ FinishCopy(s) \/ FinishMetadata(s) \/ Release(s) \/ ReleaseFails(s)

DeviceStep(d) ==
  \/ ClearSelf(d) \/ ClearSelfRead(d)
  \/ ReleaseStale(d) \/ ReleaseStaleRead(d)
  \/ ToolUnlink(d) \/ Crash(d)

Next ==
  \/ \E s \in Sessions : SessionStep(s)
  \/ \E d \in Devices : DeviceStep(d)
  \/ Tick

Spec == Init /\ [][Next]_vars

-----------------------------------------------------------------------------
(* Properties                                                              *)

Writers == {s \in Sessions : pc[s] \in Working}

\* Two sessions write into the photographer folder at once only after one of
\* the named hazards: two check-then-act windows open together, a lease that
\* expired under a working session, a late heartbeat, or a forced clear of a
\* lock in use.  (acquireLock, renewLock, releaseLock, clearSelfLock,
\* releaseStaleLock together keep the lock exclusive otherwise.)
Exclusion ==
  hazards = {} => \A s, t \in Writers : s = t

\* releaseLock unlinks by path and compares nothing; short of a hazard the
\* file it removes is nevertheless the releasing session's own lock.
ReleasesOwnLock ==
  hazards = {} =>
    \A s \in Sessions : pc[s] = "releasing" =>
      lockFile # None /\ lockFile.owner = s

\* As long as no two windows are open together no lock outlives its session,
\* unless the process died or the unlink itself failed: nobody waits out the
\* TTL of a finished job, not even after takeovers and forced clears.
NoOrphan ==
  "overlap" \notin hazards =>
    (lockFile # None => pc[lockFile.owner] \in Holding \union {"dead", "leaked"})

\* Short of a hazard the heartbeat aborts a session only for an I/O error: a
\* session whose timer is alive still finds its own lock (syncJob and the
\* Direct Archive import stop copying on a heartbeat failure).
HeartbeatFindsOwnLock ==
  hazards = {} =>
    \A s \in Sessions : TimerAlive(s) => lockFile # None /\ SameOwner(lockFile, s)

-----------------------------------------------------------------------------
(* The inductive invariant: what the file, the .tmp, the sessions and the  *)
(* tools have in common as long as no hazard was met.                      *)

\* What acquireLock prepared before it read the file; the heartbeat starts
\* only after it.
Prepared ==
  \A s \in Sessions :
    /\ pc[s] \in Acquiring => rec[s].owner = s /\ rec[s].hb <= Time(s)
    /\ pc[s] \in Acquiring \union {"idle"} => beat[s] = "idle"

\* A working or releasing session owns the file.
HolderOwns ==
  \A s \in Sessions : pc[s] \in Holding =>
    lockFile # None /\ lockFile.owner = s

\* Whoever found the lock free is alone.
ClaimantAlone ==
  \A s, t \in Sessions : pc[s] \in Claiming => pc[t] \notin Holding

\* The shared .tmp belongs to the one writer between its two file operations.
TmpIsMine ==
  \A s \in Sessions :
    (pc[s] = "renaming" \/ beat[s] = "written") => tmpFile = rec[s]

\* A renewal in flight belongs to a working session and renews its own lock.
BeatIsMine ==
  \A s \in Sessions : beat[s] # "idle" =>
    pc[s] \in Working /\ rec[s].owner = s

\* A renewal in flight renews the lock of whoever has it now.
BeatKeepsOwner ==
  \A s \in Sessions : beat[s] # "idle" =>
    lockFile # None /\ lockFile.owner = rec[s].owner

\* An unlink a tool decided on does not hit a session's lock.
ToolIsHarmless ==
  \A d \in Devices : tool[d] \in Unlinking => ~Held

FileHasOwner ==
  lockFile # None => pc[lockFile.owner] \in Holding \union {"dead", "leaked"}

\* What takes two open windows to break ...
Tidy == TmpIsMine /\ BeatKeepsOwner /\ FileHasOwner

\* ... and what any hazard may break.
Quiet == HolderOwns /\ ClaimantAlone /\ BeatIsMine /\ ToolIsHarmless

IInv ==
  /\ TypeOK
  /\ HazardsNow \subseteq hazards
  /\ Prepared
  /\ "overlap" \notin hazards => Tidy
  /\ hazards = {} => Quiet

-----------------------------------------------------------------------------

\* What the code's header says, without the proviso.

=============================================================================
