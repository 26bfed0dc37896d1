----------------------------- MODULE FolderProofs -----------------------------
(***************************************************************************)
(* Proofs about the two components that guard the photographer folders of  *)
(* an event: ArchiveLock, for any devices, sessions, clock skews and       *)
(* durations with HEARTBEAT <= STALE <= TTL, and SequenceRename, for any   *)
(* scopes, photographers, imports and plans.  They share no state.         *)
(***************************************************************************)
EXTENDS ArchiveLock, SequenceRename, FiniteSetTheorems, TLAPS

-----------------------------------------------------------------------------

\* Date.now() of any device is an integer.
LEMMA TimeInt ==
  ASSUME TypeOK
  PROVE  /\ \A d \in Devices : Now(d) \in Int
         /\ \A s \in Sessions : Time(s) \in Int
BY LockConstants DEF TypeOK, Now, Time

\* A prepared record has the shape of a lock.
LEMMA LockDataType ==
  ASSUME NEW s \in Sessions, NEW t \in Int
  PROVE  LockData(s, t) \in LockRecord
BY LockConstants DEF LockData, LockRecord

LEMMA HistoryType ==
  ASSUME TypeOK, History
  PROVE  hazards' \subseteq {"overlap", "lapse", "late", "force"}
BY DEF TypeOK, History, HazardsNow

\* Without a recorded hazard none of the four conditions holds.
LEMMA NoHazard ==
  ASSUME HazardsNow = {}
  PROVE  ~Overlap /\ ~Lapse /\ ~Late /\ ~Forced
BY DEF HazardsNow

\* At most one check-then-act window is open when none overlap.
LEMMA OneWindow ==
  ASSUME ~Overlap
  PROVE  /\ \A s, t \in Sessions :
              /\ pc[s] \in Claiming /\ pc[t] \in Claiming => s = t
              /\ ~(pc[s] \in Claiming /\ pc[t] = "releasing")
              /\ ~(pc[s] \in Claiming /\ beat[t] # "idle")
              /\ pc[s] = "releasing" /\ pc[t] = "releasing" => s = t
              /\ ~(pc[s] = "releasing" /\ beat[t] # "idle")
              /\ beat[s] # "idle" /\ beat[t] # "idle" => s = t
         /\ \A s \in Sessions, d \in Devices : tool[d] \in Unlinking =>
              pc[s] \notin Claiming /\ pc[s] # "releasing" /\ beat[s] = "idle"
<1> USE DEF Overlap
<1>1. \A s \in Sessions : pc[s] \in Claiming => <<"acquire", s>> \in Windows
  BY DEF Windows, Claiming
<1>2. \A s \in Sessions : pc[s] = "releasing" => <<"release", s>> \in Windows
  BY DEF Windows
<1>3. \A s \in Sessions : beat[s] # "idle" => <<"beat", s>> \in Windows
  BY DEF Windows
<1>4. \A d \in Devices : tool[d] \in Unlinking => <<"tool", d>> \in Windows
  BY DEF Windows
<1>5. QED
  BY <1>1, <1>2, <1>3, <1>4

-----------------------------------------------------------------------------

LEMMA TypeInit == Init => TypeOK
<1> SUFFICES ASSUME Init PROVE TypeOK
  OBVIOUS
<1>1. clock \in Nat
  BY DEF Init
<1>2. \A s \in Sessions : Time(s) \in Int
  BY <1>1, LockConstants DEF Time, Now
<1>3. rec \in [Sessions -> LockRecord]
  BY <1>2, LockDataType DEF Init
<1>4. QED
  BY <1>1, <1>3 DEF Init, TypeOK

\* Every step keeps the variables in their types.
LEMMA TypeNext == TypeOK /\ [Next]_vars => TypeOK'
<1> SUFFICES ASSUME TypeOK, [Next]_vars PROVE TypeOK'
  OBVIOUS
<1> USE DEF TypeOK, Acquiring, Working, Holding, Unlinking, LockRecord, fileVars
<1>1. ASSUME NEW s \in Sessions, Begin(s) PROVE TypeOK'
  BY <1>1, HistoryType, TimeInt, LockDataType DEF Begin
<1>2. ASSUME NEW s \in Sessions, AcquireRead(s) PROVE TypeOK'
  BY <1>2, HistoryType DEF AcquireRead
<1>3. ASSUME NEW s \in Sessions, AcquireWriteTmp(s) PROVE TypeOK'
  BY <1>3, HistoryType DEF AcquireWriteTmp
<1>4. ASSUME NEW s \in Sessions, AcquireRename(s) PROVE TypeOK'
  BY <1>4, HistoryType DEF AcquireRename
<1>5. ASSUME NEW s \in Sessions, AcquireFails(s) PROVE TypeOK'
  BY <1>5, HistoryType DEF AcquireFails
<1>6. ASSUME NEW s \in Sessions, BeatRead(s) PROVE TypeOK'
  <2>1. CASE lockFile # None /\ SameOwner(lockFile, s)
    <3>1. lockFile.owner \in Sessions
      BY <2>1
    <3>2. LockData(lockFile.owner, Time(s)) \in LockRecord
      BY <3>1, TimeInt, LockDataType
    <3>3. QED
      BY <1>6, <2>1, <3>2, HistoryType DEF BeatRead
  <2>2. CASE ~(lockFile # None /\ SameOwner(lockFile, s))
    BY <1>6, <2>2, HistoryType DEF BeatRead
  <2>3. QED
    BY <2>1, <2>2
<1>7. ASSUME NEW s \in Sessions, BeatWriteTmp(s) PROVE TypeOK'
  BY <1>7, HistoryType DEF BeatWriteTmp
<1>8. ASSUME NEW s \in Sessions, BeatRename(s) PROVE TypeOK'
  BY <1>8, HistoryType DEF BeatRename
<1>9. ASSUME NEW s \in Sessions, BeatFails(s) PROVE TypeOK'
  BY <1>9, HistoryType DEF BeatFails
<1>10. ASSUME NEW s \in Sessions, FinishCopy(s) PROVE TypeOK'
  BY <1>10, HistoryType DEF FinishCopy
<1>11. ASSUME NEW s \in Sessions, FinishMetadata(s) PROVE TypeOK'
  BY <1>11, HistoryType DEF FinishMetadata
<1>12. ASSUME NEW s \in Sessions, Release(s) PROVE TypeOK'
  BY <1>12, HistoryType DEF Release
<1>13. ASSUME NEW s \in Sessions, ReleaseFails(s) PROVE TypeOK'
  BY <1>13, HistoryType DEF ReleaseFails
<1>14. ASSUME NEW d \in Devices, ClearSelf(d) PROVE TypeOK'
  BY <1>14, HistoryType DEF ClearSelf
<1>15. ASSUME NEW d \in Devices, ClearSelfRead(d) PROVE TypeOK'
  BY <1>15, HistoryType DEF ClearSelfRead
<1>16. ASSUME NEW d \in Devices, ReleaseStale(d) PROVE TypeOK'
  BY <1>16, HistoryType DEF ReleaseStale
<1>17. ASSUME NEW d \in Devices, ReleaseStaleRead(d) PROVE TypeOK'
  BY <1>17, HistoryType DEF ReleaseStaleRead
<1>18. ASSUME NEW d \in Devices, ToolUnlink(d) PROVE TypeOK'
  BY <1>18, HistoryType DEF ToolUnlink
<1>19. ASSUME NEW d \in Devices, Crash(d) PROVE TypeOK'
  BY <1>19, HistoryType DEF Crash
<1>20. ASSUME Tick PROVE TypeOK'
  BY <1>20, HistoryType DEF Tick
<1>21. ASSUME UNCHANGED vars PROVE TypeOK'
  BY <1>21 DEF vars
<1>22. QED
  BY <1>1, <1>2, <1>3, <1>4, <1>5, <1>6, <1>7, <1>8, <1>9, <1>10, <1>11, <1>12, <1>13, <1>14, <1>15, <1>16, <1>17, <1>18, <1>19, <1>20, <1>21
     DEF Next, SessionStep, DeviceStep

\* The lock's state keeps its types.
THEOREM TypeCorrect == Spec => []TypeOK
<1>1. QED
  BY TypeInit, TypeNext, PTL DEF Spec

-----------------------------------------------------------------------------

\* After a step that records no hazard none of the conditions holds, and no
\* session is releasing with a renewal in flight.
LEMMA NoHazardNext ==
  ASSUME History, hazards' = {}
  PROVE  /\ hazards = {}
         /\ ~Forced'
         /\ \A s \in Sessions : ~(pc'[s] = "releasing" /\ beat'[s] # "idle")
<1>1. hazards = {} /\ HazardsNow' = {}
  BY DEF History
<1>2. ~Overlap' /\ ~Forced'
  BY <1>1 DEF HazardsNow
<1>3. ASSUME NEW s \in Sessions, pc'[s] = "releasing", beat'[s] # "idle"
      PROVE  FALSE
  <2>1. <<"release", s>> \in Windows' /\ <<"beat", s>> \in Windows'
    BY <1>3 DEF Windows
  <2>2. QED
    BY <2>1, <1>2 DEF Overlap
<1>4. QED
  BY <1>1, <1>2, <1>3

\* As long as no two windows were open together none are, and the one that is
\* open excludes the others before and after the step.
LEMMA NoOverlapNext ==
  ASSUME TypeOK, HazardsNow \subseteq hazards, History, "overlap" \notin hazards'
  PROVE  "overlap" \notin hazards /\ ~Overlap /\ ~Overlap'
<1>1. "overlap" \notin hazards /\ "overlap" \notin HazardsNow'
  BY DEF History
<1>2. QED
  BY <1>1 DEF HazardsNow

\* The times a session prepared stay in the past of its clock.
LEMMA PreparedNext == TypeOK /\ Prepared /\ [Next]_vars => Prepared'
<1> SUFFICES ASSUME TypeOK, Prepared, [Next]_vars PROVE Prepared'
  OBVIOUS
<1> USE LockConstants DEF TypeOK, Prepared, Acquiring, Working, Holding,
          LockRecord, LockData, Time, Now, fileVars
<1>1. ASSUME NEW s \in Sessions, Begin(s) PROVE Prepared'
  BY <1>1 DEF Begin
<1>2. ASSUME NEW s \in Sessions, AcquireRead(s) PROVE Prepared'
  BY <1>2 DEF AcquireRead
<1>3. ASSUME NEW s \in Sessions, AcquireWriteTmp(s) PROVE Prepared'
  BY <1>3 DEF AcquireWriteTmp
<1>4. ASSUME NEW s \in Sessions, AcquireRename(s) PROVE Prepared'
  BY <1>4 DEF AcquireRename
<1>5. ASSUME NEW s \in Sessions, AcquireFails(s) PROVE Prepared'
  BY <1>5 DEF AcquireFails
<1>6. ASSUME NEW s \in Sessions, BeatRead(s) PROVE Prepared'
  BY <1>6 DEF BeatRead, TimerAlive
<1>7. ASSUME NEW s \in Sessions, BeatWriteTmp(s) PROVE Prepared'
  BY <1>7 DEF BeatWriteTmp
<1>8. ASSUME NEW s \in Sessions, BeatRename(s) PROVE Prepared'
  BY <1>8 DEF BeatRename
<1>9. ASSUME NEW s \in Sessions, BeatFails(s) PROVE Prepared'
  BY <1>9 DEF BeatFails
<1>10. ASSUME NEW s \in Sessions, FinishCopy(s) PROVE Prepared'
  BY <1>10 DEF FinishCopy
<1>11. ASSUME NEW s \in Sessions, FinishMetadata(s) PROVE Prepared'
  BY <1>11 DEF FinishMetadata
<1>12. ASSUME NEW s \in Sessions, Release(s) PROVE Prepared'
  BY <1>12 DEF Release
<1>13. ASSUME NEW s \in Sessions, ReleaseFails(s) PROVE Prepared'
  BY <1>13 DEF ReleaseFails
<1>14. ASSUME NEW d \in Devices, ClearSelf(d) PROVE Prepared'
  BY <1>14 DEF ClearSelf
<1>15. ASSUME NEW d \in Devices, ClearSelfRead(d) PROVE Prepared'
  BY <1>15 DEF ClearSelfRead
<1>16. ASSUME NEW d \in Devices, ReleaseStale(d) PROVE Prepared'
  BY <1>16 DEF ReleaseStale
<1>17. ASSUME NEW d \in Devices, ReleaseStaleRead(d) PROVE Prepared'
  BY <1>17 DEF ReleaseStaleRead
<1>18. ASSUME NEW d \in Devices, ToolUnlink(d) PROVE Prepared'
  BY <1>18 DEF ToolUnlink
<1>19. ASSUME NEW d \in Devices, Crash(d) PROVE Prepared'
  BY <1>19 DEF Crash
<1>20. ASSUME Tick PROVE Prepared'
  BY <1>20 DEF Tick
<1>21. ASSUME UNCHANGED vars PROVE Prepared'
  BY <1>21 DEF vars
<1>22. QED
  BY <1>1, <1>2, <1>3, <1>4, <1>5, <1>6, <1>7, <1>8, <1>9, <1>10, <1>11, <1>12, <1>13, <1>14, <1>15, <1>16, <1>17, <1>18, <1>19, <1>20, <1>21
     DEF Next, SessionStep, DeviceStep

\* The files belong to whoever is at work on them, after every step that opens
\* no second window: takeovers and clears of locks in use included.
LEMMA TidyNext ==
  ASSUME IInv, Next, "overlap" \notin hazards'
  PROVE  Tidy'
<1>1. History
  BY DEF Next, SessionStep, DeviceStep, Tick,
         Begin, AcquireRead, AcquireWriteTmp, AcquireRename, AcquireFails, BeatRead, BeatWriteTmp, BeatRename, BeatFails, FinishCopy, FinishMetadata, Release, ReleaseFails,
         ClearSelf, ClearSelfRead, ReleaseStale, ReleaseStaleRead, ToolUnlink, Crash
<1>2. Tidy /\ ~Overlap
  BY <1>1, NoOverlapNext DEF IInv
<1>3. \A s, t \in Sessions : ~(pc'[s] = "releasing" /\ beat'[t] # "idle")
  <2>1. ASSUME NEW s \in Sessions, NEW t \in Sessions,
               pc'[s] = "releasing", beat'[t] # "idle"
        PROVE  FALSE
    <3>1. <<"release", s>> \in Windows' /\ <<"beat", t>> \in Windows'
      BY <2>1 DEF Windows
    <3>2. QED
      BY <3>1, <1>1, NoOverlapNext DEF Overlap, IInv
  <2>2. QED
    BY <2>1
<1>4. TypeOK /\ Prepared
  BY DEF IInv
<1> USE <1>2, <1>3, <1>4, OneWindow
    DEF TypeOK, Tidy, TmpIsMine, BeatKeepsOwner, FileHasOwner, Acquiring,
        Claiming, Working, Holding, Unlinking, LockRecord, fileVars
<1>5. ASSUME NEW s \in Sessions, Begin(s) PROVE Tidy'
  BY <1>5 DEF Begin, Prepared
<1>6. ASSUME NEW s \in Sessions, AcquireRead(s) PROVE Tidy'
  BY <1>6 DEF AcquireRead
<1>7. ASSUME NEW s \in Sessions, AcquireWriteTmp(s) PROVE Tidy'
  BY <1>7 DEF AcquireWriteTmp
<1>8. ASSUME NEW s \in Sessions, AcquireRename(s) PROVE Tidy'
  BY <1>8 DEF AcquireRename, Prepared
<1>9. ASSUME NEW s \in Sessions, AcquireFails(s) PROVE Tidy'
  BY <1>9 DEF AcquireFails
<1>10. ASSUME NEW s \in Sessions, BeatRead(s) PROVE Tidy'
  <2>1. CASE lockFile # None /\ SameOwner(lockFile, s)
    BY <1>10, <2>1 DEF BeatRead, TimerAlive, LockData
  <2>2. CASE ~(lockFile # None /\ SameOwner(lockFile, s))
    BY <1>10, <2>2 DEF BeatRead
  <2>3. QED
    BY <2>1, <2>2
<1>11. ASSUME NEW s \in Sessions, BeatWriteTmp(s) PROVE Tidy'
  BY <1>11 DEF BeatWriteTmp
<1>12. ASSUME NEW s \in Sessions, BeatRename(s) PROVE Tidy'
  BY <1>12 DEF BeatRename
<1>13. ASSUME NEW s \in Sessions, BeatFails(s) PROVE Tidy'
  BY <1>13 DEF BeatFails, TimerAlive
<1>14. ASSUME NEW s \in Sessions, FinishCopy(s) PROVE Tidy'
  BY <1>14 DEF FinishCopy
<1>15. ASSUME NEW s \in Sessions, FinishMetadata(s) PROVE Tidy'
  BY <1>15 DEF FinishMetadata
<1>16. ASSUME NEW s \in Sessions, Release(s) PROVE Tidy'
  BY <1>16 DEF Release
<1>17. ASSUME NEW s \in Sessions, ReleaseFails(s) PROVE Tidy'
  BY <1>17 DEF ReleaseFails
<1>18. ASSUME NEW d \in Devices, ClearSelf(d) PROVE Tidy'
  BY <1>18 DEF ClearSelf
<1>19. ASSUME NEW d \in Devices, ClearSelfRead(d) PROVE Tidy'
  BY <1>19 DEF ClearSelfRead
<1>20. ASSUME NEW d \in Devices, ReleaseStale(d) PROVE Tidy'
  BY <1>20 DEF ReleaseStale
<1>21. ASSUME NEW d \in Devices, ReleaseStaleRead(d) PROVE Tidy'
  BY <1>21 DEF ReleaseStaleRead
<1>22. ASSUME NEW d \in Devices, ToolUnlink(d) PROVE Tidy'
  BY <1>22 DEF ToolUnlink
<1>23. ASSUME NEW d \in Devices, Crash(d) PROVE Tidy'
  BY <1>23 DEF Crash
<1>24. ASSUME Tick PROVE Tidy'
  BY <1>24 DEF Tick
<1>25. QED
  BY <1>5, <1>6, <1>7, <1>8, <1>9, <1>10, <1>11, <1>12, <1>13, <1>14, <1>15, <1>16, <1>17, <1>18, <1>19, <1>20, <1>21, <1>22, <1>23, <1>24
     DEF Next, SessionStep, DeviceStep

\* The agreement between files, sessions and tools survives every step that
\* records no hazard.
LEMMA QuietNext ==
  ASSUME IInv, Next, hazards' = {}
  PROVE  Quiet'
<1>1. History
  BY DEF Next, SessionStep, DeviceStep, Tick,
         Begin, AcquireRead, AcquireWriteTmp, AcquireRename, AcquireFails, BeatRead, BeatWriteTmp, BeatRename, BeatFails, FinishCopy, FinishMetadata, Release, ReleaseFails,
         ClearSelf, ClearSelfRead, ReleaseStale, ReleaseStaleRead, ToolUnlink, Crash
<1>2. /\ Quiet /\ Tidy
      /\ ~Forced'
      /\ \A s \in Sessions : ~(pc'[s] = "releasing" /\ beat'[s] # "idle")
  BY <1>1, NoHazardNext DEF IInv
<1>3. ~Overlap /\ ~Lapse /\ ~Late
  BY <1>1, NoHazardNext, NoHazard DEF IInv
<1>4. TypeOK /\ Prepared
  BY DEF IInv
<1> USE <1>2, <1>4, OneWindow, <1>3
    DEF TypeOK, Quiet, Tidy, HolderOwns, ClaimantAlone, TmpIsMine, BeatIsMine,
        ToolIsHarmless, FileHasOwner, Held,
        Acquiring, Claiming, Working, Holding, Unlinking, LockRecord, fileVars
<1>5. ASSUME NEW s \in Sessions, Begin(s) PROVE Quiet'
  BY <1>5 DEF Begin
<1>6. ASSUME NEW s \in Sessions, AcquireRead(s) PROVE Quiet'
  <2>1. ASSUME pc'[s] = "claiming", NEW t \in Sessions, pc[t] \in Holding
        PROVE  FALSE
    <3>1. Held /\ rec[s].hb <= Time(s)
      BY <1>6, <2>1 DEF AcquireRead, Prepared
    <3>2. lockFile.exp > Time(s)
      BY <3>1, LockConstants DEF Lapse, Active, Time
    <3>3. Active(lockFile, rec[s].hb)
      BY <3>1, <3>2, TimeInt DEF Active
    <3>4. QED
      BY <1>6, <2>1, <3>3 DEF AcquireRead
  <2>2. ClaimantAlone'
    BY <1>6, <2>1 DEF AcquireRead
  <2>3. QED
    BY <1>6, <2>2 DEF AcquireRead
<1>7. ASSUME NEW s \in Sessions, AcquireWriteTmp(s) PROVE Quiet'
  BY <1>7 DEF AcquireWriteTmp
<1>8. ASSUME NEW s \in Sessions, AcquireRename(s) PROVE Quiet'
  BY <1>8 DEF AcquireRename, Prepared
<1>9. ASSUME NEW s \in Sessions, AcquireFails(s) PROVE Quiet'
  BY <1>9 DEF AcquireFails
<1>10. ASSUME NEW s \in Sessions, BeatRead(s) PROVE Quiet'
  <2>1. lockFile # None /\ lockFile.owner = s /\ pc[s] \in Working
    BY <1>10 DEF BeatRead, TimerAlive
  <2>2. rec'[s].owner = s \/ beat' = beat
    BY <1>10, <2>1 DEF BeatRead, LockData
  <2>3. BeatIsMine'
    BY <1>10, <2>1, <2>2 DEF BeatRead
  <2>4. QED
    BY <1>10, <2>3 DEF BeatRead
<1>11. ASSUME NEW s \in Sessions, BeatWriteTmp(s) PROVE Quiet'
  BY <1>11 DEF BeatWriteTmp
<1>12. ASSUME NEW s \in Sessions, BeatRename(s) PROVE Quiet'
  BY <1>12 DEF BeatRename
<1>13. ASSUME NEW s \in Sessions, BeatFails(s) PROVE Quiet'
  BY <1>13 DEF BeatFails, TimerAlive
<1>14. ASSUME NEW s \in Sessions, FinishCopy(s) PROVE Quiet'
  BY <1>14 DEF FinishCopy
<1>15. ASSUME NEW s \in Sessions, FinishMetadata(s) PROVE Quiet'
  BY <1>15 DEF FinishMetadata
<1>16. ASSUME NEW s \in Sessions, Release(s) PROVE Quiet'
  BY <1>16 DEF Release
<1>17. ASSUME NEW s \in Sessions, ReleaseFails(s) PROVE Quiet'
  BY <1>17 DEF ReleaseFails
<1>18. ASSUME NEW d \in Devices, ClearSelf(d) PROVE Quiet'
  BY <1>18 DEF ClearSelf
<1>19. ASSUME NEW d \in Devices, ClearSelfRead(d) PROVE Quiet'
  <2>1. ASSUME tool'[d] = "unlinkOld", Held PROVE FALSE
    BY <1>19, <2>1 DEF ClearSelfRead, Late, Time
  <2>2. ASSUME tool'[d] = "unlinkForced", Held PROVE FALSE
    BY <1>19, <2>2 DEF ClearSelfRead, Forced
  <2>3. ToolIsHarmless'
    BY <1>19, <2>1, <2>2 DEF ClearSelfRead
  <2>4. QED
    BY <1>19, <2>3 DEF ClearSelfRead
<1>20. ASSUME NEW d \in Devices, ReleaseStale(d) PROVE Quiet'
  BY <1>20 DEF ReleaseStale
<1>21. ASSUME NEW d \in Devices, ReleaseStaleRead(d) PROVE Quiet'
  <2>1. ASSUME tool'[d] = "unlinkStale", Held PROVE FALSE
    BY <1>21, <2>1 DEF ReleaseStaleRead, Lapse
  <2>2. ToolIsHarmless'
    BY <1>21, <2>1 DEF ReleaseStaleRead
  <2>3. QED
    BY <1>21, <2>2 DEF ReleaseStaleRead
<1>22. ASSUME NEW d \in Devices, ToolUnlink(d) PROVE Quiet'
  BY <1>22 DEF ToolUnlink
<1>23. ASSUME NEW d \in Devices, Crash(d) PROVE Quiet'
  BY <1>23 DEF Crash
<1>24. ASSUME Tick PROVE Quiet'
  BY <1>24 DEF Tick
<1>25. QED
  BY <1>5, <1>6, <1>7, <1>8, <1>9, <1>10, <1>11, <1>12, <1>13, <1>14, <1>15, <1>16, <1>17, <1>18, <1>19, <1>20, <1>21, <1>22, <1>23, <1>24
     DEF Next, SessionStep, DeviceStep

-----------------------------------------------------------------------------

LEMMA IInvInit == Init => IInv
<1> SUFFICES ASSUME Init PROVE IInv
  OBVIOUS
<1>1. TypeOK
  BY TypeInit
<1>2. ~Overlap
  BY DEF Init, Overlap, Windows, Claiming, Unlinking
<1>3. ~Held
  BY DEF Init, Held
<1>4. HazardsNow = {}
  BY <1>2, <1>3 DEF HazardsNow, Lapse, Late, Forced
<1>5. Prepared
  BY DEF Init, Prepared, Acquiring
<1>6. Quiet /\ Tidy
  BY DEF Init, Quiet, Tidy, HolderOwns, ClaimantAlone, TmpIsMine, BeatIsMine,
         BeatKeepsOwner, ToolIsHarmless, FileHasOwner, Holding, Working,
         Claiming, Unlinking
<1>7. QED
  BY <1>1, <1>4, <1>5, <1>6 DEF IInv

LEMMA IInvNext == IInv /\ [Next]_vars => IInv'
<1> SUFFICES ASSUME IInv, [Next]_vars PROVE IInv'
  OBVIOUS
<1>1. TypeOK' /\ Prepared'
  BY TypeNext, PreparedNext DEF IInv
<1>2. CASE Next
  <2>1. History
    BY <1>2 DEF Next, SessionStep, DeviceStep, Tick,
         Begin, AcquireRead, AcquireWriteTmp, AcquireRename, AcquireFails,
         BeatRead, BeatWriteTmp, BeatRename, BeatFails,
         FinishCopy, FinishMetadata, Release, ReleaseFails,
         ClearSelf, ClearSelfRead, ReleaseStale, ReleaseStaleRead,
         ToolUnlink, Crash
  <2>2. HazardsNow' \subseteq hazards'
    BY <2>1 DEF History
  <2>3. hazards' = {} => Quiet'
    BY <1>2, QuietNext
  <2>4. "overlap" \notin hazards' => Tidy'
    BY <1>2, TidyNext
  <2>5. QED
    BY <1>1, <2>2, <2>3, <2>4 DEF IInv
<1>3. CASE UNCHANGED vars
  BY <1>1, <1>3
  DEF IInv, vars, HazardsNow, Overlap, Windows, Lapse, Late, Forced, Held,
      Now, Time, Active, Quiet, Tidy, HolderOwns, ClaimantAlone, TmpIsMine,
      BeatIsMine, BeatKeepsOwner, ToolIsHarmless, FileHasOwner
<1>4. QED
  BY <1>2, <1>3

\* The inductive invariant holds in every reachable state.
THEOREM Invariance == Spec => []IInv
<1>1. QED
  BY IInvInit, IInvNext, PTL DEF Spec

\* Mutual exclusion of the writers of a photographer folder, short of the
\* named hazards.
THEOREM ExclusionCorrect == Spec => []Exclusion
<1>1. IInv => Exclusion
  BY DEF IInv, Quiet, HolderOwns, Exclusion, Writers, Holding
<1>2. QED
  BY <1>1, Invariance, PTL

\* The unconditional unlink of releaseLock removes the session's own lock,
\* short of the named hazards.
THEOREM ReleaseCorrect == Spec => []ReleasesOwnLock
<1>1. IInv => ReleasesOwnLock
  BY DEF IInv, Quiet, HolderOwns, ReleasesOwnLock, Holding
<1>2. QED
  BY <1>1, Invariance, PTL

\* No lock survives a session that ended in the normal way, as long as no two
\* windows were open together.
THEOREM NoOrphanCorrect == Spec => []NoOrphan
<1>1. IInv => NoOrphan
  BY DEF IInv, Tidy, FileHasOwner, NoOrphan
<1>2. QED
  BY <1>1, Invariance, PTL

\* A heartbeat never takes a session's own lock for lost, short of the named
\* hazards.
THEOREM HeartbeatCorrect == Spec => []HeartbeatFindsOwnLock
<1>1. IInv => HeartbeatFindsOwnLock
  BY DEF IInv, Quiet, HolderOwns, HeartbeatFindsOwnLock, TimerAlive,
         SameOwner, Holding
<1>2. QED
  BY <1>1, Invariance, PTL

-----------------------------------------------------------------------------
(***************************************************************************)
(* SequenceRename                                                          *)
(*                                                                         *)
(* Five layers, each of which needs the ones before it: IShape (how the    *)
(* handler's own state fits together), Hidden (a temporary name stands for *)
(* an entry phase 1 moved and has not put back), OneEach (a photographer   *)
(* has one folder in a scope, and none while his is under a temporary      *)
(* name, so that no rename overwrites another's folder), Follows (the      *)
(* intent of an import leads to its files) and Listed (so does its job).   *)
(***************************************************************************)


\* The photographer's folders a reader sees.
Visible(s, p) == {n \in Real : n[1] = p /\ There(s, n)}
\* What leaves a folder where it is for good.
Lasting == {"scan", "place", "rollback", "crash"}
\* The handler is within a scope's two phases, or within its undo as well.
Renaming == {"scan", "move", "back", "place"}
InDir == Renaming \union {"undo"}

\* The handler's own state fits together.
HandlerShape ==
  /\ runs <= MaxRuns
  /\ h.at # "idle" => h.plan \in Plans /\ runs # 0
  /\ h.at \in InDir => h.k \in DOMAIN h.plan
  /\ h.at \in InDir \union {"sequences", "number", "read", "write"} => h.ok
  /\ h.at = "undo" => "place" \in mishaps
  /\ h.i # 0
  /\ h.at = "move" => /\ h.i \in DOMAIN Ordered
                      /\ h.cur \in Visible(Scope, Entry[1]) /\ h.cur # Entry
  /\ h.done <= Len(h.moved)
  /\ h.at \in {"scan", "move", "back"} => h.done = 0
  /\ h.at = "remap" /\ h.ok => h.moved = << >>
  /\ h.at = "remap" /\ ~h.ok /\ mishaps = {} => h.renames = {}

\* What phase 1 has moved, by distinct temporary names.
MovedShape ==
  h.at \in InDir =>
    /\ \A x \in DOMAIN h.moved :
         /\ h.moved[x].from \in Real /\ h.moved[x].from[1] = h.moved[x].to[1]
         /\ h.moved[x].tmp = <<runs, h.moved[x].to[2]>>
         /\ \E j \in DOMAIN Ordered : h.moved[x].to = Ordered[j]
                                      /\ (h.at \in {"scan", "move"} => j < h.i)
    /\ \A x, y \in DOMAIN h.moved : h.moved[x].to[2] = h.moved[y].to[2] => x = y

\* What earlier scopes have renamed.
RenamesShape ==
  \A r \in h.renames :
    /\ r[2] \in Real /\ r[3] \in Real /\ r[2][1] = r[3][1]
    /\ \E k \in DOMAIN h.plan :
         /\ h.plan[k].scope = r[1] /\ (h.at \in InDir => k < h.k)
         /\ \E j \in DOMAIN h.plan[k].ordered : h.plan[k].ordered[j] = r[3]

\* Imports in flight while the handler runs are in split, and so is who is listed twice.
SplitShape ==
  /\ \A m \in Imports : imp[m].to \in Real /\ imp[m].to[1] = ByOf[m]
  /\ h.at # "idle" => Split \subseteq split /\ Numbered(h.plan)

Shape == HandlerShape /\ MovedShape /\ RenamesShape /\ SplitShape

IShape == SeqTypeOK /\ Shape

\* A folder under a temporary name is one phase 1 moved and phase 2 or the rollback has
\* yet to put back.
Hidden ==
  mishaps \intersect Lasting = {} =>
    \A s \in Scopes, n \in Temp : There(s, n) =>
      /\ h.at \in Renaming /\ s = Scope
      /\ \E x \in DOMAIN h.moved : x > h.done /\ h.moved[x].tmp = n

\* What separates an intent from its folder, and who is spared it.
Cut == Lasting \union {"record"}
Whole(s, p) == <<s, p>> \notin split
Holds(m, n) == There(ScopeOf[m], n) /\ m \in dirs[ScopeOf[m]][n]

\* The handler is at the scope of the import, and what it has moved of its folder there.
Here(m) == h.at \in Renaming /\ ScopeOf[m] = Scope

MovedFrom(m) == {x \in DOMAIN h.moved : h.moved[x].from = intent[m]}
RenamedFrom(m) == {r \in h.renames : r[1] = ScopeOf[m] /\ r[2] = intent[m]}

\* The files of a finished import are where the intent will lead when the handler has
\* put back, placed or recorded what it has moved.
Followed(m) ==
  /\ intent[m] \in Real /\ intent[m][1] = ByOf[m]
  /\ Here(m) => \A x \in MovedFrom(m) :
       Holds(m, IF x <= h.done THEN h.moved[x].to ELSE h.moved[x].tmp)
  /\ h.at \in InDir \union {"remap"} => \A r \in RenamedFrom(m) : Holds(m, r[3])
  /\ (Here(m) => MovedFrom(m) = {})
     /\ (h.at \in InDir \union {"remap"} => RenamedFrom(m) = {}) => Holds(m, intent[m])

\* The same of an import under way, by the folder it writes to.
Follows ==
  \A m \in Imports : Whole(ScopeOf[m], ByOf[m]) =>
    /\ imp[m].at = "done" /\ mishaps \intersect Cut = {} => Followed(m)
    /\ imp[m].at \in {"copied", "committed"} => Holds(m, imp[m].to)
    /\ imp[m].at = "committed" => intent[m] = imp[m].to

\* A photographer has one folder, none without a number once he has a number, and the
\* planned one where the plan has been carried out.
One(s, p) == \A a, b \in Visible(s, p) : a = b
PlainOnly(s, p) == seqs[s][p] # 0 => <<p, 0>> \notin Visible(s, p)
AsPlanned(s, p) == Planned(s, p) # 0 => Visible(s, p) \subseteq {<<p, Planned(s, p)>>}

\* Behind the scan the folder is where the plan wants it, or on its way there.
Scanned(s, p) ==
  h.at \in {"scan", "move", "place"} /\ s = Scope =>
    \A j \in DOMAIN Ordered :
      Ordered[j][1] = p /\ (h.at # "place" => j < h.i) =>
        /\ Visible(s, p) \subseteq {Ordered[j]}
        /\ \A x \in DOMAIN h.moved : h.moved[x].to[1] = p => h.moved[x].to = Ordered[j]

\* While his folder is under a temporary name he has no other, and phase 1 moves one.
Gone(s, p) ==
  h.at \in Renaming /\ s = Scope =>
    /\ \A x \in DOMAIN h.moved : x > h.done /\ h.moved[x].to[1] = p => Visible(s, p) = {}
    /\ \A x, y \in DOMAIN h.moved :
         h.moved[x].to[1] = p /\ h.moved[y].to[1] = p => x = y

\* The rollback and the undo put nothing back that would break PlainOnly.
Restorable(s, p) ==
  h.at \in InDir /\ s = Scope => \A x \in DOMAIN h.moved :
     seqs[s][p] # 0 => h.moved[x].from # <<p, 0>>

\* An import routed before the handler started makes no second folder.
Routed(m) ==
  LET s == ScopeOf[m] p == ByOf[m] IN
  /\ imp[m].at = "planned" => imp[m].to = <<p, seqs[s][p]>>
  /\ imp[m].at \in {"resolved", "made", "copied", "committed"} =>
       /\ Visible(s, p) \subseteq {imp[m].to}
       /\ Visible(s, p) = {} => imp[m].to = <<p, seqs[s][p]>>

\* What earlier scopes of the plan hold, and all of them once the records are written.
Placed(s, p) ==
  /\ h.at \in {"scan", "move", "place"} =>
       \A k \in DOMAIN h.plan : k < h.k /\ h.plan[k].scope = s => AsPlanned(s, p)
  /\ h.at \in {"sequences", "number", "read", "write"} \/ (h.at = "remap" /\ h.ok) => AsPlanned(s, p)

EachOf(s, p) == /\ One(s, p) /\ PlainOnly(s, p) /\ Gone(s, p) /\ Restorable(s, p)
                /\ Scanned(s, p) /\ Placed(s, p)

OneEach ==
  /\ \A s \in Scopes, p \in Photographers : Whole(s, p) => EachOf(s, p)
  /\ \A m \in Imports : Whole(ScopeOf[m], ByOf[m]) => Routed(m)

\* While the handler has event.json read and not yet written, nobody commits into a
\* whole folder.
IntentsRead ==
  h.at = "number" => \A m \in Imports : Whole(ScopeOf[m], ByOf[m]) => saved[m] = intent[m]

\* The manifest, what the handler has read of it and what it will write agree with the
\* intents, as far as the plan allows before the new numbers are recorded.
Listed ==
  mishaps = {} => \A m \in Imports :
    Whole(ScopeOf[m], ByOf[m]) /\ imp[m].at = "done" =>
      /\ h.at \in InDir \union {"idle", "remap"} => manifest[m] = intent[m]
      /\ h.at \in {"sequences", "number", "read", "write"} =>
           /\ manifest[m] \in Real /\ manifest[m][1] = ByOf[m]
           /\ Planned(ScopeOf[m], ByOf[m]) = 0 => manifest[m] = intent[m]
      /\ h.at = "write" => saved[m] = manifest[m]


LEMMA RealIs ==
  /\ Real \subseteq Folders /\ Temp \subseteq Folders
  /\ \A n \in Real : n[1] \in Photographers /\ n[2] \in 0..MaxSeq /\ n = <<n[1], n[2]>>
  /\ \A n \in Real : n \notin Temp
  /\ \A p \in Photographers, q \in 0..MaxSeq : <<p, q>> \in Real
BY SequenceRenameConstants DEF Real, Temp, Folders

\* A plan is never empty, and its numbers are at least one.
LEMMA PlansAre ==
  ASSUME NEW plan \in Plans
  PROVE  /\ plan \in Seq([scope : Scopes, ordered : Seq(Photographers \X (1..MaxSeq))])
         /\ 1 \in DOMAIN plan /\ Len(plan) \in Nat /\ DOMAIN plan = 1..Len(plan)
         /\ \A k \in DOMAIN plan :
              /\ plan[k].scope \in Scopes
              /\ plan[k].ordered \in Seq(Photographers \X (1..MaxSeq))
         /\ \A k, l \in DOMAIN plan : plan[k].scope = plan[l].scope => k = l
         /\ \A k \in DOMAIN plan : \A i, j \in DOMAIN plan[k].ordered :
              plan[k].ordered[i][2] = plan[k].ordered[j][2] => i = j
<1>1. plan \in Seq([scope : Scopes, ordered : Seq(Photographers \X (1..MaxSeq))])
  BY SequenceRenameConstants
<1>2. plan # << >>
  BY SequenceRenameConstants
<1>3. Len(plan) \in Nat /\ Len(plan) # 0 /\ DOMAIN plan = 1..Len(plan)
  BY <1>1, <1>2
<1>4. 1 \in DOMAIN plan
  BY <1>3
<1> DEFINE R == [scope : Scopes, ordered : Seq(Photographers \X (1..MaxSeq))]
<1>5. \A k \in DOMAIN plan : plan[k] \in R
  <2>1. plan \in Seq(R)
    BY <1>1
  <2> HIDE DEF R
  <2>2. QED
    BY <2>1
<1>6. \A k \in DOMAIN plan :
         /\ plan[k].scope \in Scopes
         /\ plan[k].ordered \in Seq(Photographers \X (1..MaxSeq))
  BY <1>5
<1>7. QED
  BY <1>1, <1>3, <1>4, <1>6, SequenceRenameConstants

\* The folder the handler is at.
LEMMA AtScope ==
  ASSUME SeqTypeOK, HandlerShape, h.at \in InDir
  PROVE  /\ h.plan \in Plans /\ runs \in 1..MaxRuns /\ h.k \in DOMAIN h.plan
         /\ Scope \in Scopes
         /\ Ordered \in Seq(Photographers \X (1..MaxSeq))
         /\ DOMAIN Ordered \subseteq Nat /\ h.k \in Nat /\ h.i \in Nat
         /\ \A j \in DOMAIN Ordered :
              /\ Ordered[j][1] \in Photographers /\ Ordered[j][2] \in 1..MaxSeq
              /\ Ordered[j] = <<Ordered[j][1], Ordered[j][2]>>
              /\ Ordered[j] \in Real
              /\ <<runs, Ordered[j][2]>> \in Temp
<1>1. h.plan \in Plans /\ runs # 0 /\ runs <= MaxRuns /\ runs \in Nat /\ h.k \in DOMAIN h.plan
  BY DEF SeqTypeOK, HandlerShape, InDir, Renaming
<1>2. runs \in 1..MaxRuns
  BY <1>1, SequenceRenameConstants
<1>3. Scope \in Scopes /\ Ordered \in Seq(Photographers \X (1..MaxSeq))
  BY <1>1, PlansAre DEF Scope, Ordered
<1>4. \A j \in DOMAIN Ordered : Ordered[j] \in Photographers \X (1..MaxSeq)
  BY <1>3
<1>5. ASSUME NEW j \in DOMAIN Ordered
      PROVE  /\ Ordered[j][1] \in Photographers /\ Ordered[j][2] \in 1..MaxSeq
             /\ Ordered[j] = <<Ordered[j][1], Ordered[j][2]>>
  BY <1>4
<1>6. 1..MaxSeq \subseteq 0..MaxSeq
  BY SequenceRenameConstants
<1>7. ASSUME NEW j \in DOMAIN Ordered
      PROVE  Ordered[j] \in Real /\ <<runs, Ordered[j][2]>> \in Temp
  BY <1>2, <1>5, <1>6 DEF Real, Temp
<1>8. DOMAIN Ordered \subseteq Nat
  BY <1>3
<1>9. h.k \in Nat /\ h.i \in Nat
  BY DEF SeqTypeOK, Handler
<1>10. QED
  BY <1>1, <1>2, <1>3, <1>5, <1>7, <1>8, <1>9

\* A rename as the file system sees it.
LEMMA RenamedIs ==
  ASSUME SeqTypeOK, NEW s \in Scopes, NEW a \in Folders, NEW b \in Folders
  PROVE  /\ Renamed(s, a, b) \in [Scopes -> [Folders -> (SUBSET Imports) \union {NoFolder}]]
         /\ \A t \in Scopes, n \in Folders :
              Renamed(s, a, b)[t][n] = IF t = s /\ n = a THEN NoFolder
                                       ELSE IF t = s /\ n = b THEN dirs[s][a] ELSE dirs[t][n]
<1>1. dirs \in [Scopes -> [Folders -> (SUBSET Imports) \union {NoFolder}]]
  BY DEF SeqTypeOK
<1>2. dirs[s][a] \in (SUBSET Imports) \union {NoFolder}
  BY <1>1
<1> DEFINE d == [dirs[s] EXCEPT ![b] = dirs[s][a], ![a] = NoFolder]
<1>3. d \in [Folders -> (SUBSET Imports) \union {NoFolder}]
  <2> DEFINE e == [dirs[s] EXCEPT ![b] = dirs[s][a]]
  <2>1. e \in [Folders -> (SUBSET Imports) \union {NoFolder}]
    BY <1>1, <1>2
  <2>2. d = [e EXCEPT ![a] = NoFolder]
    OBVIOUS
  <2> HIDE DEF d, e
  <2> DEFINE T == (SUBSET Imports) \union {NoFolder}
  <2>3. e \in [Folders -> T] /\ NoFolder \in T
    BY <2>1
  <2>4. d \in [Folders -> T]
    <3> HIDE DEF T
    <3>1. QED
      BY <2>2, <2>3
  <2>5. QED
    BY <2>4
<1>4. \A n \in Folders : d[n] = IF n = a THEN NoFolder ELSE IF n = b THEN dirs[s][a] ELSE dirs[s][n]
  BY <1>1
<1>5. Renamed(s, a, b) = [dirs EXCEPT ![s] = d]
  BY DEF Renamed
<1> HIDE DEF d
<1>6. Renamed(s, a, b) \in [Scopes -> [Folders -> (SUBSET Imports) \union {NoFolder}]]
  BY <1>1, <1>3, <1>5
<1>7. \A t \in Scopes : Renamed(s, a, b)[t] = IF t = s THEN d ELSE dirs[t]
  BY <1>1, <1>5
<1>8. QED
  BY <1>4, <1>6, <1>7


LEMMA ShapeInit == SeqInit => IShape
<1> SUFFICES ASSUME SeqInit PROVE IShape
  OBVIOUS
<1>1. \A m \in Imports : Plain(m) \in Real /\ Plain(m)[1] = ByOf[m]
  BY SequenceRenameConstants DEF Plain, Real
<1>2. dirs \in [Scopes -> [Folders -> (SUBSET Imports) \union {NoFolder}]]
  <2>1. \A s \in Scopes, n \in Folders :
          LET ms == {m \in Already : ScopeOf[m] = s /\ Plain(m) = n} IN
          (IF ms = {} THEN NoFolder ELSE ms) \in (SUBSET Imports) \union {NoFolder}
    BY SequenceRenameConstants
  <2>2. QED
    BY <2>1 DEF SeqInit
<1>3. Rest \in Handler
  BY DEF Rest, Handler
<1>4. seqs \in [Scopes -> [Photographers -> 0..MaxSeq]]
  BY SequenceRenameConstants DEF SeqInit
<1>5. imp \in [Imports -> [at : {"idle", "planned", "resolved", "made", "copied",
                                "committed", "done", "failed"},
                          to : Folders]]
  BY <1>1, RealIs DEF SeqInit
<1>6. intent \in [Imports -> Folders \union {NoFolder}] /\ manifest = intent
  BY <1>1, RealIs DEF SeqInit
<1>7. SeqTypeOK
  BY <1>2, <1>3, <1>4, <1>5, <1>6 DEF SeqInit, SeqTypeOK
<1>8. HandlerShape /\ MovedShape /\ RenamesShape
  BY SequenceRenameConstants
  DEF SeqInit, Rest, HandlerShape, MovedShape, RenamesShape, InDir, Renaming
<1>9. SplitShape
  BY <1>1 DEF SeqInit, Rest, SplitShape
<1>10. QED
  BY <1>7, <1>8, <1>9 DEF IShape, Shape

\* A step of the handler in one folder that leaves the imports alone.
LEMMA SplitStays ==
  ASSUME SplitShape, h.at # "idle", h'.plan = h.plan,
         UNCHANGED <<imp, split>>
  PROVE  SplitShape'
BY DEF SplitShape, Split, InFlight, Numbered

LEMMA FailedShape ==
  ASSUME IShape, h.at \in InDir, NEW why, Failed(why),
         why \subseteq {"scan", "place", "rollback", "partial", "record", "lost", "crash"},
         UNCHANGED <<dirs, recordVars, saved, before, imp, runs, split>>, faults' \in Nat
  PROVE  IShape'
<1>1. h' \in Handler
  BY DEF IShape, SeqTypeOK, Handler, Failed
<1>2. SeqTypeOK'
  BY <1>1 DEF IShape, SeqTypeOK, recordVars, Failed
<1>3. h'.at = "remap" /\ h'.ok = FALSE /\ h'.plan = h.plan /\ h'.i = h.i /\ h'.renames = h.renames
      /\ h'.moved = h.moved /\ h'.done = h.done
  BY DEF Failed, IShape, SeqTypeOK, Handler
<1>4. mishaps' = {} => h.renames = {}
  BY DEF Failed
<1>5. HandlerShape'
  BY <1>3, <1>4 DEF HandlerShape, InDir, Renaming, IShape, Shape
<1>6. MovedShape' /\ RenamesShape'
  BY <1>3 DEF MovedShape, RenamesShape, InDir, Renaming, IShape, Shape
<1>7. SplitShape'
  BY <1>3, SplitStays DEF IShape, Shape, InDir, Renaming
<1>8. QED
  BY <1>2, <1>5, <1>6, <1>7 DEF IShape, Shape

\* The next entry of phase 1.
LEMMA NextEntryShape ==
  ASSUME IShape, h.at = "scan", h.i \in DOMAIN Ordered, h' = [h EXCEPT !.i = @ + 1],
         UNCHANGED <<dirs, recordVars, saved, before, imp, runs, faults, split, mishaps>>
  PROVE  IShape'
<1>1. SeqTypeOK /\ HandlerShape /\ h.at \in InDir /\ h.i \in Nat
  BY AtScope DEF IShape, Shape, InDir, Renaming
<1>2. h' \in Handler
  <2>1. h \in Handler /\ h.i + 1 \in Nat /\ h' = [h EXCEPT !.i = h.i + 1]
    BY <1>1 DEF SeqTypeOK
  <2>2. QED
    BY <2>1 DEF Handler
<1>3. SeqTypeOK'
  BY <1>2 DEF IShape, SeqTypeOK, recordVars
<1>4. /\ h'.at = "scan" /\ h'.i = h.i + 1 /\ h'.plan = h.plan /\ h'.k = h.k /\ h'.moved = h.moved
      /\ h'.done = h.done /\ h'.renames = h.renames /\ h'.ok = h.ok /\ Ordered' = Ordered
      /\ Scope' = Scope
  BY <1>1 DEF SeqTypeOK, Handler, Ordered, Scope
<1>5. HandlerShape'
  BY <1>1, <1>4 DEF HandlerShape, InDir, Renaming
<1>6. MovedShape'
  <2>1. \A j \in DOMAIN Ordered : j < h.i => j < h.i + 1
    BY <1>1, AtScope
  <2>2. QED
    BY <1>1, <1>4, <2>1 DEF MovedShape, InDir, Renaming, IShape, Shape
<1>7. RenamesShape'
  BY <1>1, <1>4 DEF RenamesShape, InDir, Renaming, IShape, Shape
<1>8. SplitShape'
  BY <1>1, <1>4, SplitStays DEF IShape, Shape
<1>9. QED
  BY <1>3, <1>5, <1>6, <1>7, <1>8 DEF IShape, Shape

LEMMA ScanShape == IShape /\ Scan => IShape'
<1> SUFFICES ASSUME IShape, Scan PROVE IShape'
  OBVIOUS
<1>1. /\ SeqTypeOK /\ HandlerShape /\ h.at \in InDir /\ h.at = "scan" /\ h.i \in DOMAIN Ordered
      /\ UNCHANGED <<dirs, recordVars, saved, before, imp, runs, split>>
  BY DEF IShape, Shape, InDir, Renaming, Scan
<1> DEFINE found == {n \in Real : n[1] = Entry[1] /\ There(Scope, n)}
<1>2. CASE h' = [h EXCEPT !.i = @ + 1] /\ UNCHANGED <<faults, mishaps>>
  BY <1>1, <1>2, NextEntryShape
<1>3. CASE /\ \E n \in found : n # Entry /\ h' = [h EXCEPT !.at = "move", !.cur = n]
           /\ UNCHANGED <<faults, mishaps>>
  <2>1. PICK n \in found : n # Entry /\ h' = [h EXCEPT !.at = "move", !.cur = n]
    BY <1>3
  <2>2. n \in Folders
    BY RealIs
  <2>3. h' \in Handler
    BY <1>1, <2>1, <2>2 DEF SeqTypeOK, Handler
  <2>4. SeqTypeOK'
    BY <1>1, <1>3, <2>3 DEF SeqTypeOK, recordVars
  <2>5. /\ h'.at = "move" /\ h'.i = h.i /\ h'.plan = h.plan /\ h'.k = h.k /\ h'.moved = h.moved
        /\ h'.done = h.done /\ h'.renames = h.renames /\ h'.ok = h.ok /\ h'.cur = n
        /\ Ordered' = Ordered /\ Scope' = Scope /\ Entry' = Entry
    BY <1>1, <2>1 DEF SeqTypeOK, Handler, Ordered, Scope, Entry
  <2>6. n \in Visible(Scope, Entry[1])'
    BY <1>1, <2>5 DEF Visible, There
  <2>7. HandlerShape'
    BY <1>1, <2>1, <2>5, <2>6 DEF HandlerShape, InDir, Renaming
  <2>8. MovedShape' /\ RenamesShape'
    BY <1>1, <2>5 DEF MovedShape, RenamesShape, InDir, Renaming, IShape, Shape
  <2>9. SplitShape'
    BY <1>1, <2>5, SplitStays DEF IShape, Shape
  <2>10. QED
    BY <2>4, <2>7, <2>8, <2>9 DEF IShape, Shape
<1>4. CASE Fault /\ \E why \in SUBSET {"scan"} : Failed(why)
  <2>1. faults' \in Nat
    BY <1>1, <1>4 DEF Fault, SeqTypeOK
  <2>2. QED
    BY <1>1, <1>4, <2>1, FailedShape
<1>5. QED
  BY <1>2, <1>3, <1>4 DEF Scan


LEMMA AppendIs ==
  ASSUME NEW S, NEW q \in Seq(S), NEW e \in S
  PROVE  /\ Append(q, e) \in Seq(S) /\ Len(Append(q, e)) = Len(q) + 1 /\ Len(q) \in Nat
         /\ DOMAIN Append(q, e) = DOMAIN q \union {Len(q) + 1} /\ Len(q) + 1 \notin DOMAIN q
         /\ Append(q, e)[Len(q) + 1] = e
         /\ \A x \in DOMAIN q : Append(q, e)[x] = q[x]
OBVIOUS

LEMMA FrontIs ==
  ASSUME NEW S, NEW q \in Seq(S), q # << >>
  PROVE  /\ SubSeq(q, 1, Len(q) - 1) \in Seq(S)
         /\ Len(SubSeq(q, 1, Len(q) - 1)) = Len(q) - 1 /\ Len(q) \in Nat
         /\ DOMAIN SubSeq(q, 1, Len(q) - 1) = DOMAIN q \ {Len(q)} /\ Len(q) \in DOMAIN q
         /\ \A x \in DOMAIN SubSeq(q, 1, Len(q) - 1) : SubSeq(q, 1, Len(q) - 1)[x] = q[x]
<1> DEFINE f == SubSeq(q, 1, Len(q) - 1)
<1>1. Len(q) \in Nat /\ Len(q) # 0 /\ DOMAIN q = 1..Len(q)
  OBVIOUS
<1>2. f = [x \in 1..(Len(q) - 1) |-> q[x]]
  BY <1>1
<1>3. \A x \in 1..(Len(q) - 1) : q[x] \in S
  BY <1>1
<1>4. Len(q) - 1 \in Nat
  BY <1>1
<1>5. f \in Seq(S) /\ Len(f) = Len(q) - 1
  <2> HIDE DEF f
  <2>1. f \in [1..(Len(q) - 1) -> S]
    BY <1>2, <1>3
  <2>2. QED
    BY <1>4, <2>1
<1>6. DOMAIN f = DOMAIN q \ {Len(q)} /\ Len(q) \in DOMAIN q
  BY <1>1, <1>2
<1>7. \A x \in DOMAIN f : f[x] = q[x]
  BY <1>2
<1>8. QED
  BY <1>1, <1>5, <1>6, <1>7

\* The handler moves on in the folder it is in: moved and done change, dirs too.
LEMMA MovedTypes ==
  ASSUME SeqTypeOK, HandlerShape, MovedShape, h.at \in InDir
  PROVE  /\ h.moved \in Seq(Move) /\ Len(h.moved) \in Nat /\ DOMAIN h.moved = 1..Len(h.moved)
         /\ h.done \in Nat /\ h.done <= Len(h.moved)
         /\ \A x \in DOMAIN h.moved :
              /\ h.moved[x].from \in Real /\ h.moved[x].to \in Real /\ h.moved[x].tmp \in Temp
              /\ h.moved[x].from \in Folders /\ h.moved[x].to \in Folders
              /\ h.moved[x].tmp \in Folders
              /\ h.moved[x].from[1] = h.moved[x].to[1]
<1>1. h.moved \in Seq(Move) /\ h.done \in Nat /\ h.done <= Len(h.moved)
  BY DEF SeqTypeOK, Handler, HandlerShape
<1>2. Len(h.moved) \in Nat /\ DOMAIN h.moved = 1..Len(h.moved)
  BY <1>1
<1>3. ASSUME NEW x \in DOMAIN h.moved
      PROVE  /\ h.moved[x].from \in Real /\ h.moved[x].to \in Real /\ h.moved[x].tmp \in Temp
             /\ h.moved[x].from[1] = h.moved[x].to[1]
  <2>1. PICK j \in DOMAIN Ordered : h.moved[x].to = Ordered[j]
    BY DEF MovedShape
  <2>2. h.moved[x].to \in Real /\ <<runs, h.moved[x].to[2]>> \in Temp
    BY <2>1, AtScope
  <2>3. QED
    BY <2>2 DEF MovedShape
<1>4. QED
  BY <1>1, <1>2, <1>3, RealIs

LEMMA ToTempShape == IShape /\ ToTemp => IShape'
<1> SUFFICES ASSUME IShape, ToTemp PROVE IShape'
  OBVIOUS
<1>1. /\ SeqTypeOK /\ HandlerShape /\ MovedShape /\ h.at \in InDir /\ h.at = "move"
      /\ UNCHANGED <<recordVars, saved, before, imp, runs, split, mishaps>>
  BY DEF IShape, Shape, InDir, Renaming, ToTemp
<1>2. /\ h.i \in DOMAIN Ordered /\ h.cur \in Real /\ h.cur[1] = Entry[1] /\ h.i \in Nat
      /\ Entry \in Real /\ <<runs, Entry[2]>> \in Temp /\ Scope \in Scopes
  BY <1>1, AtScope DEF HandlerShape, Visible, Entry
<1> DEFINE tmp == <<runs, Entry[2]>>
           e == [from |-> h.cur, tmp |-> tmp, to |-> Entry]
<1>3. CASE /\ dirs' = Renamed(Scope, h.cur, tmp)
           /\ h' = [h EXCEPT !.at = "scan", !.i = @ + 1, !.moved = Append(@, e)]
           /\ UNCHANGED faults
  <2>1. e \in Move
    BY <1>2, RealIs DEF Move
  <2> DEFINE q == h.moved
  <2>2. q \in Seq(Move) /\ h.done = 0
    BY <1>1 DEF SeqTypeOK, Handler, HandlerShape
  <2>3. /\ Append(q, e) \in Seq(Move) /\ Len(Append(q, e)) = Len(q) + 1 /\ Len(q) \in Nat
        /\ DOMAIN Append(q, e) = DOMAIN q \union {Len(q) + 1} /\ Len(q) + 1 \notin DOMAIN q
        /\ Append(q, e)[Len(q) + 1] = e
        /\ \A x \in DOMAIN q : Append(q, e)[x] = q[x]
    <3> HIDE DEF e, q
    <3>1. QED
      BY <2>1, <2>2, AppendIs
  <2>4. h' \in Handler
    <3>1. h \in Handler /\ h.i + 1 \in Nat
          /\ h' = [h EXCEPT !.at = "scan", !.i = h.i + 1, !.moved = Append(q, e)]
      BY <1>1, <1>2, <1>3 DEF SeqTypeOK
    <3> HIDE DEF e, q
    <3>2. QED
      BY <2>3, <3>1 DEF Handler
  <2>5. SeqTypeOK'
    BY <1>1, <1>2, <1>3, <2>4, RenamedIs, RealIs DEF SeqTypeOK, recordVars
  <2>6. /\ h'.at = "scan" /\ h'.i = h.i + 1 /\ h'.plan = h.plan /\ h'.k = h.k
        /\ h'.moved = Append(q, e) /\ h'.done = 0 /\ h'.renames = h.renames /\ h'.ok = h.ok
        /\ Ordered' = Ordered /\ Scope' = Scope
    BY <1>1, <1>3, <2>2 DEF SeqTypeOK, Handler, Ordered, Scope
  <2>7. HandlerShape'
    BY <1>1, <1>2, <2>3, <2>6 DEF HandlerShape, InDir, Renaming
  <2>8. MovedShape'
    <3>1. ASSUME NEW x \in DOMAIN h'.moved
          PROVE  /\ h'.moved[x].from \in Real /\ h'.moved[x].from[1] = h'.moved[x].to[1]
                 /\ h'.moved[x].tmp = <<runs', h'.moved[x].to[2]>>
                 /\ \E j \in DOMAIN Ordered : h'.moved[x].to = Ordered[j] /\ j < h'.i
      <4>1. CASE x \in DOMAIN q
        <5>1. PICK j \in DOMAIN Ordered : q[x].to = Ordered[j] /\ j < h.i
          BY <1>1, <4>1 DEF MovedShape
        <5>2. j \in Nat
          BY <1>1, AtScope
        <5>3. j < h'.i
          BY <1>2, <2>6, <5>1, <5>2
        <5>4. h'.moved[x] = q[x]
          BY <2>3, <2>6, <4>1
        <5>5. QED
          BY <1>1, <4>1, <5>1, <5>3, <5>4 DEF MovedShape
      <4>2. CASE x = Len(q) + 1
        <5>1. h'.moved[x] = e
          BY <2>3, <2>6, <4>2
        <5>2. h.i < h'.i
          BY <1>2, <2>6
        <5>3. QED
          BY <1>1, <1>2, <5>1, <5>2 DEF Entry
      <4>3. QED
        BY <2>3, <2>6, <4>1, <4>2
    <3>2. \A x \in DOMAIN q : q[x].to[2] # Entry[2]
      <4>1. ASSUME NEW x \in DOMAIN q, q[x].to[2] = Entry[2] PROVE FALSE
        <5>1. PICK j \in DOMAIN Ordered : q[x].to = Ordered[j] /\ j < h.i
          BY <1>1 DEF MovedShape
        <5>2. Ordered[j][2] = Ordered[h.i][2] /\ h.plan \in Plans /\ h.k \in DOMAIN h.plan
          BY <1>1, <4>1, <5>1, AtScope DEF Entry
        <5>3. j = h.i
          BY <1>2, <5>2, PlansAre DEF Ordered
        <5>4. QED
          BY <1>2, <5>1, <5>3
      <4>2. QED
        BY <4>1
    <3>3. ASSUME NEW x \in DOMAIN h'.moved, NEW y \in DOMAIN h'.moved,
                 h'.moved[x].to[2] = h'.moved[y].to[2]
          PROVE  x = y
      <4>1. \A z \in DOMAIN h'.moved :
               \/ z \in DOMAIN q /\ h'.moved[z] = q[z]
               \/ z = Len(q) + 1 /\ h'.moved[z] = e
        BY <2>3, <2>6
      <4>2. e.to = Entry
        OBVIOUS
      <4>3. \A a, b \in DOMAIN q : q[a].to[2] = q[b].to[2] => a = b
        BY <1>1 DEF MovedShape
      <4> HIDE DEF e, q
      <4>4. QED
        BY <3>2, <3>3, <4>1, <4>2, <4>3
    <3>4. QED
      BY <2>6, <3>1, <3>3 DEF MovedShape
  <2>9. RenamesShape'
    BY <1>1, <2>6 DEF RenamesShape, InDir, Renaming, IShape, Shape
  <2>10. SplitShape'
    BY <1>1, <2>6, SplitStays DEF IShape, Shape
  <2>11. QED
    BY <2>5, <2>7, <2>8, <2>9, <2>10 DEF IShape, Shape
<1>4. CASE Fault /\ h' = [h EXCEPT !.at = "back"] /\ UNCHANGED dirs
  <2>1. h' \in Handler /\ faults' \in Nat
    <3>1. h \in Handler /\ faults \in Nat /\ MaxFaults \in Nat
      BY <1>1, SequenceRenameConstants DEF SeqTypeOK
    <3>2. h' \in Handler
      BY <1>4, <3>1 DEF Handler
    <3>3. QED
      BY <1>4, <3>1, <3>2 DEF Fault
  <2>2. SeqTypeOK'
    BY <1>1, <1>4, <2>1 DEF SeqTypeOK, recordVars
  <2>3. /\ h'.at = "back" /\ h'.i = h.i /\ h'.plan = h.plan /\ h'.k = h.k /\ h'.moved = h.moved
        /\ h'.done = h.done /\ h'.renames = h.renames /\ h'.ok = h.ok
        /\ Ordered' = Ordered /\ Scope' = Scope
    BY <1>1, <1>4 DEF SeqTypeOK, Handler, Ordered, Scope
  <2>4. HandlerShape' /\ MovedShape' /\ RenamesShape'
    BY <1>1, <2>3 DEF HandlerShape, MovedShape, RenamesShape, InDir, Renaming, IShape, Shape
  <2>5. SplitShape'
    BY <1>1, <2>3, SplitStays DEF IShape, Shape
  <2>6. QED
    BY <2>2, <2>4, <2>5 DEF IShape, Shape
<1>5. QED
  BY <1>3, <1>4 DEF ToTemp


\* A step that only takes the handler to another place in the same folder.
LEMMA SamePlaceShape ==
  ASSUME IShape, h.at \in {"scan", "move", "place"}, NEW at \in {"back", "place", "undo"},
         h' = [h EXCEPT !.at = at], at = "back" => h.at = "move",
         at = "undo" => "place" \in mishaps',
         mishaps' \in SUBSET {"scan", "place", "rollback", "partial", "record", "lost", "crash"},
         UNCHANGED <<dirs, recordVars, saved, before, imp, runs, split>>, faults' \in Nat
  PROVE  IShape'
<1>1. SeqTypeOK /\ HandlerShape /\ h \in Handler
  BY DEF IShape, Shape, SeqTypeOK
<1>2. h' \in Handler
  BY <1>1 DEF Handler
<1>3. SeqTypeOK'
  BY <1>1, <1>2 DEF SeqTypeOK, recordVars
<1>4. /\ h'.at = at /\ h'.i = h.i /\ h'.plan = h.plan /\ h'.k = h.k /\ h'.moved = h.moved
      /\ h'.done = h.done /\ h'.renames = h.renames /\ h'.ok = h.ok
      /\ Ordered' = Ordered /\ Scope' = Scope
  BY <1>1 DEF Handler, Ordered, Scope
<1>5. HandlerShape'
  BY <1>1, <1>4 DEF HandlerShape, InDir, Renaming
<1>6. MovedShape' /\ RenamesShape'
  BY <1>1, <1>4 DEF MovedShape, RenamesShape, InDir, Renaming, IShape, Shape
<1>7. SplitShape'
  BY <1>1, <1>4, SplitStays DEF IShape, Shape
<1>8. QED
  BY <1>3, <1>5, <1>6, <1>7 DEF IShape, Shape

LEMMA EndOfPhase1Shape == IShape /\ EndOfPhase1 => IShape'
<1> SUFFICES ASSUME IShape, EndOfPhase1 PROVE IShape'
  OBVIOUS
<1>1. mishaps' = mishaps /\ faults' = faults
      /\ mishaps \in SUBSET {"scan", "place", "rollback", "partial", "record", "lost", "crash"}
      /\ faults \in Nat
  BY DEF EndOfPhase1, IShape, SeqTypeOK
<1>2. QED
  BY <1>1, SamePlaceShape DEF EndOfPhase1

\* A step that takes back or places one folder.
LEMMA StepOfScope ==
  ASSUME IShape, h.at \in {"back", "place", "undo"}, HandlerShape', MovedShape',
         h' \in Handler, h'.at = h.at, h'.plan = h.plan, h'.k = h.k, h'.renames = h.renames,
         dirs' \in [Scopes -> [Folders -> (SUBSET Imports) \union {NoFolder}]],
         mishaps' \in SUBSET {"scan", "place", "rollback", "partial", "record", "lost", "crash"},
         UNCHANGED <<recordVars, saved, before, imp, runs, split>>, faults' \in Nat
  PROVE  IShape'
<1>1. SeqTypeOK'
  BY DEF IShape, SeqTypeOK, recordVars
<1>2. RenamesShape'
  BY DEF RenamesShape, InDir, Renaming, IShape, Shape
<1>3. SplitShape'
  BY SplitStays DEF IShape, Shape
<1>4. QED
  BY <1>1, <1>2, <1>3 DEF IShape, Shape

LEMMA BackShape == IShape /\ Back => IShape'
<1> SUFFICES ASSUME IShape, Back PROVE IShape'
  OBVIOUS
<1>1. /\ SeqTypeOK /\ HandlerShape /\ MovedShape /\ h.at \in InDir /\ h.at = "back"
      /\ UNCHANGED <<recordVars, saved, before, imp, runs, split>>
      /\ h \in Handler /\ faults \in Nat /\ h.done = 0 /\ Scope \in Scopes
  BY AtScope DEF IShape, Shape, InDir, Renaming, Back, SeqTypeOK, HandlerShape
<1>2. CASE h.moved = << >>
  <2>1. Failed({}) /\ UNCHANGED <<dirs, faults>>
    BY <1>2 DEF Back
  <2>2. QED
    BY <1>1, <2>1, FailedShape
<1>3. CASE h.moved # << >>
  <2> DEFINE q == h.moved
             f == SubSeq(q, 1, Len(q) - 1)
             r == q[Len(q)]
  <2>1. /\ f \in Seq(Move) /\ Len(f) = Len(q) - 1 /\ Len(q) \in Nat
        /\ DOMAIN f = DOMAIN q \ {Len(q)} /\ Len(q) \in DOMAIN q
        /\ \A x \in DOMAIN f : f[x] = q[x]
    BY <1>1, <1>3, FrontIs DEF Handler
  <2>2. h' = [h EXCEPT !.moved = f]
    BY <1>3 DEF Back
  <2>3. h' \in Handler
    <3> HIDE DEF f
    <3>1. QED
      BY <1>1, <2>1, <2>2 DEF Handler
  <2>4. /\ h'.at = "back" /\ h'.i = h.i /\ h'.plan = h.plan /\ h'.k = h.k /\ h'.moved = f
        /\ h'.done = h.done /\ h'.renames = h.renames /\ h'.ok = h.ok
        /\ Ordered' = Ordered /\ Scope' = Scope
    <3> HIDE DEF f
    <3>1. QED
      BY <1>1, <2>2 DEF Handler, Ordered, Scope
  <2>5. HandlerShape'
    <3>1. 0 <= Len(f)
      BY <2>1
    <3> HIDE DEF f
    <3>2. QED
      BY <1>1, <2>4, <3>1 DEF HandlerShape, InDir, Renaming
  <2>6. MovedShape'
    <3>1. \A x \in DOMAIN f : x \in DOMAIN q /\ f[x] = q[x]
      BY <2>1
    <3> HIDE DEF f
    <3>2. QED
      BY <1>1, <2>4, <3>1 DEF MovedShape, InDir, Renaming
  <2>7. r.tmp \in Folders /\ r.from \in Folders
    BY <1>1, <2>1, MovedTypes
  <2>8. /\ dirs' \in [Scopes -> [Folders -> (SUBSET Imports) \union {NoFolder}]]
        /\ mishaps' \in SUBSET {"scan", "place", "rollback", "partial", "record", "lost", "crash"}
        /\ faults' \in Nat
    <3>1. \/ dirs' = Renamed(Scope, r.tmp, r.from) /\ UNCHANGED <<faults, mishaps>>
          \/ (UNCHANGED faults \/ Fault) /\ mishaps' = mishaps \union {"rollback"}
             /\ UNCHANGED dirs
      BY <1>3 DEF Back
    <3>2. Renamed(Scope, r.tmp, r.from) \in [Scopes -> [Folders -> (SUBSET Imports) \union {NoFolder}]]
      BY <1>1, <2>7, RenamedIs
    <3>3. Fault => faults' \in Nat
      BY <1>1 DEF Fault
    <3>4. QED
      BY <1>1, <3>1, <3>2, <3>3 DEF SeqTypeOK
  <2>9. QED
    BY <1>1, <2>3, <2>4, <2>5, <2>6, <2>8, StepOfScope
<1>4. QED
  BY <1>2, <1>3

LEMMA UndoShape == IShape /\ Undo => IShape'
<1> SUFFICES ASSUME IShape, Undo PROVE IShape'
  OBVIOUS
<1>1. /\ SeqTypeOK /\ HandlerShape /\ MovedShape /\ h.at \in InDir /\ h.at = "undo"
      /\ UNCHANGED <<recordVars, saved, before, imp, runs, split>>
      /\ h \in Handler /\ faults \in Nat /\ h.done \in Nat /\ Scope \in Scopes
  BY AtScope DEF IShape, Shape, InDir, Renaming, Undo, SeqTypeOK, HandlerShape, Handler
<1>2. CASE h.done = 0
  <2>1. Failed({}) /\ UNCHANGED <<dirs, faults>>
    BY <1>2 DEF Undo
  <2>2. QED
    BY <1>1, <2>1, FailedShape
<1>3. CASE h.done # 0
  <2> DEFINE r == h.moved[h.done]
  <2>1. h.done - 1 \in Nat /\ h.done \in DOMAIN h.moved /\ h.done - 1 <= Len(h.moved)
    BY <1>1, <1>3, MovedTypes
  <2>2. h' = [h EXCEPT !.done = h.done - 1]
    BY <1>3 DEF Undo
  <2>3. h' \in Handler
    BY <1>1, <2>1, <2>2 DEF Handler
  <2>4. /\ h'.at = "undo" /\ h'.i = h.i /\ h'.plan = h.plan /\ h'.k = h.k /\ h'.moved = h.moved
        /\ h'.done = h.done - 1 /\ h'.renames = h.renames /\ h'.ok = h.ok
        /\ Ordered' = Ordered /\ Scope' = Scope
    BY <1>1, <2>2 DEF Handler, Ordered, Scope
  <2>5. r.to \in Folders /\ r.from \in Folders
    BY <1>1, <2>1, MovedTypes
  <2>6. /\ dirs' \in [Scopes -> [Folders -> (SUBSET Imports) \union {NoFolder}]]
        /\ mishaps' \in SUBSET {"scan", "place", "rollback", "partial", "record", "lost", "crash"}
        /\ faults' \in Nat /\ "place" \in mishaps'
    <3>1. \/ dirs' = Renamed(Scope, r.to, r.from) /\ UNCHANGED <<faults, mishaps>>
          \/ (UNCHANGED faults \/ Fault) /\ mishaps' = mishaps \union {"rollback"}
             /\ UNCHANGED dirs
      BY <1>3 DEF Undo
    <3>2. Renamed(Scope, r.to, r.from) \in [Scopes -> [Folders -> (SUBSET Imports) \union {NoFolder}]]
      BY <1>1, <2>5, RenamedIs
    <3>3. (Fault => faults' \in Nat) /\ "place" \in mishaps
      BY <1>1 DEF Fault, HandlerShape
    <3>4. QED
      BY <1>1, <3>1, <3>2, <3>3 DEF SeqTypeOK
  <2>7. HandlerShape'
    BY <1>1, <2>1, <2>4, <2>6 DEF HandlerShape, InDir, Renaming
  <2>8. MovedShape'
    BY <1>1, <2>4 DEF MovedShape, InDir, Renaming
  <2>9. QED
    BY <1>1, <2>3, <2>4, <2>6, <2>7, <2>8, StepOfScope
<1>4. QED
  BY <1>2, <1>3


\* A scope is done: its renames join those of earlier scopes.
LEMMA ScopeDoneShape ==
  ASSUME IShape, h.at = "place", h.done = Len(h.moved), Place
  PROVE  IShape'
<1>1. /\ SeqTypeOK /\ HandlerShape /\ MovedShape /\ h.at \in InDir
      /\ UNCHANGED <<dirs, recordVars, saved, before, imp, runs, split, faults, mishaps>>
      /\ h \in Handler /\ Scope \in Scopes /\ h.k \in DOMAIN h.plan /\ h.plan \in Plans
      /\ h.k \in Nat
  BY AtScope DEF IShape, Shape, InDir, Renaming, Place, SeqTypeOK
<1> DEFINE last == ~(h.k < Len(h.plan))
           new == {<<Scope, h.moved[x].from, h.moved[x].to>> : x \in DOMAIN h.moved}
<1>2. h' = [h EXCEPT !.at = IF last THEN "remap" ELSE "scan", !.k = IF last THEN @ ELSE @ + 1,
                     !.i = 1, !.moved = << >>, !.done = 0, !.renames = @ \union new]
  BY DEF Place
<1>3. new \in SUBSET (Scopes \X Folders \X Folders)
  BY <1>1, MovedTypes
<1>4. Len(h.plan) \in Nat /\ DOMAIN h.plan = 1..Len(h.plan)
  BY <1>1, PlansAre
<1>5. /\ h'.at = (IF last THEN "remap" ELSE "scan") /\ h'.plan = h.plan
      /\ h'.k = (IF last THEN h.k ELSE h.k + 1) /\ h'.i = 1 /\ h'.moved = << >> /\ h'.done = 0
      /\ h'.renames = h.renames \union new /\ h'.ok = h.ok /\ h'.cur = h.cur
  <2> HIDE DEF last, new
  <2>1. QED
    BY <1>1, <1>2 DEF Handler
<1>6. h' \in Handler
  <2>1. << >> \in Seq(Move) /\ 0 \in Nat /\ 1 \in Nat /\ h.k + 1 \in Nat
    BY <1>1
  <2> HIDE DEF last, new
  <2>2. QED
    BY <1>1, <1>2, <1>3, <2>1 DEF Handler
<1>7. SeqTypeOK'
  BY <1>1, <1>6 DEF SeqTypeOK, recordVars
<1>8. h.ok /\ (~last => h.k + 1 \in DOMAIN h.plan)
  BY <1>1, <1>4 DEF HandlerShape, InDir, Renaming
<1>9. Len(<< >>) = 0 /\ DOMAIN << >> = {}
  OBVIOUS
<1>10. HandlerShape'
  <2> HIDE DEF last, new
  <2>1. QED
    BY <1>1, <1>5, <1>8, <1>9 DEF HandlerShape, InDir, Renaming
<1>11. MovedShape'
  <2>1. DOMAIN h'.moved = {}
    BY <1>5, <1>9
  <2>2. QED
    BY <2>1 DEF MovedShape
<1>12. RenamesShape'
  <2>1. ASSUME NEW r \in h.renames
        PROVE  /\ r[2] \in Real /\ r[3] \in Real /\ r[2][1] = r[3][1]
               /\ \E k \in DOMAIN h.plan :
                    /\ h.plan[k].scope = r[1] /\ (h'.at \in InDir => k < h'.k)
                    /\ \E j \in DOMAIN h.plan[k].ordered : h.plan[k].ordered[j] = r[3]
    <3>1. PICK k \in DOMAIN h.plan : h.plan[k].scope = r[1] /\ k < h.k
                  /\ \E j \in DOMAIN h.plan[k].ordered : h.plan[k].ordered[j] = r[3]
      BY <1>1 DEF RenamesShape, IShape, Shape
    <3>2. k < h.k + 1 /\ (h'.at \in InDir => h'.k = h.k + 1)
      BY <1>1, <1>4, <1>5, <3>1 DEF InDir, Renaming
    <3>3. QED
      BY <3>1, <3>2 DEF RenamesShape, IShape, Shape
  <2>2. ASSUME NEW r \in new
        PROVE  /\ r[2] \in Real /\ r[3] \in Real /\ r[2][1] = r[3][1]
               /\ \E k \in DOMAIN h.plan :
                    /\ h.plan[k].scope = r[1] /\ (h'.at \in InDir => k < h'.k)
                    /\ \E j \in DOMAIN h.plan[k].ordered : h.plan[k].ordered[j] = r[3]
    <3>1. PICK x \in DOMAIN h.moved : r = <<Scope, h.moved[x].from, h.moved[x].to>>
      OBVIOUS
    <3>2. PICK j \in DOMAIN Ordered : h.moved[x].to = Ordered[j]
      BY <1>1 DEF MovedShape
    <3>3. h.plan[h.k].scope = r[1] /\ h.plan[h.k].ordered[j] = r[3]
          /\ j \in DOMAIN h.plan[h.k].ordered
      BY <3>1, <3>2 DEF Scope, Ordered
    <3>4. h'.at \in InDir => h.k < h'.k
      BY <1>1, <1>5 DEF InDir, Renaming
    <3>5. r[2] \in Real /\ r[3] \in Real /\ r[2][1] = r[3][1]
      BY <1>1, <3>1, MovedTypes
    <3>6. QED
      BY <1>1, <3>3, <3>4, <3>5
  <2> HIDE DEF last, new
  <2>3. QED
    BY <1>5, <2>1, <2>2 DEF RenamesShape
<1>13. SplitShape'
  BY <1>1, <1>5, SplitStays DEF IShape, Shape
<1>14. QED
  BY <1>7, <1>10, <1>11, <1>12, <1>13 DEF IShape, Shape

LEMMA PlaceShape == IShape /\ Place => IShape'
<1> SUFFICES ASSUME IShape, Place PROVE IShape'
  OBVIOUS
<1>1. /\ SeqTypeOK /\ HandlerShape /\ MovedShape /\ h.at \in InDir /\ h.at = "place"
      /\ UNCHANGED <<recordVars, saved, before, imp, runs, split>>
      /\ h \in Handler /\ faults \in Nat /\ h.done \in Nat /\ Scope \in Scopes
      /\ mishaps \in SUBSET {"scan", "place", "rollback", "partial", "record", "lost", "crash"}
  BY AtScope DEF IShape, Shape, InDir, Renaming, Place, SeqTypeOK, HandlerShape, Handler
<1>2. CASE h.done = Len(h.moved)
  BY <1>1, <1>2, ScopeDoneShape
<1>3. CASE h.done # Len(h.moved)
  <2> DEFINE r == h.moved[h.done + 1]
  <2>1. h.done + 1 \in DOMAIN h.moved /\ h.done + 1 <= Len(h.moved) /\ h.done + 1 \in Nat
    BY <1>1, <1>3, MovedTypes
  <2>2. r.to \in Folders /\ r.tmp \in Folders
    BY <1>1, <2>1, MovedTypes
  <2>3. CASE /\ dirs' = Renamed(Scope, r.tmp, r.to)
             /\ h' = [h EXCEPT !.done = h.done + 1]
             /\ UNCHANGED <<faults, mishaps>>
    <3>1. h' \in Handler
      BY <1>1, <2>1, <2>3 DEF Handler
    <3>2. /\ h'.at = "place" /\ h'.i = h.i /\ h'.plan = h.plan /\ h'.k = h.k
          /\ h'.moved = h.moved /\ h'.done = h.done + 1 /\ h'.renames = h.renames
          /\ h'.ok = h.ok /\ Ordered' = Ordered /\ Scope' = Scope
      BY <1>1, <2>3 DEF Handler, Ordered, Scope
    <3>3. dirs' \in [Scopes -> [Folders -> (SUBSET Imports) \union {NoFolder}]]
      BY <1>1, <2>2, <2>3, RenamedIs
    <3>4. HandlerShape'
      BY <1>1, <2>1, <3>2 DEF HandlerShape, InDir, Renaming
    <3>5. MovedShape'
      BY <1>1, <3>2 DEF MovedShape, InDir, Renaming
    <3>6. mishaps' \in SUBSET {"scan", "place", "rollback", "partial", "record", "lost", "crash"}
          /\ faults' \in Nat
      BY <1>1, <2>3
    <3>7. QED
      BY <1>1, <3>1, <3>2, <3>3, <3>4, <3>5, <3>6, StepOfScope
  <2>4. CASE /\ UNCHANGED faults \/ Fault
             /\ h' = [h EXCEPT !.at = "undo"]
             /\ mishaps' = mishaps \union {"place"}
             /\ UNCHANGED dirs
    <3>1. faults' \in Nat
      BY <1>1, <2>4 DEF Fault
    <3>2. mishaps' \in SUBSET {"scan", "place", "rollback", "partial", "record", "lost", "crash"}
          /\ "place" \in mishaps'
      BY <1>1, <2>4
    <3>3. QED
      BY <1>1, <2>4, <3>1, <3>2, SamePlaceShape
  <2>5. QED
    BY <1>3, <2>3, <2>4 DEF Place
<1>4. QED
  BY <1>2, <1>3

\* The handler returns.
LEMMA RestShape ==
  ASSUME IShape, h' = Rest, SeqTypeOK', UNCHANGED runs,
         \A m \in Imports : imp'[m].to = imp[m].to
  PROVE  IShape'
<1>1. /\ h'.at = "idle" /\ h'.i = 1 /\ h'.moved = << >> /\ h'.done = 0 /\ h'.renames = {}
  BY DEF Rest
<1>2. DOMAIN << >> = {} /\ Len(<< >>) = 0
  OBVIOUS
<1>3. HandlerShape' /\ MovedShape' /\ RenamesShape'
  BY <1>1, <1>2
  DEF IShape, Shape, HandlerShape, MovedShape, RenamesShape, InDir, Renaming
<1>4. SplitShape'
  BY <1>1 DEF SplitShape, IShape, Shape
<1>5. QED
  BY <1>3, <1>4 DEF IShape, Shape

\* The handler goes on to its next record.
LEMMA OnShape ==
  ASSUME IShape, h.at \in {"remap", "sequences", "number", "read"}, h.ok,
         NEW at \in {"sequences", "number", "read", "write"}, h' = [h EXCEPT !.at = at], SeqTypeOK',
         UNCHANGED <<runs, imp, split>>
  PROVE  IShape'
<1>1. SeqTypeOK /\ HandlerShape /\ h \in Handler
  BY DEF IShape, Shape, SeqTypeOK
<1>2. /\ h'.at = at /\ h'.i = h.i /\ h'.plan = h.plan /\ h'.k = h.k /\ h'.moved = h.moved
      /\ h'.done = h.done /\ h'.renames = h.renames /\ h'.ok = h.ok
  BY <1>1 DEF Handler
<1>3. HandlerShape'
  BY <1>1, <1>2 DEF HandlerShape, InDir, Renaming
<1>4. MovedShape' /\ RenamesShape'
  BY <1>1, <1>2 DEF MovedShape, RenamesShape, InDir, Renaming, IShape, Shape
<1>5. SplitShape'
  BY <1>1, <1>2, SplitStays DEF IShape, Shape
<1>6. QED
  BY <1>3, <1>4, <1>5 DEF IShape, Shape

\* What the records become is of their type.
LEMMA RecordTypes ==
  /\ \A s \in Scopes, p \in Photographers : Planned(s, p) \in 0..MaxSeq
  /\ \A m \in Imports, n \in Folders \union {NoFolder} :
       Moved(m, n) \in Folders \union {NoFolder}
<1>1. ASSUME NEW s \in Scopes, NEW p \in Photographers
      PROVE  Planned(s, p) \in 0..MaxSeq
  <2> DEFINE last == {e \in Photographers \X (1..MaxSeq) : e[1] = p /\
                        \E k \in DOMAIN h.plan : h.plan[k].scope = s /\
                          \E i \in DOMAIN h.plan[k].ordered :
                            /\ h.plan[k].ordered[i] = e
                            /\ \A j \in DOMAIN h.plan[k].ordered :
                                 h.plan[k].ordered[j][1] = p => j <= i}
  <2>1. Planned(s, p) = IF last = {} THEN 0 ELSE (CHOOSE e \in last : TRUE)[2]
    BY DEF Planned
  <2>2. last \subseteq Photographers \X (1..MaxSeq)
    OBVIOUS
  <2> HIDE DEF last
  <2>3. last # {} => (CHOOSE e \in last : TRUE) \in Photographers \X (1..MaxSeq)
    BY <2>2
  <2>4. QED
    BY <2>1, <2>3, SequenceRenameConstants
<1>2. ASSUME NEW m \in Imports, NEW n \in Folders \union {NoFolder}
      PROVE  Moved(m, n) \in Folders \union {NoFolder}
  <2>1. CASE n \in Real
    <3>1. n[1] \in Photographers /\ ScopeOf[m] \in Scopes
      BY <2>1, RealIs, SequenceRenameConstants
    <3>2. <<n[1], Planned(ScopeOf[m], n[1])>> \in Folders
      BY <1>1, <3>1, RealIs
    <3>3. QED
      BY <3>2 DEF Moved
  <2>2. CASE n \notin Real
    BY <2>2 DEF Moved
  <2>3. QED
    BY <2>1, <2>2
<1>3. QED
  BY <1>1, <1>2


LEMMA RemapShape == IShape /\ Remap => IShape'
<1> SUFFICES ASSUME IShape, Remap PROVE IShape'
  OBVIOUS
<1>1. /\ SeqTypeOK /\ HandlerShape /\ h.at = "remap" /\ h \in Handler
      /\ UNCHANGED <<dirs, manifest, seqs, saved, before, imp, runs, split>>
  BY DEF IShape, Shape, SeqTypeOK, Remap
<1>2. intent' \in [Imports -> Folders \union {NoFolder}]
  <2>1. ASSUME NEW m \in Imports
        PROVE  LET r == {x \in h.renames : x[1] = ScopeOf[m] /\ x[2] = intent[m]} IN
               (IF r = {} THEN intent[m] ELSE (CHOOSE x \in r : TRUE)[3])
                 \in Folders \union {NoFolder}
    <3> DEFINE r == {x \in h.renames : x[1] = ScopeOf[m] /\ x[2] = intent[m]}
    <3>1. r \subseteq Scopes \X Folders \X Folders
      BY <1>1 DEF Handler
    <3> HIDE DEF r
    <3>2. r # {} => (CHOOSE x \in r : TRUE) \in Scopes \X Folders \X Folders
      BY <3>1
    <3>3. r # {} => (CHOOSE x \in r : TRUE)[3] \in Folders
      BY <3>2
    <3>4. (IF r = {} THEN intent[m] ELSE (CHOOSE x \in r : TRUE)[3]) \in Folders \union {NoFolder}
      BY <1>1, <3>3 DEF SeqTypeOK
    <3>5. QED
      BY <3>4 DEF r
  <2>2. CASE UNCHANGED intent
    BY <1>1, <2>2 DEF SeqTypeOK
  <2>3. CASE ~UNCHANGED intent
    BY <2>1, <2>3 DEF Remap
  <2>4. QED
    BY <2>2, <2>3
<1>3. h' = IF h.ok THEN [h EXCEPT !.at = "sequences"] ELSE Rest
  BY DEF Remap
<1>4. [h EXCEPT !.at = "sequences"] \in Handler /\ Rest \in Handler
  <2>1. [h EXCEPT !.at = "sequences"] \in Handler
    BY <1>1 DEF Handler
  <2>2. Rest \in Handler
    BY DEF Rest, Handler
  <2>3. QED
    BY <2>1, <2>2
<1>5. faults' \in Nat
      /\ mishaps' \subseteq {"scan", "place", "rollback", "partial", "record", "lost", "crash"}
  BY <1>1 DEF Remap, Fault, SeqTypeOK
<1>6. SeqTypeOK'
  BY <1>1, <1>2, <1>3, <1>4, <1>5 DEF SeqTypeOK
<1>7. CASE h.ok
  BY <1>1, <1>3, <1>6, <1>7, OnShape
<1>8. CASE ~h.ok
  BY <1>1, <1>3, <1>6, <1>8, RestShape
<1>9. QED
  BY <1>7, <1>8

LEMMA WriteSequencesShape == IShape /\ WriteSequences => IShape'
<1> SUFFICES ASSUME IShape, WriteSequences PROVE IShape'
  OBVIOUS
<1>1. /\ SeqTypeOK /\ HandlerShape /\ h.at = "number" /\ h \in Handler /\ h.ok
      /\ UNCHANGED <<dirs, manifest, saved, imp, runs, split>>
  BY DEF IShape, Shape, SeqTypeOK, WriteSequences, HandlerShape
<1>2. CASE /\ seqs' = [s \in Scopes |-> [p \in Photographers |-> Planned(s, p)]]
           /\ intent' = saved /\ before' = seqs
           /\ h' = [h EXCEPT !.at = "read"]
           /\ UNCHANGED <<faults, mishaps>>
  <2>1. seqs' \in [Scopes -> [Photographers -> 0..MaxSeq]]
    BY <1>2, RecordTypes
  <2>2. h' \in Handler
    BY <1>1, <1>2 DEF Handler
  <2>3. SeqTypeOK'
    BY <1>1, <1>2, <2>1, <2>2 DEF SeqTypeOK
  <2>4. QED
    BY <1>1, <1>2, <2>3, OnShape
<1>3. CASE Fault /\ h' = Rest /\ mishaps' = mishaps \union {"record"} /\ UNCHANGED <<seqs, intent, before>>
  <2>1. Rest \in Handler /\ faults' \in Nat
    BY <1>1, <1>3 DEF Rest, Handler, Fault, SeqTypeOK
  <2>2. SeqTypeOK'
    BY <1>1, <1>3, <2>1 DEF SeqTypeOK
  <2>3. QED
    BY <1>1, <1>3, <2>2, RestShape
<1>4. QED
  BY <1>2, <1>3 DEF WriteSequences

LEMMA ReadSequencesShape == IShape /\ ReadSequences => IShape'
<1> SUFFICES ASSUME IShape, ReadSequences PROVE IShape'
  OBVIOUS
<1>1. /\ SeqTypeOK /\ HandlerShape /\ h.at = "sequences" /\ h \in Handler /\ h.ok
      /\ UNCHANGED <<dirs, recordVars, before, imp, runs, split>>
  BY DEF IShape, Shape, SeqTypeOK, ReadSequences, HandlerShape
<1>2. CASE saved' = intent /\ h' = [h EXCEPT !.at = "number"] /\ UNCHANGED <<faults, mishaps>>
  <2>1. h' \in Handler
    BY <1>1, <1>2 DEF Handler
  <2>2. SeqTypeOK'
    BY <1>1, <1>2, <2>1 DEF SeqTypeOK, recordVars
  <2>3. QED
    BY <1>1, <1>2, <2>2, OnShape
<1>3. CASE Fault /\ h' = Rest /\ mishaps' = mishaps \union {"record"} /\ UNCHANGED saved
  <2>1. Rest \in Handler /\ faults' \in Nat
    BY <1>1, <1>3 DEF Rest, Handler, Fault, SeqTypeOK
  <2>2. SeqTypeOK'
    BY <1>1, <1>3, <2>1 DEF SeqTypeOK, recordVars
  <2>3. QED
    BY <1>1, <1>3, <2>2, RestShape
<1>4. QED
  BY <1>2, <1>3 DEF ReadSequences

LEMMA ReadManifestShape == IShape /\ ReadManifest => IShape'
<1> SUFFICES ASSUME IShape, ReadManifest PROVE IShape'
  OBVIOUS
<1>1. /\ SeqTypeOK /\ HandlerShape /\ h.at = "read" /\ h \in Handler /\ h.ok
      /\ saved' = manifest /\ h' = [h EXCEPT !.at = "write"]
      /\ UNCHANGED <<dirs, recordVars, before, imp, runs, faults, split, mishaps>>
  BY DEF IShape, Shape, SeqTypeOK, ReadManifest, HandlerShape
<1>2. h' \in Handler
  BY <1>1 DEF Handler
<1>3. SeqTypeOK'
  BY <1>1, <1>2 DEF SeqTypeOK, recordVars
<1>4. QED
  BY <1>1, <1>3, OnShape

LEMMA WriteManifestShape == IShape /\ WriteManifest => IShape'
<1> SUFFICES ASSUME IShape, WriteManifest PROVE IShape'
  OBVIOUS
<1>1. /\ SeqTypeOK /\ h' = Rest
      /\ UNCHANGED <<dirs, intent, seqs, saved, before, imp, runs, split>>
  BY DEF IShape, Shape, WriteManifest
<1> DEFINE new == [m \in Imports |-> Moved(m, saved[m])]
<1>2. new \in [Imports -> Folders \union {NoFolder}]
  BY <1>1, RecordTypes DEF SeqTypeOK
<1>3. \/ manifest' \in {manifest, new}
      \/ UNCHANGED manifest
  BY DEF WriteManifest
<1>4. manifest' \in [Imports -> Folders \union {NoFolder}]
  <2> HIDE DEF new
  <2>1. QED
    BY <1>1, <1>2, <1>3 DEF SeqTypeOK
<1>5. /\ faults' \in Nat
      /\ mishaps' \subseteq {"scan", "place", "rollback", "partial", "record", "lost", "crash"}
  <2>1. faults' = faults \/ Fault
    BY DEF WriteManifest
  <2>2. faults' \in Nat
    BY <1>1, <2>1 DEF Fault, SeqTypeOK
  <2>3. mishaps' \subseteq mishaps \union {"lost", "record"}
    BY DEF WriteManifest
  <2>4. QED
    BY <1>1, <2>2, <2>3 DEF SeqTypeOK
<1>6. Rest \in Handler
  BY DEF Rest, Handler
<1>7. SeqTypeOK'
  BY <1>1, <1>4, <1>5, <1>6 DEF SeqTypeOK
<1>8. QED
  BY <1>1, <1>7, RestShape

LEMMA SplitTyped ==
  ASSUME split \subseteq Scopes \X Photographers, SplitIfRunning
  PROVE  split' \subseteq Scopes \X Photographers
BY SequenceRenameConstants DEF SplitIfRunning, Split

LEMMA ApplyShape == ASSUME IShape, NEW plan \in Plans, Apply(plan) PROVE IShape'
<1>1. /\ SeqTypeOK /\ HandlerShape /\ h.at = "idle" /\ runs < MaxRuns /\ Numbered(plan)
      /\ runs' = runs + 1 /\ runs \in Nat
      /\ UNCHANGED <<dirs, recordVars, saved, before, imp, faults, mishaps>> /\ SplitIfRunning
  BY DEF IShape, Shape, SeqTypeOK, Apply
<1>2. /\ h'.at = "scan" /\ h'.plan = plan /\ h'.i = 1 /\ h'.k = 1 /\ h'.moved = << >>
      /\ h'.done = 0 /\ h'.renames = {} /\ h'.ok = TRUE
  BY DEF Apply, Rest
<1>3. h' \in Handler
  <2>1. Rest \in Handler
    BY DEF Rest, Handler
  <2>2. h' = [Rest EXCEPT !.at = "scan", !.plan = plan]
    BY DEF Apply
  <2> DEFINE r == Rest
  <2>3. r \in Handler /\ h' = [r EXCEPT !.at = "scan", !.plan = plan]
    BY <2>1, <2>2
  <2> HIDE DEF r
  <2>4. QED
    BY <2>3 DEF Handler
<1>4. SeqTypeOK'
  BY <1>1, <1>3, SplitTyped DEF SeqTypeOK, recordVars
<1>5. DOMAIN << >> = {} /\ Len(<< >>) = 0 /\ 1 \in DOMAIN plan
  BY PlansAre
<1>6. runs' <= MaxRuns /\ runs' # 0
  BY <1>1, SequenceRenameConstants
<1>7. HandlerShape' /\ MovedShape' /\ RenamesShape'
  BY <1>2, <1>5, <1>6 DEF HandlerShape, MovedShape, RenamesShape, InDir, Renaming
<1>8. split' = split \union Split'
  BY <1>1, <1>2 DEF SplitIfRunning
<1>9. Numbered(h.plan)'
  BY <1>1, <1>2, <1>8 DEF Numbered
<1>10. SplitShape'
  <2>1. Split' \subseteq split'
    BY <1>8
  <2>2. imp' = imp
    BY <1>1
  <2>3. QED
    BY <1>9, <2>1, <2>2 DEF SplitShape, IShape, Shape
<1>11. QED
  BY <1>4, <1>7, <1>10 DEF IShape, Shape

\* A step of an import, which leaves the handler as it is.
LEMMA ImportShape ==
  ASSUME IShape, UNCHANGED <<h, runs, mishaps>>, SeqTypeOK',
         h.at \in InDir => \A n \in Real : There(Scope, n) => There(Scope, n)',
         \A m \in Imports : imp'[m].to \in Real /\ imp'[m].to[1] = ByOf[m],
         split \subseteq split', h.at # "idle" => Split' \subseteq split'
  PROVE  IShape'
<1>1. Scope' = Scope /\ Ordered' = Ordered /\ Entry' = Entry
  BY DEF Scope, Ordered, Entry
<1>2. h.at \in InDir => \A p \in Photographers : Visible(Scope, p) \subseteq Visible(Scope, p)'
  BY <1>1 DEF Visible
<1>3. h.at = "move" => Entry[1] \in Photographers /\ h.at \in InDir
  <2>1. SeqTypeOK /\ HandlerShape
    BY DEF IShape, Shape
  <2>2. h.at = "move" => h.i \in DOMAIN Ordered /\ h.at \in InDir
    BY <2>1 DEF HandlerShape, InDir, Renaming
  <2>3. QED
    BY <2>1, <2>2, AtScope DEF Entry
<1>4. HandlerShape'
  BY <1>1, <1>2, <1>3 DEF HandlerShape, IShape, Shape
<1>5. MovedShape' /\ RenamesShape'
  BY <1>1 DEF MovedShape, RenamesShape, IShape, Shape
<1>6. SplitShape'
  BY DEF SplitShape, Numbered, IShape, Shape
<1>7. QED
  BY <1>4, <1>5, <1>6 DEF IShape, Shape


\* What Split is made of.
LEMMA SplitKept ==
  ASSUME \A m \in Imports : InFlight(m)' => InFlight(m)
  PROVE  Split' \subseteq Split
BY DEF Split

\* An import routes its files.
LEMMA PlanImportShape == ASSUME IShape, NEW m \in Imports, PlanImport(m) PROVE IShape'
<1>1. /\ SeqTypeOK /\ UNCHANGED <<dirs, recordVars, h, saved, before, runs, faults, mishaps>>
      /\ SplitIfRunning /\ imp[m].at = "idle"
  BY DEF IShape, PlanImport
<1>2. ScopeOf[m] \in Scopes /\ ByOf[m] \in Photographers /\ seqs[ScopeOf[m]][ByOf[m]] \in 0..MaxSeq
  BY <1>1, SequenceRenameConstants DEF SeqTypeOK
<1> DEFINE n == <<ByOf[m], seqs[ScopeOf[m]][ByOf[m]]>>
<1>3. n \in Real /\ n \in Folders /\ n[1] = ByOf[m]
  BY <1>2, RealIs
<1>4. imp' = [imp EXCEPT ![m] = [at |-> "planned", to |-> n]]
  BY DEF PlanImport
<1> HIDE DEF n
<1>5. imp' \in [Imports -> [at : {"idle", "planned", "resolved", "made", "copied",
                                  "committed", "done", "failed"}, to : Folders]]
  BY <1>1, <1>3, <1>4 DEF SeqTypeOK
<1>6. SeqTypeOK'
  BY <1>1, <1>5, SplitTyped DEF SeqTypeOK, recordVars
<1>7. \A k \in Imports : imp'[k].to \in Real /\ imp'[k].to[1] = ByOf[k]
  BY <1>1, <1>3, <1>4 DEF SeqTypeOK, IShape, Shape, SplitShape
<1>8. \A k \in Real : There(Scope, k) => There(Scope, k)'
  BY <1>1 DEF There, Scope
<1>9. split \subseteq split' /\ (h.at # "idle" => Split' \subseteq split')
  BY <1>1 DEF SplitIfRunning
<1>10. QED
  BY <1>1, <1>6, <1>7, <1>8, <1>9, ImportShape

\* A later step of an import, to where it is or a folder of its photographer's.
LEMMA LaterShape ==
  ASSUME IShape, NEW m \in Imports, InFlight(m), UNCHANGED <<h, runs, mishaps>>,
         split \subseteq split', split' \subseteq Scopes \X Photographers,
         seqs' \in [Scopes -> [Photographers -> 0..MaxSeq]], faults' \in Nat,
         NEW at \in {"resolved", "made", "copied", "committed", "done", "failed"},
         NEW to \in Real, to[1] = ByOf[m], imp' = [imp EXCEPT ![m] = [at |-> at, to |-> to]],
         dirs' \in [Scopes -> [Folders -> (SUBSET Imports) \union {NoFolder}]],
         \A s \in Scopes, n \in Folders : There(s, n) => There(s, n)',
         intent' \in [Imports -> Folders \union {NoFolder}],
         manifest' \in [Imports -> Folders \union {NoFolder}],
         UNCHANGED <<saved, before>>
  PROVE  IShape'
<1>1. SeqTypeOK /\ to \in Folders
  BY RealIs DEF IShape
<1>2. imp' \in [Imports -> [at : {"idle", "planned", "resolved", "made", "copied",
                                  "committed", "done", "failed"}, to : Folders]]
  BY <1>1 DEF SeqTypeOK
<1>3. SeqTypeOK'
  BY <1>1, <1>2 DEF SeqTypeOK
<1>4. \A k \in Imports : imp'[k].to \in Real /\ imp'[k].to[1] = ByOf[k]
  BY <1>1 DEF SeqTypeOK, IShape, Shape, SplitShape
<1>5. \A k \in Imports : InFlight(k)' => InFlight(k)
  BY <1>1 DEF InFlight, SeqTypeOK
<1>6. Split' \subseteq Split
  BY <1>5, SplitKept
<1>7. h.at # "idle" => Split' \subseteq split'
  BY <1>6 DEF IShape, Shape, SplitShape
<1>8. h.at \in InDir => \A n \in Real : There(Scope, n) => There(Scope, n)'
  <2>1. h.at \in InDir => Scope \in Scopes
    BY <1>1, AtScope DEF IShape, Shape
  <2>2. Scope' = Scope
    BY DEF Scope
  <2>3. QED
    BY <2>1, <2>2, RealIs DEF There
<1>9. QED
  BY <1>3, <1>4, <1>7, <1>8, ImportShape

\* A step of an import that stays with the folder it has.
LEMMA SameFolderShape ==
  ASSUME IShape, NEW m \in Imports, InFlight(m), UNCHANGED <<h, runs, mishaps>>,
         split \subseteq split', split' \subseteq Scopes \X Photographers,
         seqs' \in [Scopes -> [Photographers -> 0..MaxSeq]], faults' \in Nat,
         NEW at \in {"resolved", "made", "copied", "committed", "done", "failed"},
         imp' = [imp EXCEPT ![m].at = at],
         dirs' \in [Scopes -> [Folders -> (SUBSET Imports) \union {NoFolder}]],
         \A s \in Scopes, n \in Folders : There(s, n) => There(s, n)',
         intent' \in [Imports -> Folders \union {NoFolder}],
         manifest' \in [Imports -> Folders \union {NoFolder}],
         UNCHANGED <<saved, before>>
  PROVE  IShape'
<1>1. imp[m].to \in Real /\ imp[m].to[1] = ByOf[m]
  BY DEF IShape, Shape, SplitShape
<1>2. imp' = [imp EXCEPT ![m] = [at |-> at, to |-> imp[m].to]]
  <2>1. imp[m] = [at |-> imp[m].at, to |-> imp[m].to]
    BY DEF IShape, SeqTypeOK
  <2>2. [imp[m] EXCEPT !.at = at] = [at |-> at, to |-> imp[m].to]
    BY <2>1
  <2>3. imp' = [imp EXCEPT ![m] = [imp[m] EXCEPT !.at = at]]
    OBVIOUS
  <2>4. QED
    BY <2>2, <2>3
<1>3. QED
  BY <1>1, <1>2, LaterShape

LEMMA ResolveShape == ASSUME IShape, NEW m \in Imports, Resolve(m) PROVE IShape'
<1> DEFINE s == ScopeOf[m]
           found == {n \in Real : n[1] = ByOf[m] /\ n[2] # 0 /\ There(s, n)}
           to == IF ~There(s, imp[m].to) /\ Cardinality(found) = 1
                 THEN CHOOSE n \in found : TRUE ELSE imp[m].to
<1>1. /\ SeqTypeOK /\ InFlight(m)
      /\ UNCHANGED <<dirs, recordVars, h, saved, before, runs, mishaps>>
  BY DEF IShape, Resolve, InFlight
<1>2. to \in Real /\ to[1] = ByOf[m]
  <2>1. imp[m].to \in Real /\ imp[m].to[1] = ByOf[m]
    BY DEF IShape, Shape, SplitShape
  <2>2. Cardinality(found) = 1 => found # {}
    BY FS_EmptySet
  <2>3. found # {} => (CHOOSE n \in found : TRUE) \in found
    OBVIOUS
  <2>4. QED
    BY <2>1, <2>2, <2>3
<1>3. CASE imp' = [imp EXCEPT ![m] = [at |-> "resolved", to |-> to]] /\ UNCHANGED <<faults, split>>
  <2> HIDE DEF to
  <2>1. QED
    BY <1>1, <1>2, <1>3, LaterShape DEF SeqTypeOK, recordVars, There
<1>4. CASE /\ Fault /\ imp' = [imp EXCEPT ![m].at = "resolved"]
           /\ split' = split \union {<<s, ByOf[m]>>}
  <2> HIDE DEF to
  <2>1. /\ split \subseteq split' /\ split' \subseteq Scopes \X Photographers /\ faults' \in Nat
        /\ seqs' \in [Scopes -> [Photographers -> 0..MaxSeq]]
    <3>1. s \in Scopes /\ ByOf[m] \in Photographers
      BY SequenceRenameConstants
    <3>2. split \subseteq Scopes \X Photographers /\ faults \in Nat /\ faults' = faults + 1
          /\ seqs' = seqs /\ seqs \in [Scopes -> [Photographers -> 0..MaxSeq]]
      BY <1>1, <1>4 DEF SeqTypeOK, Fault, recordVars
    <3>3. QED
      BY <1>4, <3>1, <3>2
  <2>2. QED
    BY <1>1, <1>4, <2>1, SameFolderShape DEF SeqTypeOK, recordVars, There
<1>5. QED
  BY <1>3, <1>4 DEF Resolve

\* What an import does to a folder.
LEMMA PutIs ==
  ASSUME SeqTypeOK, NEW s \in Scopes, NEW n \in Folders, NEW ms \in SUBSET Imports,
         dirs' = [dirs EXCEPT ![s][n] = ms]
  PROVE  /\ dirs' \in [Scopes -> [Folders -> (SUBSET Imports) \union {NoFolder}]]
         /\ \A t \in Scopes, k \in Folders :
              dirs'[t][k] = IF t = s /\ k = n THEN ms ELSE dirs[t][k]
         /\ \A t \in Scopes, k \in Folders : There(t, k) => There(t, k)'
<1>1. dirs \in [Scopes -> [Folders -> (SUBSET Imports) \union {NoFolder}]]
  BY DEF SeqTypeOK
<1>2. \A t \in Scopes, k \in Folders :
         dirs'[t][k] = IF t = s /\ k = n THEN ms ELSE dirs[t][k]
  BY <1>1
<1>3. ms # NoFolder
  BY NoFolderIsNone
<1> DEFINE T == (SUBSET Imports) \union {NoFolder}
<1>4. dirs' \in [Scopes -> [Folders -> T]]
  <2>1. dirs \in [Scopes -> [Folders -> T]] /\ ms \in T
    BY <1>1
  <2> HIDE DEF T
  <2>2. QED
    BY <2>1
<1>5. QED
  BY <1>2, <1>3, <1>4 DEF There

LEMMA MakeDirShape == ASSUME IShape, NEW m \in Imports, MakeDir(m) PROVE IShape'
<1>1. /\ SeqTypeOK /\ InFlight(m) /\ imp' = [imp EXCEPT ![m].at = "made"]
      /\ UNCHANGED <<recordVars, h, saved, before, runs, faults, split, mishaps>>
      /\ ScopeOf[m] \in Scopes /\ imp[m].to \in Folders
  BY SequenceRenameConstants DEF IShape, MakeDir, InFlight, SeqTypeOK
<1>2. dirs' = dirs \/ dirs' = [dirs EXCEPT ![ScopeOf[m]][imp[m].to] = {}]
  BY DEF MakeDir
<1>3. /\ dirs' \in [Scopes -> [Folders -> (SUBSET Imports) \union {NoFolder}]]
      /\ \A s \in Scopes, n \in Folders : There(s, n) => There(s, n)'
  <2>1. CASE dirs' = dirs
    BY <1>1, <2>1 DEF SeqTypeOK, There
  <2>2. CASE dirs' = [dirs EXCEPT ![ScopeOf[m]][imp[m].to] = {}]
    <3>1. {} \in SUBSET Imports
      OBVIOUS
    <3>2. QED
      BY <1>1, <2>2, <3>1, PutIs
  <2>3. QED
    BY <1>2, <2>1, <2>2
<1>4. QED
  BY <1>1, <1>3, SameFolderShape DEF SeqTypeOK, recordVars

LEMMA CopyFilesShape == ASSUME IShape, NEW m \in Imports, CopyFiles(m) PROVE IShape'
<1>1. /\ SeqTypeOK /\ InFlight(m)
      /\ UNCHANGED <<recordVars, h, saved, before, runs, faults, split, mishaps>>
      /\ ScopeOf[m] \in Scopes /\ imp[m].to \in Folders
  BY SequenceRenameConstants DEF IShape, CopyFiles, InFlight, SeqTypeOK
<1> DEFINE ms == dirs[ScopeOf[m]][imp[m].to]
<1>2. CASE /\ There(ScopeOf[m], imp[m].to)
           /\ dirs' = [dirs EXCEPT ![ScopeOf[m]][imp[m].to] = @ \union {m}]
           /\ imp' = [imp EXCEPT ![m].at = "copied"]
  <2>1. ms \in SUBSET Imports
    BY <1>1, <1>2 DEF SeqTypeOK, There
  <2>2. ms \union {m} \in SUBSET Imports
        /\ dirs' = [dirs EXCEPT ![ScopeOf[m]][imp[m].to] = ms \union {m}]
    BY <1>1, <1>2, <2>1 DEF SeqTypeOK
  <2>3. /\ dirs' \in [Scopes -> [Folders -> (SUBSET Imports) \union {NoFolder}]]
        /\ \A s \in Scopes, n \in Folders : There(s, n) => There(s, n)'
    <3> HIDE DEF ms
    <3>1. QED
      BY <1>1, <2>2, PutIs
  <2>4. QED
    BY <1>1, <1>2, <2>3, SameFolderShape DEF SeqTypeOK, recordVars
<1>3. CASE imp' = [imp EXCEPT ![m].at = "failed"] /\ UNCHANGED dirs
  BY <1>1, <1>3, SameFolderShape DEF SeqTypeOK, recordVars, There
<1>4. QED
  BY <1>2, <1>3 DEF CopyFiles

LEMMA RecordedShape ==
  ASSUME IShape, NEW m \in Imports, CommitIntent(m) \/ AppendJob(m) PROVE IShape'
<1>1. /\ SeqTypeOK /\ InFlight(m) /\ imp[m].to \in Folders
      /\ UNCHANGED <<dirs, h, saved, before, runs, faults, mishaps>>
      /\ seqs' = seqs \/ seqs' = before
      /\ split \subseteq split' /\ split' \subseteq split \union Scopes \X Photographers
      /\ intent' = [intent EXCEPT ![m] = imp[m].to] \/ UNCHANGED intent
      /\ manifest' = [manifest EXCEPT ![m] = imp[m].to] \/ UNCHANGED manifest
      /\ imp' = [imp EXCEPT ![m].at = "committed"] \/ imp' = [imp EXCEPT ![m].at = "done"]
  BY DEF IShape, CommitIntent, AppendJob, InFlight, SeqTypeOK
<1>2. /\ intent' \in [Imports -> Folders \union {NoFolder}]
      /\ manifest' \in [Imports -> Folders \union {NoFolder}]
      /\ split' \subseteq Scopes \X Photographers
      /\ seqs' \in [Scopes -> [Photographers -> 0..MaxSeq]]
  BY <1>1 DEF SeqTypeOK
<1>3. QED
  BY <1>1, <1>2, SameFolderShape DEF SeqTypeOK, There

LEMMA AppEndsShape == IShape /\ AppEnds => IShape'
<1> SUFFICES ASSUME IShape, AppEnds PROVE IShape'
  OBVIOUS
<1>1. /\ SeqTypeOK /\ h' = Rest /\ faults' = faults + 1
      /\ UNCHANGED <<dirs, recordVars, saved, before, runs, split>>
      /\ imp' = [m \in Imports |->
                   IF InFlight(m) THEN [imp[m] EXCEPT !.at = "failed"] ELSE imp[m]]
      /\ mishaps' \subseteq mishaps \union {"crash"}
  BY DEF IShape, AppEnds, Fault
<1>2. /\ imp' \in [Imports -> [at : {"idle", "planned", "resolved", "made", "copied",
                                     "committed", "done", "failed"}, to : Folders]]
      /\ \A m \in Imports : imp'[m].to = imp[m].to
  BY <1>1 DEF SeqTypeOK
<1>3. Rest \in Handler
  BY DEF Rest, Handler
<1>4. SeqTypeOK'
  BY <1>1, <1>2, <1>3 DEF SeqTypeOK, recordVars
<1>5. QED
  BY <1>1, <1>2, <1>4, RestShape

LEMMA ShapeNext == IShape /\ [SeqNext]_seqVars => IShape'
<1> SUFFICES ASSUME IShape, [SeqNext]_seqVars PROVE IShape'
  OBVIOUS
<1>1. CASE \E p \in Plans : Apply(p)
  BY <1>1, ApplyShape
<1>2. CASE HandlerStep
  BY <1>2, ScanShape, ToTempShape, BackShape, EndOfPhase1Shape, PlaceShape, UndoShape,
     RemapShape, ReadSequencesShape, WriteSequencesShape, ReadManifestShape, WriteManifestShape DEF HandlerStep
<1>3. CASE \E m \in Imports : ImportStep(m)
  BY <1>3, PlanImportShape, ResolveShape, MakeDirShape, CopyFilesShape, RecordedShape
  DEF ImportStep
<1>4. CASE AppEnds
  BY <1>4, AppEndsShape
<1>5. CASE UNCHANGED seqVars
  <2>1. SeqTypeOK' /\ HandlerShape' /\ MovedShape' /\ RenamesShape'
    BY <1>5 DEF seqVars, IShape, Shape, SeqTypeOK, HandlerShape, MovedShape, RenamesShape,
                Visible, There, Scope, Ordered, Entry
  <2>2. SplitShape'
    BY <1>5 DEF seqVars, IShape, Shape, SplitShape, Split, InFlight, Numbered
  <2>3. QED
    BY <2>1, <2>2 DEF IShape, Shape
<1>6. QED
  BY <1>1, <1>2, <1>3, <1>4, <1>5 DEF SeqNext

LEMMA Shapely == SeqSpec => []IShape
BY ShapeInit, ShapeNext, PTL DEF SeqSpec

\* Every variable keeps its type, whatever the handler and the imports do and fail at.
THEOREM SeqTypeCorrect == SeqSpec => []SeqTypeOK
<1>1. IShape => SeqTypeOK
  BY DEF IShape
<1>2. QED
  BY <1>1, Shapely, PTL


-----------------------------------------------------------------------------
(* What the steps of applyRenames do                                       *)

\* A folder of scope s goes from name a to name b.
Goes(s, a, b) ==
  \A t \in Scopes, n \in Folders :
    dirs'[t][n] = IF t = s /\ n = a THEN NoFolder
                  ELSE IF t = s /\ n = b THEN dirs[s][a] ELSE dirs[t][n]

Records == <<intent, manifest, seqs, saved, before, imp, runs, split>>
SameScope == /\ UNCHANGED Records /\ h'.plan = h.plan /\ h'.k = h.k /\ h'.renames = h.renames
             /\ Scope' = Scope /\ Ordered' = Ordered

\* Phase 1 fails, or phase 2: the handler goes on to the intent.
Fails == /\ h'.at = "remap" /\ ~h'.ok /\ mishaps \subseteq mishaps'
         /\ h'.moved = h.moved /\ h'.done = h.done
         /\ h.renames # {} => "partial" \in mishaps'

LEMMA FailedIs ==
  ASSUME SeqTypeOK, NEW why, Failed(why)
  PROVE  /\ Fails /\ why \subseteq mishaps' /\ h'.plan = h.plan /\ h'.k = h.k
         /\ h'.renames = h.renames /\ Scope' = Scope /\ Ordered' = Ordered
<1>1. h \in Handler /\ h' = [h EXCEPT !.at = "remap", !.ok = FALSE]
  BY DEF SeqTypeOK, Failed
<1>2. h'.at = "remap" /\ ~h'.ok /\ h'.moved = h.moved /\ h'.done = h.done /\ h'.plan = h.plan
      /\ h'.k = h.k /\ h'.renames = h.renames /\ Scope' = Scope /\ Ordered' = Ordered
  BY <1>1 DEF Handler, Scope, Ordered
<1>3. QED
  BY <1>2 DEF Failed, Fails

LEMMA ScanIs ==
  ASSUME IShape, Scan
  PROVE  /\ SameScope /\ UNCHANGED dirs /\ h.at = "scan" /\ h.i \in DOMAIN Ordered
         /\ h'.moved = h.moved /\ h'.done = h.done
         /\ \/ /\ UNCHANGED mishaps /\ h'.at = "scan" /\ h'.i = h.i + 1
               /\ Visible(Scope, Entry[1]) = {} \/ Entry \in Visible(Scope, Entry[1])
            \/ /\ UNCHANGED mishaps /\ h'.at = "move" /\ h'.i = h.i
               /\ h'.cur \in Visible(Scope, Entry[1]) /\ h'.cur # Entry
            \/ Fails /\ (h.moved # << >> => "scan" \in mishaps')
<1>1. SeqTypeOK /\ h \in Handler
  BY DEF IShape, SeqTypeOK
<1>2. /\ UNCHANGED Records /\ UNCHANGED dirs /\ h.at = "scan" /\ h.i \in DOMAIN Ordered
  BY DEF Scan, Records, recordVars
<1> DEFINE found == {n \in Real : n[1] = Entry[1] /\ There(Scope, n)}
<1>3. found = Visible(Scope, Entry[1])
  BY DEF Visible
<1>4. CASE /\ h' = [h EXCEPT !.i = h.i + 1] /\ UNCHANGED mishaps
           /\ found = {} \/ Entry \in found
  <2>1. h'.at = "scan" /\ h'.i = h.i + 1 /\ h'.plan = h.plan /\ h'.k = h.k
        /\ h'.renames = h.renames /\ Scope' = Scope /\ Ordered' = Ordered
        /\ h'.moved = h.moved /\ h'.done = h.done
    BY <1>1, <1>2, <1>4 DEF Handler, Scope, Ordered
  <2>2. QED
    BY <1>2, <1>3, <1>4, <2>1 DEF SameScope
<1>5. CASE \E n \in found : /\ h' = [h EXCEPT !.at = "move", !.cur = n] /\ n # Entry
                            /\ UNCHANGED mishaps
  <2>1. PICK n \in found : /\ h' = [h EXCEPT !.at = "move", !.cur = n] /\ n # Entry
                           /\ UNCHANGED mishaps
    BY <1>5
  <2>2. h'.at = "move" /\ h'.i = h.i /\ h'.cur = n /\ h'.plan = h.plan /\ h'.k = h.k
        /\ h'.renames = h.renames /\ Scope' = Scope /\ Ordered' = Ordered
        /\ h'.moved = h.moved /\ h'.done = h.done
    BY <1>1, <1>2, <2>1 DEF Handler, Scope, Ordered
  <2>3. QED
    BY <1>2, <1>3, <2>1, <2>2 DEF SameScope
<1>6. CASE Failed(IF h.moved # << >> THEN {"scan"} ELSE {})
  <2>1. Fails /\ (IF h.moved # << >> THEN {"scan"} ELSE {}) \subseteq mishaps'
        /\ h'.plan = h.plan /\ h'.k = h.k
        /\ h'.renames = h.renames /\ Scope' = Scope /\ Ordered' = Ordered
    BY <1>1, <1>6, FailedIs
  <2>2. QED
    BY <1>2, <2>1 DEF SameScope, Fails
<1>7. \/ /\ \E n \in found : h' = IF n = Entry THEN [h EXCEPT !.i = h.i + 1]
                                  ELSE [h EXCEPT !.at = "move", !.cur = n]
         /\ UNCHANGED mishaps
      \/ found = {} /\ h' = [h EXCEPT !.i = h.i + 1] /\ UNCHANGED mishaps
      \/ Failed(IF h.moved # << >> THEN {"scan"} ELSE {})
  BY DEF Scan
<1>8. QED
  BY <1>4, <1>5, <1>6, <1>7

LEMMA ToTempIs ==
  ASSUME IShape, ToTemp
  PROVE  /\ SameScope /\ UNCHANGED mishaps /\ h.at = "move"
         /\ h.i \in DOMAIN Ordered /\ Ordered[h.i] = Entry /\ Entry \in Real
         /\ <<runs, Entry[2]>> \in Temp
         /\ h.cur \in Real /\ h.cur[1] = Entry[1] /\ There(Scope, h.cur)
         /\ h.done = 0 /\ h'.done = 0 /\ h'.ok = h.ok /\ h.i \in Nat
         /\ \/ /\ Goes(Scope, h.cur, <<runs, Entry[2]>>) /\ h'.at = "scan" /\ h'.i = h.i + 1
               /\ \E last \in Nat \ DOMAIN h.moved :
                    /\ DOMAIN h'.moved = DOMAIN h.moved \union {last} /\ last > 0
                    /\ h'.moved[last] = [from |-> h.cur, tmp |-> <<runs, Entry[2]>>, to |-> Entry]
                    /\ \A x \in DOMAIN h.moved : h'.moved[x] = h.moved[x]
            \/ UNCHANGED dirs /\ h'.at = "back" /\ h'.moved = h.moved
<1>1. SeqTypeOK /\ HandlerShape /\ h \in Handler /\ h.at = "move" /\ h.at \in InDir
      /\ UNCHANGED Records /\ UNCHANGED mishaps
  BY DEF IShape, Shape, SeqTypeOK, ToTemp, InDir, Renaming, Records, recordVars
<1>2. /\ h.i \in DOMAIN Ordered /\ h.cur \in Real /\ h.cur[1] = Entry[1] /\ h.i \in Nat
      /\ Ordered[h.i] = Entry /\ Entry \in Real /\ <<runs, Entry[2]>> \in Temp /\ Scope \in Scopes
      /\ There(Scope, h.cur) /\ h.done = 0
  BY <1>1, AtScope DEF HandlerShape, Visible, Entry
<1> DEFINE e == [from |-> h.cur, tmp |-> <<runs, Entry[2]>>, to |-> Entry]
           q == h.moved
<1>3. CASE /\ dirs' = Renamed(Scope, h.cur, <<runs, Entry[2]>>)
           /\ h' = [h EXCEPT !.at = "scan", !.i = h.i + 1, !.moved = Append(q, e)]
  <2>1. e \in Move
    BY <1>2, RealIs DEF Move
  <2>2. q \in Seq(Move)
    BY <1>1 DEF Handler
  <2>3. /\ Len(q) \in Nat
        /\ DOMAIN Append(q, e) = DOMAIN q \union {Len(q) + 1} /\ Len(q) + 1 \notin DOMAIN q
        /\ Append(q, e)[Len(q) + 1] = e
        /\ \A x \in DOMAIN q : Append(q, e)[x] = q[x]
    <3> HIDE DEF e, q
    <3>1. QED
      BY <2>1, <2>2, AppendIs
  <2>4. /\ h'.at = "scan" /\ h'.i = h.i + 1 /\ h'.plan = h.plan /\ h'.k = h.k
        /\ h'.moved = Append(q, e) /\ h'.done = 0 /\ h'.renames = h.renames /\ h'.ok = h.ok
        /\ Ordered' = Ordered /\ Scope' = Scope
    BY <1>1, <1>2, <1>3 DEF Handler, Ordered, Scope
  <2>5. Goes(Scope, h.cur, <<runs, Entry[2]>>)
    <3> DEFINE tmp == <<runs, Entry[2]>>
    <3>1. tmp \in Folders /\ h.cur \in Folders /\ dirs' = Renamed(Scope, h.cur, tmp)
      BY <1>2, <1>3, RealIs
    <3> HIDE DEF tmp
    <3>2. Goes(Scope, h.cur, tmp)
      BY <1>1, <1>2, <3>1, RenamedIs DEF Goes
    <3>3. QED
      BY <3>2 DEF tmp
  <2>6. \E last \in Nat \ DOMAIN h.moved :
          /\ DOMAIN h'.moved = DOMAIN h.moved \union {last} /\ last > 0
          /\ h'.moved[last] = e
          /\ \A x \in DOMAIN h.moved : h'.moved[x] = h.moved[x]
    <3> HIDE DEF e
    <3>1. Len(q) + 1 \in Nat \ DOMAIN h.moved /\ Len(q) + 1 > 0
      BY <2>3
    <3>2. QED
      BY <2>3, <2>4, <3>1
  <2>7. QED
    BY <1>1, <1>2, <2>4, <2>5, <2>6 DEF SameScope
<1>4. CASE h' = [h EXCEPT !.at = "back"] /\ UNCHANGED dirs
  <2>1. /\ h'.at = "back" /\ h'.plan = h.plan /\ h'.k = h.k /\ h'.moved = h.moved
        /\ h'.done = h.done /\ h'.renames = h.renames /\ h'.ok = h.ok
        /\ Ordered' = Ordered /\ Scope' = Scope
    BY <1>1, <1>4 DEF Handler, Ordered, Scope
  <2>2. QED
    BY <1>1, <1>2, <1>4, <2>1 DEF SameScope
<1>5. QED
  BY <1>3, <1>4 DEF ToTemp

LEMMA BackIs ==
  ASSUME IShape, Back
  PROVE  /\ SameScope /\ h.at = "back" /\ mishaps \subseteq mishaps' /\ h.done = 0
         /\ \/ h.moved = << >> /\ Fails /\ UNCHANGED dirs
            \/ \E last \in DOMAIN h.moved :
                 /\ h'.at = "back" /\ h'.done = 0
                 /\ DOMAIN h'.moved = DOMAIN h.moved \ {last}
                 /\ \A x \in DOMAIN h'.moved : h'.moved[x] = h.moved[x]
                 /\ \/ /\ CanRename(Scope, h.moved[last].from)
                       /\ Goes(Scope, h.moved[last].tmp, h.moved[last].from)
                       /\ UNCHANGED mishaps
                    \/ UNCHANGED dirs /\ "rollback" \in mishaps'
<1>1. SeqTypeOK /\ HandlerShape /\ h \in Handler /\ h.at = "back" /\ h.at \in InDir /\ h.done = 0
      /\ UNCHANGED Records /\ Scope \in Scopes
  BY AtScope DEF IShape, Shape, SeqTypeOK, HandlerShape, Back, InDir, Renaming, Records, recordVars
<1>2. CASE h.moved = << >>
  <2>1. Failed({}) /\ UNCHANGED dirs
    BY <1>2 DEF Back
  <2>2. Fails /\ h'.plan = h.plan /\ h'.k = h.k
        /\ h'.renames = h.renames /\ Scope' = Scope /\ Ordered' = Ordered
    BY <1>1, <2>1, FailedIs
  <2>3. QED
    BY <1>1, <1>2, <2>1, <2>2 DEF SameScope, Fails
<1>3. CASE h.moved # << >>
  <2> DEFINE q == h.moved
             f == SubSeq(q, 1, Len(q) - 1)
  <2>1. /\ DOMAIN f = DOMAIN q \ {Len(q)} /\ Len(q) \in DOMAIN q
        /\ \A x \in DOMAIN f : f[x] = q[x]
    BY <1>1, <1>3, FrontIs DEF Handler
  <2>2. h' = [h EXCEPT !.moved = f]
    BY <1>3 DEF Back
  <2>3. /\ h'.at = "back" /\ h'.plan = h.plan /\ h'.k = h.k /\ h'.moved = f
        /\ h'.done = 0 /\ h'.renames = h.renames /\ Ordered' = Ordered /\ Scope' = Scope
    <3> HIDE DEF f
    <3>1. QED
      BY <1>1, <2>2 DEF Handler, Ordered, Scope
  <2> DEFINE r == q[Len(q)]
  <2>4. \/ /\ CanRename(Scope, r.from) /\ dirs' = Renamed(Scope, r.tmp, r.from)
           /\ UNCHANGED mishaps
        \/ UNCHANGED dirs /\ mishaps' = mishaps \union {"rollback"}
    BY <1>3 DEF Back
  <2>5. r.tmp \in Folders /\ r.from \in Folders
    BY <1>1, <2>1, MovedTypes DEF IShape, Shape
  <2>6. dirs' = Renamed(Scope, r.tmp, r.from) => Goes(Scope, r.tmp, r.from)
    <3> HIDE DEF r
    <3>1. QED
      BY <1>1, <2>5, RenamedIs DEF Goes
  <2>7. DOMAIN h'.moved = DOMAIN h.moved \ {Len(q)}
        /\ (\A x \in DOMAIN h'.moved : h'.moved[x] = h.moved[x])
    <3> HIDE DEF f
    <3>1. QED
      BY <2>1, <2>3
  <2> HIDE DEF f
  <2>8. \/ CanRename(Scope, r.from) /\ Goes(Scope, r.tmp, r.from) /\ UNCHANGED mishaps
        \/ UNCHANGED dirs /\ "rollback" \in mishaps'
    BY <2>4, <2>6
  <2>9. mishaps \subseteq mishaps' /\ SameScope
    BY <1>1, <2>3, <2>4 DEF SameScope
  <2>10. QED
    BY <1>1, <2>1, <2>3, <2>7, <2>8, <2>9
<1>4. QED
  BY <1>2, <1>3

LEMMA EndOfPhase1Is ==
  ASSUME IShape, EndOfPhase1
  PROVE  /\ SameScope /\ UNCHANGED <<dirs, mishaps>> /\ h.at = "scan" /\ h.i \notin DOMAIN Ordered
         /\ h'.at = "place" /\ h'.moved = h.moved /\ h'.done = h.done
<1>1. h \in Handler /\ h' = [h EXCEPT !.at = "place"] /\ UNCHANGED Records
  BY DEF IShape, SeqTypeOK, EndOfPhase1, Records, recordVars
<1>2. /\ h'.at = "place" /\ h'.plan = h.plan /\ h'.k = h.k /\ h'.moved = h.moved
      /\ h'.done = h.done /\ h'.renames = h.renames
      /\ Ordered' = Ordered /\ Scope' = Scope
  BY <1>1 DEF Handler, Ordered, Scope
<1>3. QED
  BY <1>1, <1>2 DEF EndOfPhase1, SameScope

LEMMA ScopeDoneIs ==
  ASSUME IShape, Place, h.done = Len(h.moved)
  PROVE  /\ UNCHANGED Records /\ UNCHANGED <<dirs, mishaps>> /\ h.at = "place"
         /\ h'.plan = h.plan /\ h'.moved = << >> /\ h'.done = 0 /\ h'.i = 1 /\ h'.ok
         /\ h'.renames = h.renames \union {<<Scope, h.moved[x].from, h.moved[x].to>> :
                                             x \in DOMAIN h.moved}
         /\ \/ h.k + 1 \in DOMAIN h.plan /\ h'.at = "scan" /\ h'.k = h.k + 1
            \/ h.k + 1 \notin DOMAIN h.plan /\ h'.at = "remap" /\ h'.k = h.k
<1>1. /\ SeqTypeOK /\ HandlerShape /\ h.at \in InDir /\ h.at = "place"
      /\ UNCHANGED Records /\ UNCHANGED <<dirs, mishaps>>
      /\ h \in Handler /\ h.k \in DOMAIN h.plan /\ h.plan \in Plans /\ h.k \in Nat /\ h.ok
  BY AtScope
  DEF IShape, Shape, InDir, Renaming, Place, SeqTypeOK, HandlerShape, Records, recordVars
<1> DEFINE last == ~(h.k < Len(h.plan))
           new == {<<Scope, h.moved[x].from, h.moved[x].to>> : x \in DOMAIN h.moved}
<1>2. h' = [h EXCEPT !.at = IF last THEN "remap" ELSE "scan", !.k = IF last THEN @ ELSE @ + 1,
                     !.i = 1, !.moved = << >>, !.done = 0, !.renames = @ \union new]
  BY DEF Place
<1>3. /\ h'.at = (IF last THEN "remap" ELSE "scan") /\ h'.plan = h.plan
      /\ h'.k = (IF last THEN h.k ELSE h.k + 1) /\ h'.i = 1 /\ h'.moved = << >> /\ h'.done = 0
      /\ h'.renames = h.renames \union new /\ h'.ok = h.ok
  <2> HIDE DEF last, new
  <2>1. QED
    BY <1>1, <1>2 DEF Handler
<1>4. Len(h.plan) \in Nat /\ DOMAIN h.plan = 1..Len(h.plan)
  BY <1>1, PlansAre
<1>5. ~last <=> h.k + 1 \in DOMAIN h.plan
  BY <1>1, <1>4
<1> HIDE DEF last
<1>6. QED
  BY <1>1, <1>3, <1>5

LEMMA PlaceIs ==
  ASSUME IShape, Place, h.done # Len(h.moved)
  PROVE  /\ SameScope /\ h.at = "place" /\ mishaps \subseteq mishaps' /\ h'.moved = h.moved
         /\ h.done + 1 \in DOMAIN h.moved /\ h.done \in Nat
         /\ \/ /\ CanRename(Scope, h.moved[h.done + 1].to)
               /\ Goes(Scope, h.moved[h.done + 1].tmp, h.moved[h.done + 1].to)
               /\ h'.at = "place" /\ h'.done = h.done + 1 /\ UNCHANGED mishaps
            \/ /\ UNCHANGED dirs /\ h'.at = "undo" /\ h'.done = h.done
               /\ "place" \in mishaps'
<1>1. /\ SeqTypeOK /\ HandlerShape /\ MovedShape /\ h.at \in InDir /\ h.at = "place"
      /\ UNCHANGED Records /\ h \in Handler /\ h.done \in Nat /\ Scope \in Scopes
  BY AtScope DEF IShape, Shape, InDir, Renaming, Place, SeqTypeOK, HandlerShape, Handler,
                 Records, recordVars
<1> DEFINE r == h.moved[h.done + 1]
<1>2. h.done + 1 \in DOMAIN h.moved
  BY <1>1, MovedTypes
<1>3. r.to \in Folders /\ r.tmp \in Folders
  BY <1>1, <1>2, MovedTypes
<1>4. CASE /\ CanRename(Scope, r.to) /\ dirs' = Renamed(Scope, r.tmp, r.to)
           /\ h' = [h EXCEPT !.done = h.done + 1] /\ UNCHANGED mishaps
  <2>1. /\ h'.at = "place" /\ h'.plan = h.plan /\ h'.k = h.k
        /\ h'.moved = h.moved /\ h'.done = h.done + 1 /\ h'.renames = h.renames
        /\ Ordered' = Ordered /\ Scope' = Scope
    BY <1>1, <1>4 DEF Handler, Ordered, Scope
  <2>2. Goes(Scope, r.tmp, r.to)
    <3> HIDE DEF r
    <3>1. QED
      BY <1>1, <1>3, <1>4, RenamedIs DEF Goes
  <2>3. QED
    BY <1>1, <1>2, <1>4, <2>1, <2>2 DEF SameScope
<1>5. CASE /\ h' = [h EXCEPT !.at = "undo"] /\ mishaps' = mishaps \union {"place"}
           /\ UNCHANGED dirs
  <2>1. /\ h'.at = "undo" /\ h'.plan = h.plan /\ h'.k = h.k
        /\ h'.moved = h.moved /\ h'.done = h.done /\ h'.renames = h.renames
        /\ Ordered' = Ordered /\ Scope' = Scope
    BY <1>1, <1>5 DEF Handler, Ordered, Scope
  <2>2. QED
    BY <1>1, <1>2, <1>5, <2>1 DEF SameScope
<1>6. QED
  BY <1>4, <1>5 DEF Place

LEMMA UndoIs ==
  ASSUME IShape, Undo
  PROVE  /\ SameScope /\ h.at = "undo" /\ mishaps \subseteq mishaps' /\ h'.moved = h.moved
         /\ "place" \in mishaps
         /\ \/ Fails /\ UNCHANGED dirs
            \/ /\ h.done \in DOMAIN h.moved /\ h'.at = "undo" /\ h'.done = h.done - 1
               /\ \/ /\ There(Scope, h.moved[h.done].to)
                     /\ CanRename(Scope, h.moved[h.done].from)
                     /\ Goes(Scope, h.moved[h.done].to, h.moved[h.done].from)
                  \/ UNCHANGED dirs
<1>1. /\ SeqTypeOK /\ HandlerShape /\ MovedShape /\ h.at \in InDir /\ h.at = "undo"
      /\ UNCHANGED Records /\ h \in Handler /\ h.done \in Nat /\ Scope \in Scopes
      /\ "place" \in mishaps
  BY AtScope DEF IShape, Shape, InDir, Renaming, Undo, SeqTypeOK, HandlerShape, Handler,
                 Records, recordVars
<1>2. CASE h.done = 0
  <2>1. Failed({}) /\ UNCHANGED dirs
    BY <1>2 DEF Undo
  <2>2. Fails /\ h'.plan = h.plan /\ h'.k = h.k
        /\ h'.renames = h.renames /\ Scope' = Scope /\ Ordered' = Ordered
    BY <1>1, <2>1, FailedIs
  <2>3. QED
    BY <1>1, <2>1, <2>2 DEF SameScope, Fails
<1>3. CASE h.done # 0
  <2> DEFINE r == h.moved[h.done]
  <2>1. h.done \in DOMAIN h.moved
    BY <1>1, <1>3, MovedTypes
  <2>2. h' = [h EXCEPT !.done = h.done - 1]
    BY <1>3 DEF Undo
  <2>3. /\ h'.at = "undo" /\ h'.plan = h.plan /\ h'.k = h.k /\ h'.moved = h.moved
        /\ h'.done = h.done - 1 /\ h'.renames = h.renames /\ Ordered' = Ordered /\ Scope' = Scope
    BY <1>1, <2>2 DEF Handler, Ordered, Scope
  <2>4. \/ /\ There(Scope, r.to) /\ CanRename(Scope, r.from) /\ dirs' = Renamed(Scope, r.to, r.from)
           /\ UNCHANGED mishaps
        \/ UNCHANGED dirs /\ mishaps' = mishaps \union {"rollback"}
    BY <1>3 DEF Undo
  <2>5. r.to \in Folders /\ r.from \in Folders
    BY <1>1, <2>1, MovedTypes
  <2>6. dirs' = Renamed(Scope, r.to, r.from) => Goes(Scope, r.to, r.from)
    <3> HIDE DEF r
    <3>1. QED
      BY <1>1, <2>5, RenamedIs DEF Goes
  <2>7. QED
    BY <1>1, <2>1, <2>3, <2>4, <2>6 DEF SameScope
<1>4. QED
  BY <1>2, <1>3


-----------------------------------------------------------------------------
(* No folder stays under a temporary name                                  *)

\* A step by which no folder gets a temporary name, and the renames that are left to
\* do stay the same.
LEMMA HiddenStays ==
  ASSUME Hidden, mishaps \subseteq mishaps',
         \A s \in Scopes, n \in Temp : There(s, n)' => There(s, n),
         h.at \in Renaming => /\ h'.at \in Renaming /\ Scope' = Scope
                              /\ h'.moved = h.moved /\ h'.done = h.done
  PROVE  Hidden'
BY DEF Hidden

LEMMA HiddenAnyway == ASSUME mishaps' \intersect Lasting # {} PROVE Hidden'
BY DEF Hidden

LEMMA HiddenIfClear ==
  ASSUME Hidden, mishaps \subseteq mishaps', UNCHANGED dirs,
         \A x \in DOMAIN h.moved : ~(x > h.done)
  PROVE  Hidden'
BY DEF Hidden, There

LEMMA HiddenScan == IShape /\ Hidden /\ Scan => Hidden'
<1> SUFFICES ASSUME IShape, Hidden, Scan PROVE Hidden'
  OBVIOUS
<1>1. /\ UNCHANGED dirs /\ SameScope /\ h'.moved = h.moved /\ h'.done = h.done
      /\ mishaps \subseteq mishaps'
      /\ h'.at \in Renaming \/ "scan" \in mishaps' \/ h.moved = << >>
  BY ScanIs DEF Fails, Renaming
<1>2. CASE h'.at \in Renaming
  BY <1>1, <1>2, HiddenStays DEF SameScope, There
<1>3. CASE "scan" \in mishaps'
  BY <1>3, HiddenAnyway DEF Lasting
<1>4. CASE h.moved = << >>
  <2>1. DOMAIN h.moved = {}
    BY <1>4
  <2>2. QED
    BY <1>1, <2>1, HiddenIfClear
<1>5. QED
  BY <1>1, <1>2, <1>3, <1>4

LEMMA HiddenToTemp == IShape /\ Hidden /\ ToTemp => Hidden'
<1> SUFFICES ASSUME IShape, Hidden, ToTemp PROVE Hidden'
  OBVIOUS
<1> DEFINE tmp == <<runs, Entry[2]>>
           e == [from |-> h.cur, tmp |-> tmp, to |-> Entry]
<1>1. /\ UNCHANGED mishaps /\ SameScope /\ h.at \in Renaming /\ h.done = 0 /\ h'.done = 0
      /\ h.cur \in Real /\ tmp \in Temp
  BY ToTempIs DEF Renaming
<1>2. CASE UNCHANGED dirs /\ h'.at = "back" /\ h'.moved = h.moved
  BY <1>1, <1>2, HiddenStays DEF SameScope, There, Renaming
<1>3. CASE /\ Goes(Scope, h.cur, tmp) /\ h'.at = "scan"
           /\ \E last \in Nat \ DOMAIN h.moved :
                /\ DOMAIN h'.moved = DOMAIN h.moved \union {last} /\ last > 0
                /\ h'.moved[last] = e
                /\ \A x \in DOMAIN h.moved : h'.moved[x] = h.moved[x]
  <2>1. PICK last \in Nat \ DOMAIN h.moved :
                /\ DOMAIN h'.moved = DOMAIN h.moved \union {last} /\ last > 0
                /\ h'.moved[last] = e
                /\ \A x \in DOMAIN h.moved : h'.moved[x] = h.moved[x]
    BY <1>3
  <2>2. h'.moved[last].tmp = tmp
    BY <2>1
  <2> HIDE DEF e, tmp
  <2>3. SUFFICES ASSUME mishaps' \intersect Lasting = {}, NEW s \in Scopes, NEW n \in Temp,
                        There(s, n)'
                 PROVE  /\ h'.at \in Renaming /\ s = Scope'
                        /\ \E x \in DOMAIN h'.moved : x > h'.done /\ h'.moved[x].tmp = n
    BY DEF Hidden
  <2>4. CASE s = Scope /\ n = tmp
    BY <1>1, <1>3, <2>1, <2>2, <2>4 DEF Renaming, SameScope
  <2>5. CASE ~(s = Scope /\ n = tmp)
    <3>1. There(s, n)
      BY <1>3, <2>3, <2>5, RealIs DEF Goes, There
    <3>2. s = Scope /\ \E x \in DOMAIN h.moved : x > h.done /\ h.moved[x].tmp = n
      BY <1>1, <2>3, <3>1 DEF Hidden
    <3>3. QED
      BY <1>1, <1>3, <2>1, <3>2 DEF Renaming, SameScope
  <2>6. QED
    BY <2>4, <2>5
<1>4. QED
  BY <1>2, <1>3, ToTempIs

LEMMA HiddenBack == IShape /\ Hidden /\ Back => Hidden'
<1> SUFFICES ASSUME IShape, Hidden, Back PROVE Hidden'
  OBVIOUS
<1>1. SameScope /\ h.at = "back" /\ mishaps \subseteq mishaps' /\ h.done = 0
  BY BackIs
<1>2. CASE h.moved = << >> /\ UNCHANGED dirs
  <2>1. DOMAIN h.moved = {}
    BY <1>2
  <2>2. QED
    BY <1>1, <1>2, <2>1, HiddenIfClear
<1>3. CASE "rollback" \in mishaps'
  BY <1>3, HiddenAnyway DEF Lasting
<1>4. ASSUME NEW last \in DOMAIN h.moved,
             h'.at = "back", h'.done = 0,
             DOMAIN h'.moved = DOMAIN h.moved \ {last},
             \A x \in DOMAIN h'.moved : h'.moved[x] = h.moved[x],
             Goes(Scope, h.moved[last].tmp, h.moved[last].from), UNCHANGED mishaps
      PROVE  Hidden'
  <2>1. h.moved[last].tmp \in Temp /\ h.moved[last].from \in Real
    BY <1>1, MovedTypes DEF IShape, Shape, InDir, Renaming
  <2>2. SUFFICES ASSUME mishaps' \intersect Lasting = {}, NEW s \in Scopes, NEW n \in Temp,
                        There(s, n)'
                 PROVE  /\ h'.at \in Renaming /\ s = Scope'
                        /\ \E x \in DOMAIN h'.moved : x > h'.done /\ h'.moved[x].tmp = n
    BY DEF Hidden
  <2>3. n \in Folders /\ n \notin Real
    BY RealIs
  <2>4. There(s, n) /\ ~(s = Scope /\ n = h.moved[last].tmp)
    BY <1>4, <2>1, <2>2, <2>3 DEF Goes, There
  <2>5. s = Scope /\ \E x \in DOMAIN h.moved : x > h.done /\ h.moved[x].tmp = n
    BY <1>4, <2>2, <2>4 DEF Hidden
  <2>6. QED
    BY <1>1, <1>4, <2>4, <2>5 DEF SameScope, Renaming
<1>5. QED
  BY <1>2, <1>3, <1>4, BackIs

LEMMA HiddenPlace == IShape /\ Hidden /\ Place => Hidden'
<1> SUFFICES ASSUME IShape, Hidden, Place PROVE Hidden'
  OBVIOUS
<1>1. CASE h.done = Len(h.moved)
  <2>1. UNCHANGED <<dirs, mishaps>> /\ h.at \in InDir
    BY <1>1, ScopeDoneIs DEF InDir, Renaming
  <2>2. \A x \in DOMAIN h.moved : ~(x > h.done)
    BY <1>1, <2>1, MovedTypes DEF IShape, Shape
  <2>3. QED
    BY <2>1, <2>2, HiddenIfClear
<1>2. CASE h.done # Len(h.moved)
  <2>1. /\ SameScope /\ h.at = "place" /\ mishaps \subseteq mishaps' /\ h'.moved = h.moved
        /\ h.done + 1 \in DOMAIN h.moved /\ h.done \in Nat
    BY <1>2, PlaceIs
  <2>2. CASE "place" \in mishaps'
    BY <2>2, HiddenAnyway DEF Lasting
  <2> DEFINE r == h.moved[h.done + 1]
  <2>3. CASE /\ Goes(Scope, r.tmp, r.to) /\ h'.at = "place" /\ h'.done = h.done + 1
             /\ UNCHANGED mishaps
    <3>1. r.tmp \in Temp /\ r.to \in Real /\ DOMAIN h.moved \subseteq Nat
      BY <2>1, MovedTypes DEF IShape, Shape, InDir, Renaming
    <3>2. SUFFICES ASSUME mishaps' \intersect Lasting = {}, NEW s \in Scopes, NEW n \in Temp,
                          There(s, n)'
                   PROVE  /\ h'.at \in Renaming /\ s = Scope'
                          /\ \E x \in DOMAIN h'.moved : x > h'.done /\ h'.moved[x].tmp = n
      BY DEF Hidden
    <3>3. n \in Folders /\ n \notin Real
      BY RealIs
    <3>4. There(s, n) /\ ~(s = Scope /\ n = r.tmp)
      <4> HIDE DEF r
      <4>1. QED
        BY <2>3, <3>1, <3>2, <3>3 DEF Goes, There
    <3>5. s = Scope
      BY <2>3, <3>2, <3>4 DEF Hidden
    <3>6. PICK x \in DOMAIN h.moved : x > h.done /\ h.moved[x].tmp = n
      BY <2>3, <3>2, <3>4 DEF Hidden
    <3>7. x # h.done + 1 /\ x \in Nat
      BY <3>1, <3>4, <3>5, <3>6
    <3>8. x > h'.done
      BY <2>1, <2>3, <3>6, <3>7
    <3>9. QED
      BY <2>1, <2>3, <3>5, <3>6, <3>8 DEF SameScope, Renaming
  <2>4. QED
    BY <1>2, <2>2, <2>3, PlaceIs
<1>3. QED
  BY <1>1, <1>2

LEMMA HiddenImport ==
  ASSUME IShape, Hidden, NEW m \in Imports, ImportStep(m) PROVE Hidden'
<1>1. mishaps' = mishaps /\ h' = h
  BY DEF ImportStep, PlanImport, Resolve, MakeDir, CopyFiles, CommitIntent, AppendJob
<1>2. /\ ScopeOf[m] \in Scopes /\ imp[m].to \in Real /\ imp[m].to \in Folders /\ SeqTypeOK
  BY RealIs, SequenceRenameConstants DEF IShape, Shape, SplitShape
<1>3. \/ UNCHANGED dirs
      \/ \E ms : dirs' = [dirs EXCEPT ![ScopeOf[m]][imp[m].to] = ms]
  BY DEF ImportStep, PlanImport, Resolve, MakeDir, CopyFiles, CommitIntent, AppendJob
<1>4. \A s \in Scopes, n \in Temp : There(s, n)' => There(s, n)
  <2>1. \A s \in Scopes, n \in Temp : dirs'[s][n] = dirs[s][n]
    <3>1. ASSUME NEW ms, dirs' = [dirs EXCEPT ![ScopeOf[m]][imp[m].to] = ms],
                 NEW s \in Scopes, NEW n \in Temp
          PROVE  dirs'[s][n] = dirs[s][n]
      <4>1. n \in Folders /\ n # imp[m].to
        BY <1>2, RealIs
      <4>2. QED
        BY <1>2, <3>1, <4>1 DEF SeqTypeOK
    <3>2. QED
      BY <1>3, <3>1
  <2>2. QED
    BY <2>1 DEF There
<1>5. QED
  BY <1>1, <1>4, HiddenStays DEF Scope

LEMMA HiddenNext == IShape /\ Hidden /\ [SeqNext]_seqVars => Hidden'
<1> SUFFICES ASSUME IShape, Hidden, [SeqNext]_seqVars PROVE Hidden'
  OBVIOUS
<1>1. CASE \E p \in Plans : Apply(p)
  <2>1. UNCHANGED <<dirs, mishaps>> /\ h.at \notin Renaming
    BY <1>1 DEF Apply, Renaming
  <2>2. QED
    BY <2>1, HiddenStays DEF There
<1>2. CASE EndOfPhase1
  BY <1>2, EndOfPhase1Is, HiddenStays DEF There, Renaming, SameScope
<1>3. CASE Undo
  BY <1>3, UndoIs, HiddenAnyway DEF Lasting
<1>4. CASE Remap \/ ReadSequences \/ WriteSequences \/ ReadManifest \/ WriteManifest
  <2>1. UNCHANGED dirs /\ mishaps \subseteq mishaps' /\ h.at \notin Renaming
    BY <1>4 DEF Remap, ReadSequences, WriteSequences, ReadManifest, WriteManifest, Renaming
  <2>2. QED
    BY <2>1, HiddenStays DEF There
<1>5. CASE \E m \in Imports : ImportStep(m)
  BY <1>5, HiddenImport
<1>6. CASE AppEnds
  <2>1. CASE h.at # "idle"
    BY <1>6, <2>1, HiddenAnyway DEF AppEnds, Lasting
  <2>2. CASE h.at = "idle"
    <3>1. UNCHANGED <<dirs, mishaps>> /\ h.at \notin Renaming
      BY <1>6, <2>2 DEF AppEnds, Renaming
    <3>2. QED
      BY <3>1, HiddenStays DEF There
  <2>3. QED
    BY <2>1, <2>2
<1>7. CASE UNCHANGED seqVars
  BY <1>7, HiddenStays DEF seqVars, There, Scope
<1>8. QED
  BY <1>1, <1>2, <1>3, <1>4, <1>5, <1>6, <1>7, HiddenScan, HiddenToTemp, HiddenBack, HiddenPlace
  DEF SeqNext, HandlerStep

LEMMA HiddenInit == SeqInit => Hidden
<1> SUFFICES ASSUME SeqInit, NEW s \in Scopes, NEW n \in Temp PROVE ~There(s, n)
  BY DEF Hidden
<1>1. n \in Folders /\ n \notin Real
  BY RealIs
<1>2. \A m \in Already : Plain(m) \in Real
  BY SequenceRenameConstants DEF Plain, Real
<1>3. {m \in Already : ScopeOf[m] = s /\ Plain(m) = n} = {}
  BY <1>1, <1>2
<1>4. QED
  BY <1>1, <1>3 DEF SeqInit, There

\* A rename of phase 1 that fails is rolled back whole: after the handler no folder
\* keeps a temporary name, but for what it does not undo.
THEOREM NothingHiddenCorrect == SeqSpec => []NothingHidden
<1>1. Hidden => NothingHidden
  BY DEF Hidden, NothingHidden, Lasting, Renaming
<1>2. SeqInit => Hidden
  BY HiddenInit
<1>3. IShape /\ Hidden /\ [SeqNext]_seqVars => Hidden'
  BY HiddenNext
<1>4. QED
  BY <1>1, <1>2, <1>3, Shapely, PTL DEF SeqSpec


-----------------------------------------------------------------------------
(* One folder of a photographer                                            *)

LEMMA VisibleGoes ==
  ASSUME NEW s0 \in Scopes, NEW a \in Folders, NEW b \in Folders, Goes(s0, a, b),
         NEW s \in Scopes, NEW p
  PROVE  /\ s # s0 => Visible(s, p)' = Visible(s, p)
         /\ Visible(s, p)' \subseteq Visible(s, p) \union {b}
         /\ b \notin Real => Visible(s, p)' \subseteq Visible(s, p)
         /\ s = s0 => a \notin Visible(s, p)'
         /\ (a \in Real => a[1] # p) /\ (b \in Real => b[1] # p)
              => Visible(s, p)' = Visible(s, p)
<1>1. \A n \in Real : n \in Folders
  BY RealIs
<1>2. \A n \in Folders :
        dirs'[s][n] = IF s = s0 /\ n = a THEN NoFolder
                      ELSE IF s = s0 /\ n = b THEN dirs[s0][a] ELSE dirs[s][n]
  BY DEF Goes
<1>3. QED
  BY <1>1, <1>2 DEF Visible, There

LEMMA VisibleSame ==
  ASSUME UNCHANGED dirs, NEW s, NEW p PROVE Visible(s, p)' = Visible(s, p)
BY DEF Visible, There

\* A number that is planned is listed, in the one place for its scope.
LEMMA PlannedIs ==
  ASSUME NEW s, NEW p, Planned(s, p) # 0
  PROVE  \E k \in DOMAIN h.plan :
           /\ h.plan[k].scope = s
           /\ \E j \in DOMAIN h.plan[k].ordered : h.plan[k].ordered[j] = <<p, Planned(s, p)>>
<1> DEFINE last == {e \in Photographers \X (1..MaxSeq) : e[1] = p /\
                      \E k \in DOMAIN h.plan : h.plan[k].scope = s /\
                        \E i \in DOMAIN h.plan[k].ordered :
                          /\ h.plan[k].ordered[i] = e
                          /\ \A j \in DOMAIN h.plan[k].ordered :
                               h.plan[k].ordered[j][1] = p => j <= i}
           e == CHOOSE x \in last : TRUE
<1>1. Planned(s, p) = IF last = {} THEN 0 ELSE e[2]
  BY DEF Planned
<1>2. last # {} /\ Planned(s, p) = e[2]
  BY <1>1
<1>3. e \in last
  <2> HIDE DEF last
  <2>1. QED
    BY <1>2
<1>4. e \in Photographers \X (1..MaxSeq) /\ e[1] = p
      /\ \E k \in DOMAIN h.plan : /\ h.plan[k].scope = s
                                  /\ \E i \in DOMAIN h.plan[k].ordered : h.plan[k].ordered[i] = e
  <2> HIDE DEF e
  <2>1. QED
    BY <1>3
<1>5. e = <<p, Planned(s, p)>>
  <2> HIDE DEF e, last
  <2>1. QED
    BY <1>2, <1>4
<1> HIDE DEF e, last
<1>6. QED
  BY <1>4, <1>5

LEMMA PlannedSame ==
  ASSUME h'.plan = h.plan, NEW s, NEW p PROVE Planned(s, p)' = Planned(s, p)
BY DEF Planned

\* While the handler runs, no import into a whole folder is under way.
LEMMA WholeIsQuiet ==
  ASSUME IShape, h.at # "idle", NEW m \in Imports, Whole(ScopeOf[m], ByOf[m])
  PROVE  ~InFlight(m)
BY DEF IShape, Shape, SplitShape, Split, Whole

LEMMA RoutedIfQuiet == ASSUME NEW m, ~InFlight(m) PROVE Routed(m)
BY DEF Routed, InFlight

\* It is enough to look at each photographer's folder.
LEMMA EachIsEnough ==
  ASSUME IShape, OneEach, h.at # "idle", UNCHANGED <<imp, split>>,
         \A s \in Scopes, p \in Photographers : Whole(s, p) /\ EachOf(s, p) => EachOf(s, p)'
  PROVE  OneEach'
<1>1. \A s \in Scopes, p \in Photographers : Whole(s, p)' => Whole(s, p)
  BY DEF Whole
<1>2. \A s \in Scopes, p \in Photographers : Whole(s, p)' => EachOf(s, p)'
  BY <1>1 DEF OneEach
<1>3. ASSUME NEW m \in Imports, Whole(ScopeOf[m], ByOf[m])' PROVE Routed(m)'
  <2>1. ~InFlight(m)
    BY <1>3, WholeIsQuiet DEF Whole
  <2>2. ~InFlight(m)'
    BY <2>1 DEF InFlight
  <2>3. QED
    BY <2>2 DEF Routed, InFlight
<1>4. QED
  BY <1>2, <1>3 DEF OneEach

\* A whole photographer is listed once.
LEMMA ListedOnce ==
  ASSUME IShape, h.at \in InDir, NEW i \in DOMAIN Ordered, NEW j \in DOMAIN Ordered,
         Ordered[i][1] = Ordered[j][1], Whole(Scope, Ordered[i][1])
  PROVE  i = j
<1>1. Numbered(h.plan) /\ h.k \in DOMAIN h.plan
  BY DEF IShape, Shape, SplitShape, HandlerShape, InDir, Renaming
<1>2. QED
  BY <1>1 DEF Numbered, Whole, Scope, Ordered

\* The scopes of a plan are distinct.
LEMMA OtherScope ==
  ASSUME IShape, h.at \in InDir, NEW k \in DOMAIN h.plan, h.plan[k].scope = Scope
  PROVE  k = h.k
<1>1. h.plan \in Plans /\ h.k \in DOMAIN h.plan
  BY AtScope DEF IShape, Shape
<1>2. QED
  BY <1>1, PlansAre DEF Scope

\* The handler's step leaves the folder alone and what it knows about it.
LEMMA EachSame ==
  ASSUME NEW s \in Scopes, NEW p \in Photographers, seqs'[s][p] = seqs[s][p],
         Visible(s, p)' = Visible(s, p), One(s, p), PlainOnly(s, p)
  PROVE  One(s, p)' /\ PlainOnly(s, p)'
BY DEF One, PlainOnly


LEMMA PlacedStays ==
  ASSUME IShape, h.at \in InDir, h'.plan = h.plan, h'.k = h.k,
         h'.at \in InDir \/ (h'.at = "remap" /\ ~h'.ok),
         h'.at \in {"scan", "move", "place"} => h.at \in {"scan", "move", "place"},
         NEW s \in Scopes, NEW p \in Photographers, Placed(s, p),
         s # Scope => Visible(s, p)' \subseteq Visible(s, p)
  PROVE  Placed(s, p)'
<1>1. CASE h'.at \in {"scan", "move", "place"}
  <2>1. ASSUME NEW k \in DOMAIN h.plan, k < h.k, h.plan[k].scope = s PROVE AsPlanned(s, p)'
    <3>1. h.k \in Nat
      BY AtScope DEF IShape, Shape
    <3>2. s # Scope
      BY <2>1, <3>1, OtherScope
    <3>3. AsPlanned(s, p)
      BY <1>1, <2>1 DEF Placed
    <3>4. QED
      BY <3>2, <3>3, PlannedSame DEF AsPlanned
  <2>2. QED
    BY <1>1, <2>1 DEF Placed
<1>2. CASE h'.at \notin {"scan", "move", "place"}
  BY <1>2 DEF Placed, InDir, Renaming
<1>3. QED
  BY <1>1, <1>2

LEMMA EachScan ==
  ASSUME IShape, OneEach, Scan, NEW s \in Scopes, NEW p \in Photographers, Whole(s, p), EachOf(s, p)
  PROVE  EachOf(s, p)'
<1>1. /\ SameScope /\ UNCHANGED dirs /\ h.at = "scan" /\ h.i \in DOMAIN Ordered
      /\ h'.moved = h.moved /\ h'.done = h.done /\ h.at \in InDir /\ h.i \in Nat
      /\ h'.at \in {"scan", "move", "remap"} /\ (h'.at = "remap" => ~h'.ok)
      /\ DOMAIN Ordered \subseteq Nat
  BY ScanIs, AtScope DEF Fails, InDir, Renaming, IShape, Shape
<1>2. Visible(s, p)' = Visible(s, p)
  BY <1>1, VisibleSame
<1>3. One(s, p)' /\ PlainOnly(s, p)'
  BY <1>1, <1>2, EachSame DEF EachOf, SameScope, Records
<1>4. Gone(s, p)' /\ Restorable(s, p)'
  BY <1>1, <1>2 DEF Gone, Restorable, EachOf, SameScope, Records, InDir, Renaming
<1>5. Placed(s, p)'
  BY <1>1, <1>2, PlacedStays DEF EachOf, SameScope, InDir, Renaming
<1>6. Scanned(s, p)'
  <2>1. SUFFICES ASSUME h'.at \in {"scan", "move"}, s = Scope, NEW j \in DOMAIN Ordered,
                        Ordered[j][1] = p, j < h'.i
                 PROVE  /\ Visible(s, p) \subseteq {Ordered[j]}
                        /\ \A x \in DOMAIN h.moved : h.moved[x].to[1] = p => h.moved[x].to = Ordered[j]
    BY <1>1, <1>2 DEF Scanned, SameScope
  <2>2. CASE j < h.i
    BY <1>1, <2>1, <2>2 DEF EachOf, Scanned
  <2>3. CASE ~(j < h.i)
    <3>1. /\ h'.at = "scan" /\ h'.i = h.i + 1
          /\ Visible(Scope, Entry[1]) = {} \/ Entry \in Visible(Scope, Entry[1])
      BY <2>1, <2>3, ScanIs DEF Fails
    <3>2. j = h.i
      BY <1>1, <2>1, <2>3, <3>1
    <3>3. Ordered[j] = Entry
      BY <3>2 DEF Entry
    <3>4. Visible(s, p) \subseteq {Ordered[j]}
      BY <2>1, <3>1, <3>3 DEF EachOf, One
    <3>5. ASSUME NEW x \in DOMAIN h.moved, h.moved[x].to[1] = p PROVE h.moved[x].to = Ordered[j]
      <4>1. PICK l \in DOMAIN Ordered : h.moved[x].to = Ordered[l]
        BY <1>1 DEF MovedShape, IShape, Shape
      <4>2. l = j
        BY <1>1, <2>1, <3>5, <4>1, ListedOnce
      <4>3. QED
        BY <4>1, <4>2
    <3>6. QED
      BY <3>4, <3>5
  <2>4. QED
    BY <2>2, <2>3
<1>7. QED
  BY <1>3, <1>4, <1>5, <1>6 DEF EachOf

LEMMA EachToTemp ==
  ASSUME IShape, OneEach, ToTemp, NEW s \in Scopes, NEW p \in Photographers, Whole(s, p), EachOf(s, p)
  PROVE  EachOf(s, p)'
<1> DEFINE tmp == <<runs, Entry[2]>>
<1>1. /\ SameScope /\ UNCHANGED mishaps /\ h.at = "move" /\ h.at \in InDir
      /\ h.i \in DOMAIN Ordered /\ Ordered[h.i] = Entry /\ Entry \in Real
      /\ tmp \in Temp /\ h.cur \in Real /\ h.cur[1] = Entry[1] /\ There(Scope, h.cur)
      /\ h.done = 0 /\ h'.done = 0 /\ h.i \in Nat /\ DOMAIN Ordered \subseteq Nat
      /\ Scope \in Scopes /\ tmp \in Folders /\ h.cur \in Folders /\ tmp \notin Real
      /\ DOMAIN h.moved \subseteq Nat \ {0}
  <2>1. h.at = "move" /\ h.at \in InDir
    BY ToTempIs DEF InDir, Renaming
  <2>2. DOMAIN h.moved \subseteq Nat \ {0}
    BY <2>1, MovedTypes DEF IShape, Shape
  <2>3. QED
    BY <2>1, <2>2, ToTempIs, AtScope, RealIs DEF IShape, Shape
<1> HIDE DEF tmp
<1>2. CASE UNCHANGED dirs /\ h'.at = "back" /\ h'.moved = h.moved
  <2>1. Visible(s, p)' = Visible(s, p)
    BY <1>2, VisibleSame
  <2>2. One(s, p)' /\ PlainOnly(s, p)'
    BY <1>1, <2>1, EachSame DEF EachOf, SameScope, Records
  <2>3. Gone(s, p)' /\ Restorable(s, p)' /\ Scanned(s, p)'
    BY <1>1, <1>2, <2>1
    DEF Gone, Restorable, Scanned, EachOf, SameScope, Records, InDir, Renaming
  <2>4. Placed(s, p)'
    BY <1>1, <1>2, <2>1, PlacedStays DEF EachOf, SameScope, InDir, Renaming
  <2>5. QED
    BY <2>2, <2>3, <2>4 DEF EachOf
<1>3. CASE /\ Goes(Scope, h.cur, tmp) /\ h'.at = "scan" /\ h'.i = h.i + 1
           /\ \E last \in Nat \ DOMAIN h.moved :
                /\ DOMAIN h'.moved = DOMAIN h.moved \union {last} /\ last > 0
                /\ h'.moved[last] = [from |-> h.cur, tmp |-> tmp, to |-> Entry]
                /\ \A x \in DOMAIN h.moved : h'.moved[x] = h.moved[x]
  <2>1. PICK last \in Nat \ DOMAIN h.moved :
                /\ DOMAIN h'.moved = DOMAIN h.moved \union {last} /\ last > 0
                /\ h'.moved[last] = [from |-> h.cur, tmp |-> tmp, to |-> Entry]
                /\ \A x \in DOMAIN h.moved : h'.moved[x] = h.moved[x]
    BY <1>3
  <2>2. /\ Visible(s, p)' \subseteq Visible(s, p)
        /\ s = Scope => h.cur \notin Visible(s, p)'
        /\ s # Scope \/ p # Entry[1] => Visible(s, p)' = Visible(s, p)
    BY <1>1, <1>3, VisibleGoes
  <2>3. h'.moved[last].from = h.cur /\ h'.moved[last].to = Entry
    BY <2>1
  <2>4. One(s, p)' /\ PlainOnly(s, p)'
    BY <1>1, <2>2 DEF One, PlainOnly, EachOf, SameScope, Records
  <2>5. Placed(s, p)'
    BY <1>1, <1>3, <2>2, PlacedStays DEF EachOf, SameScope, InDir, Renaming
  <2>6. CASE s = Scope /\ p = Entry[1]
    <3>1. h.cur \in Visible(s, p)
      BY <1>1, <2>6 DEF Visible
    <3>2. Visible(s, p)' = {}
      BY <2>2, <2>6, <3>1 DEF EachOf, One
    <3>3. \A x \in DOMAIN h.moved : h.moved[x].to[1] # p
      BY <1>1, <2>6, <3>1 DEF EachOf, Gone, Renaming
    <3>4. Gone(s, p)'
      BY <2>1, <3>2, <3>3 DEF Gone
    <3>5. Restorable(s, p)'
      <4>1. seqs[s][p] # 0 => h.cur # <<p, 0>>
        BY <3>1 DEF EachOf, PlainOnly
      <4>2. \A x \in DOMAIN h.moved : seqs[s][p] # 0 => h.moved[x].from # <<p, 0>>
        BY <1>1, <2>6 DEF EachOf, Restorable
      <4>3. QED
        BY <1>1, <2>1, <2>3, <4>1, <4>2 DEF Restorable, SameScope, Records
    <3>6. Scanned(s, p)'
      <4>1. ASSUME NEW j \in DOMAIN Ordered, Ordered[j][1] = p PROVE Ordered[j] = Entry
        <5>1. j = h.i
          BY <1>1, <2>6, <4>1, ListedOnce
        <5>2. QED
          BY <1>1, <5>1
      <4>2. \A x \in DOMAIN h'.moved : h'.moved[x].to[1] = p => h'.moved[x].to = Entry
        BY <2>1, <2>3, <3>3
      <4>3. QED
        BY <1>1, <3>2, <4>1, <4>2 DEF Scanned, SameScope
    <3>7. QED
      BY <2>4, <2>5, <3>4, <3>5, <3>6 DEF EachOf
  <2>7. CASE s # Scope
    <3>1. Gone(s, p)' /\ Restorable(s, p)' /\ Scanned(s, p)'
      BY <1>1, <2>7 DEF Gone, Restorable, Scanned, SameScope
    <3>2. QED
      BY <2>4, <2>5, <3>1 DEF EachOf
  <2>8. CASE s = Scope /\ p # Entry[1]
    <3>1. Visible(s, p)' = Visible(s, p)
      BY <2>2, <2>8
    <3>2. \A x \in DOMAIN h'.moved :
             h'.moved[x].to[1] = p => x \in DOMAIN h.moved /\ h'.moved[x] = h.moved[x]
      BY <2>1, <2>3, <2>8
    <3>3. Gone(s, p)'
      BY <1>1, <3>1, <3>2, <2>8 DEF Gone, EachOf, Renaming
    <3>4. Restorable(s, p)'
      <4>1. h.cur # <<p, 0>>
        BY <1>1, <2>8
      <4>2. \A x \in DOMAIN h.moved : seqs[s][p] # 0 => h.moved[x].from # <<p, 0>>
        BY <1>1, <2>8 DEF EachOf, Restorable
      <4>3. QED
        BY <1>1, <2>1, <2>3, <4>1, <4>2 DEF Restorable, SameScope, Records
    <3>5. Scanned(s, p)'
      <4>1. \A j \in DOMAIN Ordered : Ordered[j][1] = p /\ j < h'.i => j < h.i
        <5>1. ASSUME NEW j \in DOMAIN Ordered, Ordered[j][1] = p, j < h'.i PROVE j < h.i
          <6>1. j # h.i
            BY <1>1, <2>8, <5>1
          <6>2. QED
            BY <1>1, <1>3, <5>1, <6>1
        <5>2. QED
          BY <5>1
      <4>2. \A j \in DOMAIN Ordered : Ordered[j][1] = p /\ j < h.i =>
              /\ Visible(s, p) \subseteq {Ordered[j]}
              /\ \A x \in DOMAIN h.moved : h.moved[x].to[1] = p => h.moved[x].to = Ordered[j]
        BY <1>1, <2>8 DEF EachOf, Scanned
      <4>3. QED
        BY <1>1, <1>3, <3>1, <3>2, <4>1, <4>2 DEF Scanned, SameScope
    <3>6. QED
      BY <2>4, <2>5, <3>3, <3>4, <3>5 DEF EachOf
  <2>9. QED
    BY <2>6, <2>7, <2>8
<1>4. QED
  BY <1>2, <1>3, ToTempIs DEF tmp


\* A step that leaves the folders as they are, in the same scope.
LEMMA EachStill ==
  ASSUME IShape, SameScope, UNCHANGED dirs, h.at \in InDir, h'.done = h.done,
         h'.at \in InDir \ {"scan", "move", "place"} \/ (h'.at = "remap" /\ ~h'.ok),
         h'.at = "back" => h.at \in Renaming,
         \A x \in DOMAIN h'.moved : x \in DOMAIN h.moved /\ h'.moved[x] = h.moved[x],
         NEW s \in Scopes, NEW p \in Photographers, EachOf(s, p)
  PROVE  EachOf(s, p)'
<1>1. Visible(s, p)' = Visible(s, p)
  BY VisibleSame
<1>2. One(s, p)' /\ PlainOnly(s, p)'
  BY <1>1, EachSame DEF EachOf, SameScope, Records
<1>3. h'.at \notin {"scan", "move", "place"}
  BY DEF InDir
<1>4. Gone(s, p)'
  BY <1>1, <1>3 DEF Gone, EachOf, SameScope, InDir, Renaming
<1>5. Restorable(s, p)'
  BY <1>1 DEF Restorable, EachOf, SameScope, Records
<1>6. Scanned(s, p)' /\ Placed(s, p)'
  BY <1>3 DEF Scanned, Placed, InDir, Renaming
<1>7. QED
  BY <1>2, <1>4, <1>5, <1>6 DEF EachOf

LEMMA EachBack ==
  ASSUME IShape, OneEach, Back, NEW s \in Scopes, NEW p \in Photographers, Whole(s, p), EachOf(s, p)
  PROVE  EachOf(s, p)'
<1>1. SameScope /\ h.at = "back" /\ h.at \in InDir /\ h.at \in Renaming /\ h.done = 0
      /\ Scope \in Scopes
  BY BackIs, AtScope DEF InDir, Renaming, IShape, Shape
<1>2. CASE h.moved = << >> /\ Fails /\ UNCHANGED dirs
  BY <1>1, <1>2, EachStill DEF Fails
<1>3. ASSUME NEW last \in DOMAIN h.moved, h'.at = "back", h'.done = 0,
             DOMAIN h'.moved = DOMAIN h.moved \ {last},
             \A x \in DOMAIN h'.moved : h'.moved[x] = h.moved[x]
      PROVE  (Goes(Scope, h.moved[last].tmp, h.moved[last].from) \/ UNCHANGED dirs)
               => EachOf(s, p)'
  <2> DEFINE r == h.moved[last]
  <2>1. /\ r.tmp \in Temp /\ r.from \in Real /\ r.tmp \in Folders /\ r.from \in Folders
        /\ r.tmp \notin Real /\ r.from[1] = r.to[1] /\ last > 0
    BY <1>1, MovedTypes, RealIs DEF IShape, Shape
  <2>2. CASE UNCHANGED dirs
    BY <1>1, <1>3, <2>2, EachStill DEF InDir, Renaming
  <2> HIDE DEF r
  <2>3. CASE Goes(Scope, r.tmp, r.from)
    <3>1. /\ Visible(s, p)' \subseteq Visible(s, p) \union {r.from}
          /\ s # Scope \/ p # r.from[1] => Visible(s, p)' = Visible(s, p)
      BY <1>1, <2>1, <2>3, VisibleGoes
    <3>2. Restorable(s, p)'
      BY <1>1, <1>3 DEF Restorable, EachOf, SameScope, Records, InDir, Renaming
    <3>3. Scanned(s, p)' /\ Placed(s, p)'
      BY <1>3 DEF Scanned, Placed, InDir, Renaming
    <3>4. CASE s # Scope \/ p # r.from[1]
      <4>1. Visible(s, p)' = Visible(s, p)
        BY <3>1, <3>4
      <4>2. One(s, p)' /\ PlainOnly(s, p)'
        BY <1>1, <4>1, EachSame DEF EachOf, SameScope, Records
      <4>3. Gone(s, p)'
        BY <1>1, <1>3, <4>1 DEF Gone, EachOf, SameScope
      <4>4. QED
        BY <3>2, <3>3, <4>2, <4>3 DEF EachOf
    <3>5. CASE s = Scope /\ p = r.from[1]
      <4>1. r.to[1] = p
        BY <2>1, <3>5
      <4>2. Visible(s, p) = {} /\ \A x \in DOMAIN h.moved : h.moved[x].to[1] = p => x = last
        BY <1>1, <2>1, <3>5, <4>1 DEF Gone, EachOf, r
      <4>3. Visible(s, p)' \subseteq {r.from}
        BY <3>1, <4>2
      <4>4. seqs[s][p] # 0 => r.from # <<p, 0>>
        BY <1>1, <3>5 DEF Restorable, EachOf, r
      <4>5. One(s, p)' /\ PlainOnly(s, p)'
        BY <1>1, <4>3, <4>4 DEF One, PlainOnly, SameScope, Records
      <4>6. Gone(s, p)'
        BY <1>3, <4>2 DEF Gone
      <4>7. QED
        BY <3>2, <3>3, <4>5, <4>6 DEF EachOf
    <3>6. QED
      BY <3>4, <3>5
  <2>4. QED
    BY <2>2, <2>3 DEF r
<1>4. QED
  BY <1>2, <1>3, BackIs

LEMMA EachEndOfPhase1 ==
  ASSUME IShape, OneEach, EndOfPhase1,
         NEW s \in Scopes, NEW p \in Photographers, Whole(s, p), EachOf(s, p)
  PROVE  EachOf(s, p)'
<1>1. /\ SameScope /\ UNCHANGED dirs /\ h.at = "scan" /\ h.i \notin DOMAIN Ordered
      /\ h'.at = "place" /\ h'.moved = h.moved /\ h'.done = h.done /\ h.at \in InDir
  BY EndOfPhase1Is DEF InDir, Renaming
<1>2. \A j \in DOMAIN Ordered : j < h.i
  <2>1. Ordered \in Seq(Photographers \X (1..MaxSeq)) /\ h.i \in Nat /\ h.i # 0
    BY <1>1, AtScope DEF IShape, Shape, HandlerShape
  <2>2. DOMAIN Ordered = 1..Len(Ordered) /\ Len(Ordered) \in Nat
    BY <2>1
  <2>3. QED
    BY <1>1, <2>1, <2>2
<1>3. Visible(s, p)' = Visible(s, p)
  BY <1>1, VisibleSame
<1>4. One(s, p)' /\ PlainOnly(s, p)'
  BY <1>1, <1>3, EachSame DEF EachOf, SameScope, Records
<1>5. Gone(s, p)' /\ Restorable(s, p)'
  BY <1>1, <1>3 DEF Gone, Restorable, EachOf, SameScope, Records, InDir, Renaming
<1>6. Scanned(s, p)'
  BY <1>1, <1>2, <1>3 DEF Scanned, EachOf, SameScope
<1>7. Placed(s, p)'
  BY <1>1, <1>3, PlacedStays DEF EachOf, SameScope, InDir, Renaming
<1>8. QED
  BY <1>4, <1>5, <1>6, <1>7 DEF EachOf

\* Phase 2 is done in the scope: the folder has the planned number.
LEMMA EachScopeDone ==
  ASSUME IShape, OneEach, Place, h.done = Len(h.moved),
         NEW s \in Scopes, NEW p \in Photographers, Whole(s, p), EachOf(s, p)
  PROVE  EachOf(s, p)'
<1>1. /\ UNCHANGED Records /\ UNCHANGED dirs /\ h.at = "place" /\ h.at \in InDir
      /\ h'.plan = h.plan /\ h'.moved = << >> /\ h'.i = 1 /\ DOMAIN h'.moved = {}
      /\ \/ h.k + 1 \in DOMAIN h.plan /\ h'.at = "scan" /\ h'.k = h.k + 1
         \/ h.k + 1 \notin DOMAIN h.plan /\ h'.at = "remap" /\ h'.k = h.k
  BY ScopeDoneIs DEF InDir, Renaming
<1>2. Visible(s, p)' = Visible(s, p)
  BY <1>1, VisibleSame
<1>3. One(s, p)' /\ PlainOnly(s, p)'
  BY <1>1, <1>2, EachSame DEF EachOf, Records
<1>4. Gone(s, p)' /\ Restorable(s, p)'
  BY <1>1 DEF Gone, Restorable
<1>5. h.plan \in Plans /\ h.k \in DOMAIN h.plan /\ h.k \in Nat
      /\ DOMAIN h.plan = 1..Len(h.plan) /\ Len(h.plan) \in Nat
  BY <1>1, AtScope, PlansAre DEF IShape, Shape
<1>6. Scanned(s, p)'
  <2>1. CASE h'.at = "scan"
    <3>1. h'.plan[h'.k].ordered \in Seq(Photographers \X (1..MaxSeq))
      BY <1>1, <1>5, <2>1, PlansAre
    <3>2. \A j \in DOMAIN Ordered' : ~(j < h'.i)
      BY <1>1, <3>1 DEF Ordered
    <3>3. QED
      BY <2>1, <3>2 DEF Scanned
  <2>2. CASE h'.at = "remap"
    BY <2>2 DEF Scanned
  <2>3. QED
    BY <1>1, <2>1, <2>2
<1>7. ASSUME NEW k \in DOMAIN h.plan, k < h.k + 1, h.plan[k].scope = s PROVE AsPlanned(s, p)
  <2>1. CASE k < h.k
    BY <1>1, <1>7, <2>1 DEF EachOf, Placed
  <2>2. CASE k = h.k
    <3>1. SUFFICES ASSUME Planned(s, p) # 0 PROVE Visible(s, p) \subseteq {<<p, Planned(s, p)>>}
      BY DEF AsPlanned
    <3>2. PICK l \in DOMAIN h.plan : /\ h.plan[l].scope = s
             /\ \E j \in DOMAIN h.plan[l].ordered : h.plan[l].ordered[j] = <<p, Planned(s, p)>>
      BY <3>1, PlannedIs
    <3>3. s = Scope /\ l = h.k
      BY <1>1, <1>7, <2>2, <3>2, OtherScope DEF Scope
    <3>4. PICK j \in DOMAIN Ordered : Ordered[j] = <<p, Planned(s, p)>>
      BY <3>2, <3>3 DEF Ordered
    <3>5. QED
      BY <1>1, <3>3, <3>4 DEF EachOf, Scanned
  <2>3. QED
    BY <1>5, <1>7, <2>1, <2>2
<1>8. Placed(s, p)'
  <2>1. AsPlanned(s, p) => AsPlanned(s, p)'
    BY <1>1, <1>2, PlannedSame DEF AsPlanned
  <2>2. CASE h'.at = "scan"
    BY <1>1, <1>7, <2>1, <2>2 DEF Placed
  <2>3. CASE h'.at = "remap"
    <3>1. \A k \in DOMAIN h.plan : k < h.k + 1
      BY <1>1, <1>5, <2>3
    <3>2. AsPlanned(s, p)
      <4>1. CASE Planned(s, p) = 0
        BY <4>1 DEF AsPlanned
      <4>2. CASE Planned(s, p) # 0
        BY <1>7, <3>1, <4>2, PlannedIs
      <4>3. QED
        BY <4>1, <4>2
    <3>3. QED
      BY <2>1, <2>3, <3>2 DEF Placed
  <2>4. QED
    BY <1>1, <2>2, <2>3
<1>9. QED
  BY <1>3, <1>4, <1>6, <1>8 DEF EachOf

LEMMA EachPlace ==
  ASSUME IShape, OneEach, Place, h.done # Len(h.moved),
         NEW s \in Scopes, NEW p \in Photographers, Whole(s, p), EachOf(s, p)
  PROVE  EachOf(s, p)'
<1> DEFINE r == h.moved[h.done + 1]
<1>1. /\ SameScope /\ h.at = "place" /\ h.at \in InDir /\ h'.moved = h.moved
      /\ h.done + 1 \in DOMAIN h.moved /\ h.done \in Nat /\ Scope \in Scopes
      /\ DOMAIN h.moved \subseteq Nat
  <2>1. h.at = "place" /\ h.at \in InDir
    BY PlaceIs DEF InDir, Renaming
  <2>2. DOMAIN h.moved \subseteq Nat
    BY <2>1, MovedTypes DEF IShape, Shape
  <2>3. QED
    BY <2>1, <2>2, PlaceIs, AtScope DEF IShape, Shape
<1>2. /\ r.tmp \in Folders /\ r.to \in Folders /\ r.tmp \notin Real /\ r.to \in Real
      /\ \E j \in DOMAIN Ordered : r.to = Ordered[j]
  BY <1>1, MovedTypes, RealIs DEF IShape, Shape, MovedShape
<1> HIDE DEF r
<1>3. CASE UNCHANGED dirs /\ h'.at = "undo" /\ h'.done = h.done
  BY <1>1, <1>3, EachStill DEF InDir, Renaming
<1>4. CASE Goes(Scope, r.tmp, r.to) /\ h'.at = "place" /\ h'.done = h.done + 1
  <2>1. /\ Visible(s, p)' \subseteq Visible(s, p) \union {r.to}
        /\ s # Scope \/ p # r.to[1] => Visible(s, p)' = Visible(s, p)
    BY <1>1, <1>2, <1>4, VisibleGoes
  <2>2. Restorable(s, p)'
    BY <1>1, <1>4 DEF Restorable, EachOf, SameScope, Records, InDir, Renaming
  <2>3. Placed(s, p)'
    BY <1>1, <1>4, <2>1, PlacedStays DEF EachOf, SameScope, InDir, Renaming
  <2>4. \A x \in DOMAIN h.moved : x > h'.done => x > h.done
    BY <1>1, <1>4
  <2>5. CASE s # Scope \/ p # r.to[1]
    <3>1. Visible(s, p)' = Visible(s, p)
      BY <2>1, <2>5
    <3>2. One(s, p)' /\ PlainOnly(s, p)'
      BY <1>1, <3>1, EachSame DEF EachOf, SameScope, Records
    <3>3. Gone(s, p)'
      BY <1>1, <1>4, <2>4, <3>1 DEF Gone, EachOf, SameScope, Renaming
    <3>4. Scanned(s, p)'
      BY <1>1, <1>4, <3>1 DEF Scanned, EachOf, SameScope
    <3>5. QED
      BY <2>2, <2>3, <3>2, <3>3, <3>4 DEF EachOf
  <2>6. CASE s = Scope /\ p = r.to[1]
    <3>1. Visible(s, p) = {} /\ \A x \in DOMAIN h.moved : h.moved[x].to[1] = p => x = h.done + 1
      <4>1. h.done + 1 > h.done
        BY <1>1
      <4>2. QED
        BY <1>1, <2>6, <4>1 DEF Gone, EachOf, Renaming, r
    <3>2. Visible(s, p)' \subseteq {r.to}
      BY <2>1, <3>1
    <3>3. r.to # <<p, 0>>
      <4>1. PICK j \in DOMAIN Ordered : r.to = Ordered[j]
        BY <1>2
      <4>2. Ordered[j][2] \in 1..MaxSeq
        BY <1>1, AtScope DEF IShape, Shape
      <4>3. QED
        BY <4>1, <4>2, SequenceRenameConstants
    <3>4. One(s, p)' /\ PlainOnly(s, p)'
      BY <3>2, <3>3 DEF One, PlainOnly
    <3>5. Gone(s, p)'
      <4>1. \A x \in DOMAIN h.moved : h.moved[x].to[1] = p => ~(x > h'.done)
        BY <1>1, <1>4, <3>1
      <4>2. QED
        BY <1>1, <3>1, <4>1 DEF Gone
    <3>6. Scanned(s, p)'
      <4>1. \A j \in DOMAIN Ordered : Ordered[j][1] = p =>
               \A x \in DOMAIN h.moved : h.moved[x].to[1] = p => h.moved[x].to = Ordered[j]
        BY <1>1, <2>6 DEF Scanned, EachOf
      <4>2. \A j \in DOMAIN Ordered : Ordered[j][1] = p => r.to = Ordered[j]
        BY <1>1, <2>6, <4>1 DEF r
      <4>3. QED
        BY <1>1, <3>2, <4>1, <4>2 DEF Scanned, SameScope
    <3>7. QED
      BY <2>2, <2>3, <3>4, <3>5, <3>6 DEF EachOf
  <2>7. QED
    BY <2>5, <2>6
<1>5. QED
  BY <1>3, <1>4, PlaceIs DEF r

LEMMA EachUndo ==
  ASSUME IShape, OneEach, Undo, NEW s \in Scopes, NEW p \in Photographers, Whole(s, p), EachOf(s, p)
  PROVE  EachOf(s, p)'
<1>1. SameScope /\ h.at = "undo" /\ h.at \in InDir /\ h'.moved = h.moved /\ Scope \in Scopes
  BY UndoIs, AtScope DEF InDir, Renaming, IShape, Shape
<1>2. CASE Fails /\ UNCHANGED dirs
  BY <1>1, <1>2, EachStill DEF Fails, InDir, Renaming
<1>3. CASE h.done \in DOMAIN h.moved /\ h'.at = "undo"
           /\ (\/ There(Scope, h.moved[h.done].to)
                  /\ Goes(Scope, h.moved[h.done].to, h.moved[h.done].from)
               \/ UNCHANGED dirs)
  <2> DEFINE r == h.moved[h.done]
  <2>1. /\ r.to \in Real /\ r.from \in Real /\ r.to \in Folders /\ r.from \in Folders
        /\ r.from[1] = r.to[1]
    BY <1>1, <1>3, MovedTypes, RealIs DEF IShape, Shape
  <2>2. Gone(s, p)' /\ Scanned(s, p)' /\ Placed(s, p)'
    BY <1>3 DEF Gone, Scanned, Placed, Renaming
  <2>3. Restorable(s, p)'
    BY <1>1, <1>3 DEF Restorable, EachOf, SameScope, Records
  <2>4. One(s, p)' /\ PlainOnly(s, p)'
    <3>1. CASE UNCHANGED dirs
      BY <1>1, <3>1, VisibleSame, EachSame DEF EachOf, SameScope, Records
    <3> HIDE DEF r
    <3>2. CASE There(Scope, r.to) /\ Goes(Scope, r.to, r.from)
      <4>1. /\ Visible(s, p)' \subseteq Visible(s, p) \union {r.from}
            /\ s = Scope => r.to \notin Visible(s, p)'
            /\ s # Scope \/ p # r.from[1] => Visible(s, p)' = Visible(s, p)
        BY <1>1, <2>1, <3>2, VisibleGoes
      <4>2. CASE s # Scope \/ p # r.from[1]
        BY <1>1, <4>1, <4>2, EachSame DEF EachOf, SameScope, Records
      <4>3. CASE s = Scope /\ p = r.from[1]
        <5>1. r.to \in Visible(s, p)
          BY <2>1, <3>2, <4>3 DEF Visible
        <5>2. Visible(s, p)' \subseteq {r.from}
          BY <4>1, <4>3, <5>1 DEF EachOf, One
        <5>3. seqs[s][p] # 0 => r.from # <<p, 0>>
          BY <1>1, <1>3, <4>3 DEF Restorable, EachOf, r
        <5>4. QED
          BY <1>1, <5>2, <5>3 DEF One, PlainOnly, SameScope, Records
      <4>4. QED
        BY <4>2, <4>3
    <3>3. QED
      BY <1>3, <3>1, <3>2 DEF r
  <2>5. QED
    BY <2>2, <2>3, <2>4 DEF EachOf
<1>4. QED
  BY <1>2, <1>3, UndoIs


\* The records: the folders stay; a step that ends the handler, or one towards the end.
LEMMA EachRecord ==
  ASSUME IShape, UNCHANGED dirs,
         \/ h'.at = "idle"
         \/ /\ h'.at \in {"sequences", "number", "read", "write"} /\ h'.plan = h.plan
            /\ h.at \in {"sequences", "number", "read", "write"} \/ (h.at = "remap" /\ h.ok),
         NEW s \in Scopes, NEW p \in Photographers, EachOf(s, p),
         UNCHANGED seqs \/ (AsPlanned(s, p) /\ seqs'[s][p] = Planned(s, p))
  PROVE  EachOf(s, p)'
<1>1. Visible(s, p)' = Visible(s, p)
  BY VisibleSame
<1>2. One(s, p)' /\ h'.at \notin InDir
  BY <1>1 DEF One, EachOf, InDir, Renaming
<1>3. PlainOnly(s, p)'
  <2>1. CASE UNCHANGED seqs
    BY <1>1, <2>1 DEF PlainOnly, EachOf
  <2>2. CASE AsPlanned(s, p) /\ seqs'[s][p] = Planned(s, p)
    BY <1>1, <2>2 DEF PlainOnly, AsPlanned
  <2>3. QED
    BY <2>1, <2>2
<1>4. Gone(s, p)' /\ Restorable(s, p)' /\ Scanned(s, p)'
  BY <1>2 DEF Gone, Restorable, Scanned, InDir, Renaming
<1>5. Placed(s, p)'
  <2>1. CASE h'.at = "idle"
    BY <2>1 DEF Placed
  <2>2. CASE h'.at # "idle"
    <3>1. AsPlanned(s, p) /\ h'.at \notin {"scan", "move", "place", "remap"} /\ h'.plan = h.plan
      BY <2>2 DEF EachOf, Placed
    <3>2. AsPlanned(s, p)'
      BY <1>1, <3>1, PlannedSame DEF AsPlanned
    <3>3. QED
      BY <3>1, <3>2 DEF Placed
  <2>3. QED
    BY <2>1, <2>2
<1>6. QED
  BY <1>2, <1>3, <1>4, <1>5 DEF EachOf

LEMMA EachRecords ==
  ASSUME IShape, OneEach, Remap \/ ReadSequences \/ WriteSequences \/ ReadManifest \/ WriteManifest,
         NEW s \in Scopes, NEW p \in Photographers, Whole(s, p), EachOf(s, p)
  PROVE  EachOf(s, p)'
<1>1. h \in Handler
  BY DEF IShape, SeqTypeOK
<1>2. CASE Remap
  <2>1. /\ UNCHANGED <<dirs, seqs>> /\ h.at = "remap"
        /\ h' = IF h.ok THEN [h EXCEPT !.at = "sequences"] ELSE Rest
    BY <1>2 DEF Remap
  <2>2. h'.at = "idle" \/ (h'.at = "sequences" /\ h'.plan = h.plan /\ h.ok)
    BY <1>1, <2>1 DEF Handler, Rest
  <2>3. QED
    BY <2>1, <2>2, EachRecord
<1>3. CASE WriteSequences
  <2>1. UNCHANGED dirs /\ h.at = "number" /\ AsPlanned(s, p)
    BY <1>3 DEF WriteSequences, EachOf, Placed
  <2>2. CASE /\ seqs' = [t \in Scopes |-> [q \in Photographers |-> Planned(t, q)]]
             /\ h' = [h EXCEPT !.at = "read"]
    <3>1. h'.at = "read" /\ h'.plan = h.plan /\ seqs'[s][p] = Planned(s, p)
      BY <1>1, <2>2 DEF Handler
    <3>2. QED
      BY <2>1, <3>1, EachRecord
  <2>3. CASE h' = Rest /\ UNCHANGED seqs
    BY <2>1, <2>3, EachRecord DEF Rest
  <2>4. QED
    BY <1>3, <2>2, <2>3 DEF WriteSequences
<1>4. CASE ReadManifest
  <2>1. UNCHANGED <<dirs, seqs>> /\ h.at = "read" /\ h' = [h EXCEPT !.at = "write"]
    BY <1>4 DEF ReadManifest, recordVars
  <2>2. h'.at = "write" /\ h'.plan = h.plan
    BY <1>1, <2>1 DEF Handler
  <2>3. QED
    BY <2>1, <2>2, EachRecord
<1>5. CASE WriteManifest
  BY <1>5, EachRecord DEF WriteManifest, Rest
<1>6. CASE ReadSequences
  <2>1. UNCHANGED <<dirs, seqs>> /\ h.at = "sequences"
        /\ (h' = [h EXCEPT !.at = "number"] \/ h' = Rest)
    BY <1>6 DEF ReadSequences, recordVars
  <2>2. h'.at = "idle" \/ (h'.at = "number" /\ h'.plan = h.plan)
    BY <1>1, <2>1 DEF Handler, Rest
  <2>3. QED
    BY <2>1, <2>2, EachRecord
<1>7. QED
  BY <1>2, <1>3, <1>4, <1>5, <1>6

LEMMA OneEachHandler == IShape /\ OneEach /\ HandlerStep => OneEach'
<1> SUFFICES ASSUME IShape, OneEach, HandlerStep PROVE OneEach'
  OBVIOUS
<1>1. h.at # "idle" /\ UNCHANGED <<imp, split>>
  BY DEF HandlerStep, Scan, ToTemp, Back, EndOfPhase1, Place, Undo, Remap, ReadSequences, WriteSequences,
         ReadManifest, WriteManifest
<1>2. ASSUME NEW s \in Scopes, NEW p \in Photographers, Whole(s, p), EachOf(s, p)
      PROVE  EachOf(s, p)'
  BY <1>2, EachScan, EachToTemp, EachBack, EachEndOfPhase1, EachScopeDone, EachPlace, EachUndo,
     EachRecords DEF HandlerStep
<1>3. QED
  BY <1>1, <1>2, EachIsEnough

LEMMA OneEachApply == ASSUME IShape, OneEach, NEW plan \in Plans, Apply(plan) PROVE OneEach'
<1>1. /\ UNCHANGED <<dirs, seqs, imp>> /\ h'.at = "scan" /\ h'.plan = plan /\ h'.k = 1
      /\ h'.i = 1 /\ h'.moved = << >> /\ DOMAIN h'.moved = {}
      /\ split \subseteq split' /\ Split' \subseteq split'
  BY DEF Apply, Rest, recordVars, SplitIfRunning
<1>2. ASSUME NEW s \in Scopes, NEW p \in Photographers, Whole(s, p)' PROVE EachOf(s, p)'
  <2>1. EachOf(s, p) /\ Visible(s, p)' = Visible(s, p)
    BY <1>1, <1>2, VisibleSame DEF OneEach, Whole
  <2>2. One(s, p)' /\ PlainOnly(s, p)'
    BY <1>1, <2>1, EachSame DEF EachOf
  <2>3. Gone(s, p)' /\ Restorable(s, p)'
    BY <1>1 DEF Gone, Restorable
  <2>4. plan[1].ordered \in Seq(Photographers \X (1..MaxSeq)) /\ DOMAIN plan = 1..Len(plan)
        /\ Len(plan) \in Nat
    BY PlansAre
  <2>5. \A j \in DOMAIN Ordered' : ~(j < 1)
    <3>1. Ordered' = plan[1].ordered
      BY <1>1 DEF Ordered
    <3>2. QED
      BY <2>4, <3>1
  <2>6. Scanned(s, p)'
    BY <1>1, <2>5 DEF Scanned
  <2>7. \A k \in DOMAIN plan : ~(k < 1)
    BY <2>4
  <2>8. Placed(s, p)'
    BY <1>1, <2>7 DEF Placed
  <2>9. QED
    BY <2>2, <2>3, <2>6, <2>8 DEF EachOf
<1>3. ASSUME NEW m \in Imports, Whole(ScopeOf[m], ByOf[m])' PROVE Routed(m)'
  <2>1. ~InFlight(m)'
    BY <1>1, <1>3 DEF Whole, Split
  <2>2. QED
    BY <2>1 DEF Routed, InFlight
<1>4. QED
  BY <1>2, <1>3 DEF OneEach

LEMMA OneEachAppEnds == IShape /\ OneEach /\ AppEnds => OneEach'
<1> SUFFICES ASSUME IShape, OneEach, AppEnds PROVE OneEach'
  OBVIOUS
<1>1. /\ UNCHANGED <<dirs, seqs, split>> /\ h' = Rest /\ h'.at = "idle"
      /\ imp' = [m \in Imports |->
                   IF InFlight(m) THEN [imp[m] EXCEPT !.at = "failed"] ELSE imp[m]]
  BY DEF AppEnds, recordVars, Rest
<1>2. ASSUME NEW s \in Scopes, NEW p \in Photographers, Whole(s, p)' PROVE EachOf(s, p)'
  BY <1>1, <1>2, EachRecord DEF OneEach, Whole
<1>3. ASSUME NEW m \in Imports PROVE ~InFlight(m)'
  <2>1. CASE InFlight(m)
    <3>1. imp'[m].at = "failed"
      BY <1>1, <2>1 DEF IShape, SeqTypeOK
    <3>2. QED
      BY <3>1 DEF InFlight
  <2>2. CASE ~InFlight(m)
    BY <1>1, <2>2 DEF InFlight
  <2>3. QED
    BY <2>1, <2>2
<1>4. \A m \in Imports : Routed(m)'
  BY <1>3 DEF Routed, InFlight
<1>5. QED
  BY <1>2, <1>4 DEF OneEach

LEMMA OneEachInit == SeqInit => OneEach
<1> SUFFICES ASSUME SeqInit PROVE OneEach
  OBVIOUS
<1>1. h.at = "idle" /\ \A m \in Imports : ~InFlight(m)
  BY DEF SeqInit, Rest, InFlight
<1>2. ASSUME NEW s \in Scopes, NEW p \in Photographers PROVE EachOf(s, p)
  <2>1. Visible(s, p) \subseteq {<<p, 0>>}
    <3>1. ASSUME NEW n \in Real, n[1] = p, There(s, n) PROVE n = <<p, 0>>
      <4>1. n \in Folders
        BY RealIs
      <4>2. {m \in Already : ScopeOf[m] = s /\ Plain(m) = n} # {}
        BY <3>1, <4>1 DEF SeqInit, There
      <4>3. PICK m \in Already : Plain(m) = n
        BY <4>2
      <4>4. QED
        BY <3>1, <4>3 DEF Plain
    <3>2. QED
      BY <3>1 DEF Visible
  <2>2. One(s, p)
    BY <2>1 DEF One
  <2>3. seqs[s][p] = 0
    BY DEF SeqInit
  <2>4. QED
    BY <1>1, <2>2, <2>3
    DEF EachOf, PlainOnly, Gone, Restorable, Scanned, Placed, InDir, Renaming
<1>3. QED
  BY <1>1, <1>2, RoutedIfQuiet DEF OneEach


\* A step of an import.
LEMMA EachImport ==
  ASSUME UNCHANGED h, NEW s \in Scopes, NEW p \in Photographers, EachOf(s, p),
         seqs'[s][p] = seqs[s][p],
         \/ Visible(s, p)' = Visible(s, p)
         \/ h.at = "idle" /\ One(s, p)' /\ PlainOnly(s, p)'
  PROVE  EachOf(s, p)'
<1>1. One(s, p)' /\ PlainOnly(s, p)'
  BY EachSame DEF EachOf
<1>2. Scope' = Scope /\ Ordered' = Ordered /\ Planned(s, p)' = Planned(s, p)
  BY PlannedSame DEF Scope, Ordered
<1>3. CASE Visible(s, p)' = Visible(s, p)
  <2>1. Gone(s, p)' /\ Restorable(s, p)'
    BY <1>2, <1>3 DEF Gone, Restorable, EachOf
  <2>2. Scanned(s, p)'
    BY <1>2, <1>3 DEF Scanned, EachOf
  <2>3. Placed(s, p)'
    BY <1>2, <1>3 DEF Placed, AsPlanned, EachOf
  <2>4. QED
    BY <1>1, <2>1, <2>2, <2>3 DEF EachOf
<1>4. CASE h.at = "idle"
  BY <1>1, <1>4 DEF EachOf, Gone, Restorable, Scanned, Placed, InDir, Renaming
<1>5. QED
  BY <1>3, <1>4

LEMMA RoutedSame ==
  ASSUME NEW m, Routed(m), imp'[m] = imp[m],
         seqs'[ScopeOf[m]][ByOf[m]] = seqs[ScopeOf[m]][ByOf[m]],
         Visible(ScopeOf[m], ByOf[m])' = Visible(ScopeOf[m], ByOf[m])
  PROVE  Routed(m)'
BY DEF Routed

\* An import that goes on, and the folders are as visible as they were.
LEMMA OneEachStill ==
  ASSUME IShape, OneEach, UNCHANGED h, split \subseteq split', NEW m \in Imports,
         \A s \in Scopes, p \in Photographers : Whole(s, p)' => seqs'[s][p] = seqs[s][p],
         \A s \in Scopes, p \in Photographers : Visible(s, p)' = Visible(s, p),
         \A k \in Imports : k # m => imp'[k] = imp[k],
         Whole(ScopeOf[m], ByOf[m])' => Routed(m)'
  PROVE  OneEach'
<1>1. \A s, p : Whole(s, p)' => Whole(s, p)
  BY DEF Whole
<1>2. ASSUME NEW s \in Scopes, NEW p \in Photographers, Whole(s, p)' PROVE EachOf(s, p)'
  BY <1>1, <1>2, EachImport DEF OneEach
<1>3. ASSUME NEW k \in Imports, Whole(ScopeOf[k], ByOf[k])' PROVE Routed(k)'
  <2>1. CASE k = m
    BY <1>1, <1>3, <2>1
  <2>2. CASE k # m
    <3>1. ScopeOf[k] \in Scopes /\ ByOf[k] \in Photographers
      BY SequenceRenameConstants
    <3>2. QED
      BY <1>1, <1>3, <2>2, <3>1, RoutedSame DEF OneEach
  <2>3. QED
    BY <2>1, <2>2
<1>4. QED
  BY <1>2, <1>3 DEF OneEach

LEMMA OneEachPlanImport ==
  ASSUME IShape, OneEach, NEW m \in Imports, PlanImport(m) PROVE OneEach'
<1>1. /\ UNCHANGED <<dirs, h, seqs>> /\ split \subseteq split'
      /\ imp' = [imp EXCEPT ![m] = [at |-> "planned",
                                    to |-> <<ByOf[m], seqs[ScopeOf[m]][ByOf[m]]>>]]
  BY DEF PlanImport, SplitIfRunning, recordVars
<1>2. imp'[m].at = "planned" /\ imp'[m].to = <<ByOf[m], seqs[ScopeOf[m]][ByOf[m]]>>
      /\ \A k \in Imports : k # m => imp'[k] = imp[k]
  BY <1>1 DEF IShape, SeqTypeOK
<1>3. Routed(m)'
  BY <1>1, <1>2 DEF Routed
<1>4. QED
  BY <1>1, <1>2, <1>3, VisibleSame, OneEachStill

\* The one sequenced folder of his, if the one the import is routed to is not there.
LEMMA OneEachResolve ==
  ASSUME IShape, OneEach, NEW m \in Imports, Resolve(m) PROVE OneEach'
<1> DEFINE s == ScopeOf[m]
           p == ByOf[m]
           found == {n \in Real : n[1] = p /\ n[2] # 0 /\ There(s, n)}
           to == IF ~There(s, imp[m].to) /\ Cardinality(found) = 1
                 THEN CHOOSE n \in found : TRUE ELSE imp[m].to
<1>1. /\ UNCHANGED <<dirs, h, seqs>> /\ split \subseteq split' /\ imp[m].at = "planned" /\ imp[m].to \in Real
      /\ imp[m].to[1] = p /\ s \in Scopes /\ p \in Photographers
      /\ \/ imp' = [imp EXCEPT ![m] = [at |-> "resolved", to |-> to]]
         \/ ~Whole(s, p)' /\ imp' = [imp EXCEPT ![m].at = "resolved"]
  BY SequenceRenameConstants DEF Resolve, recordVars, IShape, Shape, SplitShape, Whole
<1>2. ASSUME Whole(s, p) PROVE Visible(s, p) \subseteq {to} /\ (Visible(s, p) = {} => to = <<p, seqs[s][p]>>)
  <2>1. One(s, p) /\ PlainOnly(s, p) /\ imp[m].to = <<p, seqs[s][p]>>
    BY <1>1, <1>2 DEF OneEach, EachOf, Routed
  <2>2. CASE There(s, imp[m].to)
    <3>1. imp[m].to \in Visible(s, p)
      BY <1>1, <2>2 DEF Visible
    <3>2. to = imp[m].to
      BY <2>2
    <3> HIDE DEF to
    <3>3. QED
      BY <2>1, <3>1, <3>2 DEF One
  <2>3. CASE ~There(s, imp[m].to) /\ Visible(s, p) = {}
    <3>1. found = {}
      BY <2>3 DEF Visible
    <3>2. Cardinality(found) # 1
      BY <3>1, FS_EmptySet
    <3> HIDE DEF found
    <3>3. to = imp[m].to
      BY <3>2
    <3> HIDE DEF to
    <3>4. QED
      BY <2>1, <2>3, <3>3
  <2>4. CASE ~There(s, imp[m].to) /\ Visible(s, p) # {}
    <3>1. PICK v \in Visible(s, p) : TRUE
      BY <2>4
    <3>2. v # imp[m].to /\ v \in Real /\ v[1] = p /\ There(s, v) /\ v = <<v[1], v[2]>>
      BY <2>4, <3>1, RealIs DEF Visible
    <3>3. v[2] # 0
      <4>1. CASE seqs[s][p] = 0
        BY <2>1, <3>2, <4>1
      <4>2. CASE seqs[s][p] # 0
        BY <2>1, <3>1, <3>2, <4>2 DEF PlainOnly
      <4>3. QED
        BY <4>1, <4>2
    <3>4. \A n \in found : n = v
      BY <2>1, <3>1 DEF Visible, One
    <3>5. found = {v}
      BY <3>2, <3>3, <3>4
    <3> HIDE DEF found
    <3>6. Cardinality(found) = 1
      BY <3>5, FS_Singleton
    <3>7. to = v
      BY <2>4, <3>5, <3>6
    <3> HIDE DEF to
    <3>8. QED
      BY <2>1, <3>1, <3>7 DEF One
  <2>5. QED
    BY <2>2, <2>3, <2>4
<1> HIDE DEF to
<1>3. /\ Whole(s, p)' => imp'[m].at = "resolved" /\ imp'[m].to = to
      /\ \A k \in Imports : k # m => imp'[k] = imp[k]
  BY <1>1 DEF IShape, SeqTypeOK
<1>4. Whole(s, p)' => Routed(m)'
  <2>1. Visible(s, p)' = Visible(s, p)
    BY <1>1, VisibleSame
  <2>2. Whole(s, p)' => Whole(s, p)
    BY <1>1 DEF Whole
  <2>3. QED
    BY <1>1, <1>2, <1>3, <2>1, <2>2 DEF Routed
<1>5. QED
  BY <1>1, <1>3, <1>4, VisibleSame, OneEachStill

LEMMA OneEachMakeDir ==
  ASSUME IShape, OneEach, NEW m \in Imports, MakeDir(m) PROVE OneEach'
<1> DEFINE s == ScopeOf[m]
           p == ByOf[m]
           to == imp[m].to
<1>1. /\ UNCHANGED <<h, seqs, split>> /\ imp[m].at = "resolved" /\ to \in Real /\ to \in Folders
      /\ to[1] = p /\ s \in Scopes /\ p \in Photographers /\ SeqTypeOK /\ InFlight(m)
      /\ imp' = [imp EXCEPT ![m].at = "made"]
      /\ dirs' = IF There(s, to) THEN dirs ELSE [dirs EXCEPT ![s][to] = {}]
  BY SequenceRenameConstants, RealIs
  DEF MakeDir, recordVars, IShape, Shape, SplitShape, InFlight
<1>2. imp'[m].at = "made" /\ imp'[m].to = to /\ \A k \in Imports : k # m => imp'[k] = imp[k]
  BY <1>1 DEF SeqTypeOK
<1> HIDE DEF to
<1>3. \A t \in Scopes, n \in Folders : There(t, n)' <=> There(t, n) \/ (t = s /\ n = to)
  <2>1. CASE There(s, to)
    BY <1>1, <2>1 DEF There
  <2>2. CASE ~There(s, to)
    <3> DEFINE none == {}
    <3>1. none \in SUBSET Imports /\ dirs' = [dirs EXCEPT ![s][to] = none]
      BY <1>1, <2>2
    <3>2. none # NoFolder
      BY <3>1, NoFolderIsNone
    <3> HIDE DEF none
    <3>3. SeqTypeOK /\ s \in Scopes /\ to \in Folders
      BY <1>1
    <3>4. \A t \in Scopes, k \in Folders :
             dirs'[t][k] = IF t = s /\ k = to THEN none ELSE dirs[t][k]
      <4> HIDE DEF s
      <4>1. QED
        BY <3>1, <3>3, PutIs
    <3>5. QED
      BY <1>1, <3>2, <3>4 DEF There
  <2>3. QED
    BY <2>1, <2>2
<1>4. Visible(s, p)' = Visible(s, p) \union {to}
  BY <1>1, <1>3, RealIs DEF Visible
<1>5. \A t \in Scopes, q \in Photographers : ~(t = s /\ q = p) => Visible(t, q)' = Visible(t, q)
  <2>1. ASSUME NEW t \in Scopes, NEW q \in Photographers, ~(t = s /\ q = p)
        PROVE  Visible(t, q)' = Visible(t, q)
    <3>1. \A n \in Real : n[1] = q => (There(t, n)' <=> There(t, n))
      BY <1>1, <1>3, <2>1, RealIs
    <3>2. QED
      BY <3>1 DEF Visible
  <2>2. QED
    BY <2>1
<1>6. ASSUME Whole(s, p)
      PROVE  /\ h.at = "idle" /\ EachOf(s, p) /\ Visible(s, p) \subseteq {to}
             /\ Visible(s, p) = {} => to = <<p, seqs[s][p]>>
  <2>1. h.at = "idle"
    BY <1>1, <1>6, WholeIsQuiet
  <2>2. Routed(m) /\ EachOf(s, p)
    BY <1>1, <1>6 DEF OneEach
  <2>3. QED
    BY <1>1, <2>1, <2>2 DEF Routed, to
<1>7. ASSUME NEW t \in Scopes, NEW q \in Photographers, Whole(t, q)' PROVE EachOf(t, q)'
  <2>1. EachOf(t, q) /\ Whole(t, q)
    BY <1>1, <1>7 DEF OneEach, Whole
  <2>2. CASE t = s /\ q = p
    <3>1. One(s, p)'
      BY <1>4, <1>6, <2>1, <2>2 DEF One
    <3>2. PlainOnly(s, p)'
      <4>1. CASE Visible(s, p) = {}
        BY <1>1, <1>4, <1>6, <2>1, <2>2, <4>1 DEF PlainOnly
      <4>2. CASE Visible(s, p) # {}
        <5>1. Visible(s, p)' = Visible(s, p)
          BY <1>4, <1>6, <2>1, <2>2, <4>2
        <5>2. QED
          BY <1>1, <1>6, <2>1, <2>2, <5>1 DEF PlainOnly, EachOf
      <4>3. QED
        BY <4>1, <4>2
    <3>3. QED
      BY <1>1, <1>6, <2>1, <2>2, <3>1, <3>2, EachImport
  <2>3. CASE ~(t = s /\ q = p)
    BY <1>1, <1>5, <2>1, <2>3, EachImport
  <2>4. QED
    BY <2>2, <2>3
<1>8. ASSUME NEW k \in Imports, Whole(ScopeOf[k], ByOf[k])' PROVE Routed(k)'
  <2>1. Routed(k) /\ Whole(ScopeOf[k], ByOf[k]) /\ ScopeOf[k] \in Scopes /\ ByOf[k] \in Photographers
    BY <1>1, <1>8, SequenceRenameConstants DEF OneEach, Whole
  <2>2. CASE ~(ScopeOf[k] = s /\ ByOf[k] = p)
    <3>1. k # m
      BY <2>2
    <3>2. QED
      BY <1>1, <1>2, <1>5, <2>1, <2>2, <3>1, RoutedSame
  <2>3. CASE ScopeOf[k] = s /\ ByOf[k] = p /\ k = m
    BY <1>1, <1>2, <1>4, <1>6, <2>1, <2>3 DEF Routed
  <2>4. CASE ScopeOf[k] = s /\ ByOf[k] = p /\ k # m
    <3>1. imp'[k] = imp[k]
      BY <1>2, <2>4
    <3>2. CASE imp[k].at \in {"resolved", "made", "copied", "committed"}
      <4>1. Visible(s, p) \subseteq {imp[k].to} /\ (Visible(s, p) = {} => imp[k].to = <<p, seqs[s][p]>>)
        BY <2>1, <2>4, <3>2 DEF Routed
      <4>2. imp[k].to = to
        BY <1>6, <2>1, <2>4, <4>1
      <4>3. Visible(s, p)' \subseteq {imp[k].to} /\ Visible(s, p)' # {}
        BY <1>4, <4>1, <4>2
      <4>4. QED
        BY <2>4, <3>1, <3>2, <4>3 DEF Routed
    <3>3. CASE imp[k].at \notin {"resolved", "made", "copied", "committed"}
      BY <1>1, <2>1, <3>1, <3>3 DEF Routed
    <3>4. QED
      BY <3>2, <3>3
  <2>5. QED
    BY <2>2, <2>3, <2>4
<1>9. QED
  BY <1>7, <1>8 DEF OneEach

\* The later steps leave the folders as visible as they were, or cannot copy at all.
LEMMA OneEachLater ==
  ASSUME IShape, OneEach, NEW m \in Imports, CopyFiles(m) \/ CommitIntent(m) \/ AppendJob(m)
  PROVE  OneEach'
<1>1. /\ UNCHANGED h /\ split \subseteq split' /\ SeqTypeOK /\ imp[m].at \in {"made", "copied", "committed"}
      /\ imp[m].to \in Folders /\ ScopeOf[m] \in Scopes /\ ByOf[m] \in Photographers
      /\ UNCHANGED seqs \/ \A s \in Scopes, p \in Photographers :
           Whole(s, p)' => seqs'[s][p] = seqs[s][p]
  BY SequenceRenameConstants, RealIs
  DEF CopyFiles, CommitIntent, AppendJob, recordVars, IShape, Shape, SplitShape, Whole
<1>2. \E at \in {"copied", "committed", "done", "failed"} : imp' = [imp EXCEPT ![m].at = at]
  BY DEF CopyFiles, CommitIntent, AppendJob
<1>3. /\ imp'[m].to = imp[m].to /\ \A k \in Imports : k # m => imp'[k] = imp[k]
      /\ imp'[m].at \in {"copied", "committed", "done", "failed"}
  <2>1. PICK at \in {"copied", "committed", "done", "failed"} : imp' = [imp EXCEPT ![m].at = at]
    BY <1>2
  <2>2. QED
    BY <1>1, <2>1 DEF SeqTypeOK
<1>4. \A t \in Scopes, n \in Folders : There(t, n)' = There(t, n)
  <2>1. CASE UNCHANGED dirs
    BY <2>1 DEF There
  <2>2. CASE CopyFiles(m) /\ ~UNCHANGED dirs
    <3> DEFINE ms == dirs[ScopeOf[m]][imp[m].to] \union {m}
    <3>1. dirs' = [dirs EXCEPT ![ScopeOf[m]][imp[m].to] = ms]
          /\ There(ScopeOf[m], imp[m].to)
      BY <1>1, <2>2 DEF CopyFiles, SeqTypeOK
    <3>2. ms \in SUBSET Imports
      BY <1>1, <3>1 DEF SeqTypeOK, There
    <3>3. ms # NoFolder
      BY <3>2, NoFolderIsNone
    <3> HIDE DEF ms
    <3>4. \A t \in Scopes, k \in Folders :
             dirs'[t][k] = IF t = ScopeOf[m] /\ k = imp[m].to THEN ms ELSE dirs[t][k]
      BY <1>1, <3>1, <3>2, PutIs
    <3>5. QED
      BY <3>1, <3>3, <3>4 DEF There
  <2>3. QED
    BY <2>1, <2>2 DEF CommitIntent, AppendJob
<1>5. \A s \in Scopes, p \in Photographers : Visible(s, p)' = Visible(s, p)
  BY <1>4, RealIs DEF Visible
<1>6. Whole(ScopeOf[m], ByOf[m])' => Routed(m)'
  BY <1>1, <1>3, <1>5 DEF Routed, OneEach, Whole
<1>7. QED
  BY <1>1, <1>3, <1>5, <1>6, OneEachStill

LEMMA OneEachNext == IShape /\ OneEach /\ [SeqNext]_seqVars => OneEach'
<1> SUFFICES ASSUME IShape, OneEach, [SeqNext]_seqVars PROVE OneEach'
  OBVIOUS
<1>1. CASE \E m \in Imports : ImportStep(m)
  BY <1>1, OneEachPlanImport, OneEachResolve, OneEachMakeDir, OneEachLater DEF ImportStep
<1>2. CASE UNCHANGED seqVars
  <2>1. \A s \in Scopes, p \in Photographers : EachOf(s, p) => EachOf(s, p)'
    <3>1. \A s \in Scopes, p \in Photographers : Visible(s, p)' = Visible(s, p)
      BY <1>2, VisibleSame DEF seqVars
    <3>2. QED
      BY <1>2, <3>1, EachImport DEF seqVars
  <2>2. \A m \in Imports : Routed(m) => Routed(m)'
    BY <1>2, VisibleSame, RoutedSame DEF seqVars
  <2>3. QED
    BY <1>2, <2>1, <2>2 DEF OneEach, Whole, seqVars
<1>3. QED
  BY <1>1, <1>2, OneEachApply, OneEachHandler, OneEachAppEnds DEF SeqNext

LEMMA EachIsOne == SeqSpec => []OneEach
BY OneEachInit, OneEachNext, Shapely, PTL DEF SeqSpec

\* One photographer has one folder in a scope, whichever rename or record of the handler
\* fails and whenever the application ends, unless an import was routed to it while the
\* handler ran or without a look at the folders, or a commit wrote over its number.
THEOREM OneFolderCorrect == SeqSpec => []OneFolderEach
<1>1. OneEach => OneFolderEach
  <2>1. SUFFICES ASSUME OneEach, NEW s \in Scopes, NEW p \in Photographers, Whole(s, p)
                 PROVE  Cardinality(Visible(s, p)) <= 1
    BY DEF OneFolderEach, Whole, Visible
  <2>2. \A a, b \in Visible(s, p) : a = b
    BY <2>1 DEF OneEach, EachOf, One
  <2>3. CASE Visible(s, p) = {}
    BY <2>3, FS_EmptySet
  <2>4. CASE Visible(s, p) # {}
    <3>1. PICK n : Visible(s, p) = {n}
      BY <2>2, <2>4
    <3>2. Cardinality({n}) = 1
      BY FS_Singleton
    <3>3. QED
      BY <3>1, <3>2
  <2>5. QED
    BY <2>3, <2>4
<1>2. QED
  BY <1>1, EachIsOne, PTL


-----------------------------------------------------------------------------
(* The intent of an import follows its files                               *)

LEMMA HoldsStays ==
  ASSUME NEW s0 \in Scopes, NEW a \in Folders, NEW b \in Folders, Goes(s0, a, b),
         NEW m \in Imports, NEW n \in Folders, Holds(m, n), ScopeOf[m] # s0 \/ (n # a /\ n # b)
  PROVE  Holds(m, n)'
<1>1. ScopeOf[m] \in Scopes
  BY SequenceRenameConstants
<1>2. dirs'[ScopeOf[m]][n] = dirs[ScopeOf[m]][n]
  BY <1>1 DEF Goes
<1>3. QED
  BY <1>2 DEF Holds, There

LEMMA HoldsGoes ==
  ASSUME NEW m \in Imports, NEW a \in Folders, NEW b \in Folders, a # b, Goes(ScopeOf[m], a, b),
         Holds(m, a)
  PROVE  Holds(m, b)'
<1>1. ScopeOf[m] \in Scopes
  BY SequenceRenameConstants
<1>2. dirs'[ScopeOf[m]][b] = dirs[ScopeOf[m]][a]
  BY <1>1 DEF Goes
<1>3. QED
  BY <1>2 DEF Holds, There

\* No rename of an earlier scope is one of the scope the handler is at.
LEMMA RenamedElsewhere ==
  ASSUME IShape, h.at \in InDir, NEW m, ScopeOf[m] = Scope
  PROVE  RenamedFrom(m) = {}
<1>1. ASSUME NEW r \in h.renames, r[1] = Scope PROVE FALSE
  <2>1. PICK k \in DOMAIN h.plan : h.plan[k].scope = r[1] /\ k < h.k
    BY DEF RenamesShape, IShape, Shape
  <2>2. k = h.k /\ h.k \in Nat
    BY <1>1, <2>1, OtherScope, AtScope DEF IShape, Shape
  <2>3. QED
    BY <2>1, <2>2
<1>2. QED
  BY <1>1 DEF RenamedFrom

\* The files of an import are in a folder of its photographer that is seen.
LEMMA HoldsVisible ==
  ASSUME NEW m, Holds(m, intent[m]), intent[m] \in Real, intent[m][1] = ByOf[m]
  PROVE  intent[m] \in Visible(ScopeOf[m], ByOf[m])
BY DEF Holds, Visible

\* Files stay where they are, and so does the handler, as far as renames go.
LEMMA FollowedSame ==
  ASSUME IShape, NEW m \in Imports, Followed(m), intent'[m] = intent[m],
         h'.renames = h.renames, Scope' = Scope,
         Here(m) => h'.moved = h.moved /\ h'.done = h.done,
         h.at \in Renaming <=> h'.at \in Renaming,
         h.at \in InDir \union {"remap"} <=> h'.at \in InDir \union {"remap"},
         \A n \in Folders : Holds(m, n) => Holds(m, n)'
  PROVE  Followed(m)'
<1>1. Here(m)' <=> Here(m)
  BY DEF Here
<1>2. (Here(m) => MovedFrom(m)' = MovedFrom(m)) /\ RenamedFrom(m)' = RenamedFrom(m)
  BY DEF MovedFrom, RenamedFrom
<1>3. intent[m] \in Folders
  BY RealIs DEF Followed
<1>4. ASSUME Here(m), NEW x \in MovedFrom(m)
      PROVE  Holds(m, IF x <= h.done THEN h.moved[x].to ELSE h.moved[x].tmp)'
  <2>1. h.moved[x].to \in Folders /\ h.moved[x].tmp \in Folders
    BY <1>4, MovedTypes DEF Here, IShape, Shape, InDir, MovedFrom
  <2> DEFINE n == IF x <= h.done THEN h.moved[x].to ELSE h.moved[x].tmp
  <2>2. n \in Folders /\ Holds(m, n)
    BY <1>4, <2>1 DEF Followed
  <2>3. n' = n
    BY <1>4
  <2> HIDE DEF n
  <2>4. Holds(m, n)'
    BY <2>2, <2>3 DEF Holds, There
  <2>5. QED
    BY <2>4 DEF n
<1>5. ASSUME h.at \in InDir \union {"remap"}, NEW r \in RenamedFrom(m) PROVE Holds(m, r[3])'
  <2>1. r[3] \in Folders /\ Holds(m, r[3])
    BY <1>5, RealIs DEF RenamedFrom, RenamesShape, IShape, Shape, Followed
  <2>2. QED
    BY <2>1
<1>6. (Here(m) => MovedFrom(m) = {})
      /\ (h.at \in InDir \union {"remap"} => RenamedFrom(m) = {}) => Holds(m, intent[m])'
  <2>1. Holds(m, intent[m]) => Holds(m, intent[m])'
    BY <1>3 DEF Holds, There
  <2>2. QED
    BY <2>1 DEF Followed
<1>7. intent'[m] \in Real /\ intent'[m][1] = ByOf[m]
  BY DEF Followed
<1>8. QED
  BY <1>1, <1>2, <1>4, <1>5, <1>6, <1>7 DEF Followed


\* It is enough to look at the imports that are done, into whole folders.
LEMMA DoneIsEnough ==
  ASSUME IShape, Follows, h.at # "idle", UNCHANGED <<imp, split>>, mishaps \subseteq mishaps',
         \A m \in Imports :
           Whole(ScopeOf[m], ByOf[m]) /\ Followed(m) /\ mishaps' \intersect Cut = {} => Followed(m)'
  PROVE  Follows'
<1>1. \A m \in Imports : Whole(ScopeOf[m], ByOf[m])' => Whole(ScopeOf[m], ByOf[m])
  BY DEF Whole
<1>2. ASSUME NEW m \in Imports, Whole(ScopeOf[m], ByOf[m])'
      PROVE  imp'[m].at \notin {"copied", "committed"}
  BY <1>1, <1>2, WholeIsQuiet DEF InFlight
<1>3. mishaps' \intersect Cut = {} => mishaps \intersect Cut = {}
  OBVIOUS
<1>4. ASSUME NEW m \in Imports, Whole(ScopeOf[m], ByOf[m])', imp'[m].at = "done",
             mishaps' \intersect Cut = {}
      PROVE  Followed(m)'
  BY <1>1, <1>3, <1>4 DEF Follows
<1>5. QED
  BY <1>2, <1>4 DEF Follows

\* Phase 1 fails before it has moved anything: this scope keeps its names.
LEMMA FollowedFails ==
  ASSUME IShape, NEW m \in Imports, Followed(m), Fails, UNCHANGED <<dirs, intent>>,
         h.at \in InDir, h'.renames = h.renames, Here(m) => MovedFrom(m) = {}
  PROVE  Followed(m)'
<1>1. \A n : Holds(m, n) => Holds(m, n)'
  BY DEF Holds, There
<1>2. h'.at = "remap" /\ ~Here(m)' /\ RenamedFrom(m)' = RenamedFrom(m)
  BY DEF Fails, Here, RenamedFrom, Renaming
<1>3. QED
  BY <1>1, <1>2 DEF Followed

LEMMA FollowedScan ==
  ASSUME IShape, Scan, NEW m \in Imports, Followed(m), mishaps' \intersect Cut = {}
  PROVE  Followed(m)'
<1>1. /\ UNCHANGED dirs /\ SameScope /\ h'.moved = h.moved /\ h'.done = h.done /\ h.at = "scan"
      /\ h.at \in InDir
      /\ \/ h'.at \in {"scan", "move"}
         \/ Fails /\ (h.moved = << >> \/ "scan" \in mishaps')
  BY ScanIs DEF InDir, Renaming
<1>2. CASE h'.at \in {"scan", "move"}
  BY <1>1, <1>2, FollowedSame DEF SameScope, Records, Holds, There, InDir, Renaming
<1>3. CASE Fails /\ h.moved = << >>
  <2>1. MovedFrom(m) = {}
    BY <1>3 DEF MovedFrom
  <2>2. QED
    BY <1>1, <1>3, <2>1, FollowedFails DEF SameScope, Records
<1>4. CASE "scan" \in mishaps'
  BY <1>4 DEF Cut, Lasting
<1>5. QED
  BY <1>1, <1>2, <1>3, <1>4

\* Another scope's folders stay where they are.
LEMMA FollowedAway ==
  ASSUME IShape, SameScope, NEW a \in Folders, NEW b \in Folders, Scope \in Scopes, Goes(Scope, a, b),
         h.at \in Renaming, h'.at \in Renaming, NEW m \in Imports, Followed(m), ScopeOf[m] # Scope
  PROVE  Followed(m)'
<1>1. \A n \in Folders : Holds(m, n) => Holds(m, n)'
  BY HoldsStays
<1>2. QED
  BY <1>1, FollowedSame DEF SameScope, Records, Here, InDir

\* The names a folder has had on its way are told apart.
LEMMA WayNames ==
  ASSUME IShape, h.at \in Renaming
  PROVE  /\ \A x \in DOMAIN h.moved :
              /\ h.moved[x].from \in Real /\ h.moved[x].to \in Real /\ h.moved[x].tmp \in Temp
              /\ h.moved[x].from \in Folders /\ h.moved[x].to \in Folders
              /\ h.moved[x].tmp \in Folders /\ h.moved[x].tmp \notin Real
              /\ h.moved[x].from[1] = h.moved[x].to[1]
         /\ \A x, y \in DOMAIN h.moved : h.moved[x].tmp = h.moved[y].tmp => x = y
<1>1. SeqTypeOK /\ HandlerShape /\ MovedShape /\ h.at \in InDir
  BY DEF IShape, Shape, InDir
<1>2. \A x, y \in DOMAIN h.moved : h.moved[x].tmp = h.moved[y].tmp => x = y
  BY <1>1 DEF MovedShape
<1>3. QED
  BY <1>1, <1>2, MovedTypes, RealIs

LEMMA FollowedToTemp ==
  ASSUME IShape, IShape', OneEach, ToTemp, NEW m \in Imports, Whole(ScopeOf[m], ByOf[m]), Followed(m)
  PROVE  Followed(m)'
<1> DEFINE s == ScopeOf[m]
           p == ByOf[m]
<1>0. PICK tmp : tmp = <<runs, Entry[2]>>
  OBVIOUS
<1>1. /\ SameScope /\ h.at = "move" /\ h.at \in InDir /\ h.at \in Renaming /\ Entry \in Real
      /\ tmp \in Temp /\ tmp \in Folders /\ tmp \notin Real
      /\ h.cur \in Real /\ h.cur \in Folders /\ h.cur[1] = Entry[1] /\ There(Scope, h.cur)
      /\ h.done = 0 /\ h'.done = 0 /\ Scope \in Scopes
  <2>1. h.at = "move" /\ h.at \in InDir
    BY ToTempIs DEF InDir, Renaming
  <2>2. QED
    BY <1>0, <2>1, ToTempIs, AtScope, RealIs DEF IShape, Shape, Renaming
<1>2. s \in Scopes /\ p \in Photographers
  BY SequenceRenameConstants
<1>3. DOMAIN h.moved \subseteq Nat \ {0}
  BY <1>1, MovedTypes DEF IShape, Shape
<1>4. CASE UNCHANGED dirs /\ h'.at = "back" /\ h'.moved = h.moved
  BY <1>1, <1>4, FollowedSame DEF SameScope, Records, Holds, There, InDir, Renaming
<1>5. CASE /\ Goes(Scope, h.cur, tmp) /\ h'.at = "scan"
           /\ \E last \in Nat \ DOMAIN h.moved :
                /\ DOMAIN h'.moved = DOMAIN h.moved \union {last} /\ last > 0
                /\ h'.moved[last] = [from |-> h.cur, tmp |-> tmp, to |-> Entry]
                /\ \A x \in DOMAIN h.moved : h'.moved[x] = h.moved[x]
  <2>1. PICK last \in Nat \ DOMAIN h.moved :
                /\ DOMAIN h'.moved = DOMAIN h.moved \union {last} /\ last > 0
                /\ h'.moved[last] = [from |-> h.cur, tmp |-> tmp, to |-> Entry]
                /\ \A x \in DOMAIN h.moved : h'.moved[x] = h.moved[x]
    BY <1>5
  <2>2. h'.moved[last].from = h.cur /\ h'.moved[last].to = Entry /\ h'.moved[last].tmp = tmp
    BY <2>1
  <2>3. CASE s # Scope
    BY <1>1, <1>5, <2>3, FollowedAway DEF Renaming
  <2>4. CASE s = Scope
    <3>1. Here(m) /\ Here(m)' /\ RenamedFrom(m) = {} /\ RenamedFrom(m)' = {}
      BY <1>1, <1>5, <2>4, RenamedElsewhere
      DEF Here, Renaming, SameScope, Records, RenamedFrom
    <3>2. intent'[m] = intent[m] /\ intent[m] \in Real /\ intent[m] \in Folders /\ intent[m][1] = p
      BY <1>1, RealIs DEF SameScope, Records, Followed
    <3>3. CASE intent[m] = h.cur
      <4>1. h.cur \in Visible(s, p) /\ p = Entry[1]
        BY <1>1, <2>4, <3>2, <3>3 DEF Visible
      <4>2. \A x \in DOMAIN h.moved : h.moved[x].to[1] # p
        BY <1>1, <1>2, <1>3, <2>4, <4>1 DEF OneEach, EachOf, Gone
      <4>3. \A x \in DOMAIN h.moved : h.moved[x].from # h.cur
        BY <1>1, <4>1, <4>2, WayNames
      <4>4. Holds(m, h.cur)
        BY <3>1, <3>3, <4>3 DEF Followed, MovedFrom
      <4>5. Holds(m, tmp)'
        BY <1>1, <1>5, <2>4, <4>4, HoldsGoes
      <4>6. MovedFrom(m)' = {last}
        BY <2>1, <2>2, <3>2, <3>3, <4>3 DEF MovedFrom
      <4>7. ~(last <= h'.done)
        BY <1>1, <2>1
      <4>8. Holds(m, IF last <= h.done THEN h.moved[last].to ELSE h.moved[last].tmp)'
        BY <2>2, <4>5, <4>7 DEF Holds, There
      <4>9. QED
        BY <3>1, <3>2, <4>6, <4>8 DEF Followed
    <3>4. CASE intent[m] # h.cur
      <4>1. \A n \in Folders : n # h.cur /\ n # tmp /\ Holds(m, n) => Holds(m, n)'
        BY <1>1, <1>5, HoldsStays
      <4>2. MovedFrom(m)' = MovedFrom(m)
        BY <2>1, <2>2, <3>2, <3>4 DEF MovedFrom
      <4>3. ASSUME NEW x \in MovedFrom(m)
            PROVE  Holds(m, IF x <= h.done THEN h.moved[x].to ELSE h.moved[x].tmp)'
        <5>1. x \in DOMAIN h.moved /\ h'.moved[x] = h.moved[x] /\ ~(x <= 0)
          BY <1>3, <2>1 DEF MovedFrom
        <5>2. Holds(m, h.moved[x].tmp)
          BY <1>1, <3>1, <4>3, <5>1 DEF Followed
        <5>3. h.moved[x].tmp # h.cur /\ h.moved[x].tmp \in Folders
          BY <1>1, <5>1, WayNames
        <5>4. h.moved[x].tmp # tmp
          <6>1. h'.at \in Renaming
            BY <1>5 DEF Renaming
          <6>2. \A y, z \in DOMAIN h'.moved : h'.moved[y].tmp = h'.moved[z].tmp => y = z
            BY <6>1 DEF MovedShape, IShape, Shape, InDir
          <6>3. QED
            BY <2>1, <2>2, <5>1, <6>2
        <5>5. Holds(m, h.moved[x].tmp)'
          BY <4>1, <5>1, <5>2, <5>3, <5>4 DEF Holds, There
        <5>6. QED
          BY <1>1, <5>1, <5>5 DEF Holds, There
      <4>4. MovedFrom(m) = {} => Holds(m, intent[m])'
        BY <1>1, <3>1, <3>2, <3>4, <4>1 DEF Followed, Holds, There
      <4>5. QED
        BY <3>1, <3>2, <4>2, <4>3, <4>4 DEF Followed
    <3>5. QED
      BY <3>3, <3>4
  <2>5. QED
    BY <2>3, <2>4
<1>6. QED
  BY <1>0, <1>4, <1>5, ToTempIs


\* A folder comes back from its temporary name, or gets its new one: of the scope's
\* imports only those that were in it notice, and they were in no folder one sees.
LEMMA FollowedPut ==
  ASSUME IShape, OneEach, SameScope, h.at \in {"back", "place"}, h'.at = h.at,
         NEW x \in DOMAIN h.moved, x > h.done,
         NEW to \in {h.moved[x].from, h.moved[x].to},
         Goes(Scope, h.moved[x].tmp, to),
         NEW m \in Imports, Whole(ScopeOf[m], ByOf[m]), Followed(m),
         \A y \in DOMAIN h'.moved : y \in DOMAIN h.moved /\ h'.moved[y] = h.moved[y],
         \A y \in DOMAIN h.moved : y # x => y \in DOMAIN h'.moved /\ (y <= h.done <=> y <= h'.done),
         \/ x \notin DOMAIN h'.moved /\ to = h.moved[x].from
         \/ x \in DOMAIN h'.moved /\ x <= h'.done /\ to = h.moved[x].to
  PROVE  Followed(m)'
<1> DEFINE s == ScopeOf[m]
           p == ByOf[m]
<1>0. PICK tmp : tmp = h.moved[x].tmp
  OBVIOUS
<1>1. /\ h.at \in Renaming /\ h.at \in InDir /\ Scope \in Scopes /\ s \in Scopes /\ p \in Photographers
      /\ tmp \in Folders /\ to \in Folders /\ to \in Real /\ tmp \notin Real
      /\ to[1] = h.moved[x].to[1] /\ to[1] = h.moved[x].from[1] /\ Goes(Scope, tmp, to) /\ tmp # to
  <2>1. h.at \in Renaming /\ h.at \in InDir
    BY DEF InDir, Renaming
  <2>2. QED
    BY <1>0, <2>1, AtScope, WayNames, SequenceRenameConstants DEF IShape, Shape
<1>2. CASE s # Scope
  BY <1>1, <1>2, FollowedAway
<1>3. CASE s = Scope
  <2>1. Here(m) /\ Here(m)' /\ RenamedFrom(m) = {} /\ RenamedFrom(m)' = {}
    BY <1>1, <1>3, RenamedElsewhere DEF Here, SameScope, Records, RenamedFrom
  <2>2. intent'[m] = intent[m] /\ intent[m] \in Real /\ intent[m] \in Folders /\ intent[m][1] = p
    BY RealIs DEF SameScope, Records, Followed
  <2>3. \A n \in Folders : n # tmp /\ n # to /\ Holds(m, n) => Holds(m, n)'
    BY <1>1, HoldsStays
  <2>4. CASE p = to[1]
    <3>1. Visible(s, p) = {} /\ \A y \in DOMAIN h.moved : h.moved[y].to[1] = p => y = x
      BY <1>1, <1>3, <2>4 DEF OneEach, EachOf, Gone
    <3>2. \A y \in DOMAIN h.moved : h.moved[y].from[1] = p => y = x
      BY <1>1, <3>1, WayNames
    <3>3. ~Holds(m, intent[m])
      BY <2>2, <3>1 DEF Holds, Visible
    <3>4. MovedFrom(m) # {}
      BY <2>1, <3>3 DEF Followed
    <3>5. MovedFrom(m) = {x} /\ h.moved[x].from = intent[m]
      BY <2>2, <3>2, <3>4 DEF MovedFrom
    <3>6. ~(x <= h.done)
      <4>1. x \in Nat /\ h.done \in Nat
        BY <1>1, MovedTypes DEF IShape, Shape
      <4>2. QED
        BY <4>1
    <3>7. Holds(m, tmp)
      BY <1>0, <2>1, <3>5, <3>6 DEF Followed
    <3>8. Holds(m, to)'
      BY <1>1, <1>3, <3>7, HoldsGoes
    <3>9. CASE x \notin DOMAIN h'.moved /\ to = h.moved[x].from
      <4>1. MovedFrom(m)' = {}
        BY <2>2, <3>5, <3>9 DEF MovedFrom
      <4>2. to = intent'[m]
        BY <2>2, <3>5, <3>9
      <4>3. Holds(m, intent[m])'
        BY <3>8, <4>2 DEF Holds, There
      <4>4. QED
        BY <2>1, <2>2, <4>1, <4>3 DEF Followed
    <3>10. CASE x \in DOMAIN h'.moved /\ x <= h'.done /\ to = h.moved[x].to
      <4>1. MovedFrom(m)' = {x} /\ h'.moved[x] = h.moved[x]
        BY <2>2, <3>5, <3>10 DEF MovedFrom
      <4>2. Holds(m, IF x <= h.done THEN h.moved[x].to ELSE h.moved[x].tmp)'
        BY <3>8, <3>10, <4>1 DEF Holds, There
      <4>3. QED
        BY <2>1, <2>2, <4>1, <4>2 DEF Followed
    <3>11. QED
      BY <3>9, <3>10
  <2>5. CASE p # to[1]
    <3>1. MovedFrom(m)' = MovedFrom(m) /\ x \notin MovedFrom(m)
      BY <1>1, <2>2, <2>5 DEF MovedFrom
    <3>2. MovedFrom(m) = {} => Holds(m, intent[m])'
      BY <1>1, <2>1, <2>2, <2>3, <2>5 DEF Followed, Holds, There
    <3>3. ASSUME NEW y \in MovedFrom(m)
          PROVE  Holds(m, IF y <= h.done THEN h.moved[y].to ELSE h.moved[y].tmp)'
      <4>1. y \in DOMAIN h.moved /\ h'.moved[y] = h.moved[y] /\ y # x /\ (y <= h.done <=> y <= h'.done)
        BY <3>1, <3>3 DEF MovedFrom
      <4>2. PICK n : n = IF y <= h.done THEN h.moved[y].to ELSE h.moved[y].tmp
        OBVIOUS
      <4>3. Holds(m, n)
        BY <2>1, <3>3, <4>2 DEF Followed
      <4>4. n \in Folders /\ n # tmp /\ n # to
        <5>1. h.moved[y].to[1] = p
          BY <1>1, <2>2, <3>3, <4>1, WayNames DEF MovedFrom
        <5>2. h.moved[y].to # to /\ h.moved[y].to # tmp /\ h.moved[y].to \in Folders
          BY <1>1, <2>5, <4>1, <5>1, WayNames
        <5>3. h.moved[y].tmp # to /\ h.moved[y].tmp # tmp /\ h.moved[y].tmp \in Folders
          BY <1>0, <1>1, <4>1, WayNames
        <5>4. QED
          BY <4>2, <5>2, <5>3
      <4>5. Holds(m, n)'
        BY <2>3, <4>3, <4>4
      <4>6. QED
        BY <4>1, <4>2, <4>5 DEF Holds, There
    <3>4. QED
      BY <2>1, <2>2, <3>1, <3>2, <3>3 DEF Followed
  <2>6. QED
    BY <2>4, <2>5
<1>4. QED
  BY <1>2, <1>3

LEMMA FollowedBack ==
  ASSUME IShape, OneEach, Back, NEW m \in Imports, Whole(ScopeOf[m], ByOf[m]), Followed(m),
         mishaps' \intersect Cut = {}
  PROVE  Followed(m)'
<1>1. SameScope /\ h.at = "back" /\ h.at \in InDir /\ h.done = 0
  BY BackIs DEF InDir, Renaming
<1>2. CASE h.moved = << >> /\ Fails /\ UNCHANGED dirs
  <2>1. MovedFrom(m) = {}
    BY <1>2 DEF MovedFrom
  <2>2. QED
    BY <1>1, <1>2, <2>1, FollowedFails DEF SameScope, Records
<1>3. ASSUME NEW last \in DOMAIN h.moved, h'.at = "back", h'.done = 0,
             DOMAIN h'.moved = DOMAIN h.moved \ {last},
             \A x \in DOMAIN h'.moved : h'.moved[x] = h.moved[x],
             Goes(Scope, h.moved[last].tmp, h.moved[last].from)
      PROVE  Followed(m)'
  <2>1. last > 0
    BY <1>1, MovedTypes DEF IShape, Shape
  <2>2. PICK to : to = h.moved[last].from
    OBVIOUS
  <2>3. QED
    BY <1>1, <1>3, <2>1, <2>2, FollowedPut
<1>4. "rollback" \notin mishaps'
  BY DEF Cut, Lasting
<1>5. QED
  BY <1>2, <1>3, <1>4, BackIs

LEMMA FollowedEndOfPhase1 ==
  ASSUME IShape, EndOfPhase1, NEW m \in Imports, Followed(m) PROVE Followed(m)'
<1>1. /\ SameScope /\ UNCHANGED dirs /\ h.at = "scan" /\ h'.at = "place"
      /\ h'.moved = h.moved /\ h'.done = h.done
  BY EndOfPhase1Is
<1>2. QED
  BY <1>1, FollowedSame DEF SameScope, Records, Holds, There, InDir, Renaming

LEMMA FollowedPlace ==
  ASSUME IShape, OneEach, Place, h.done # Len(h.moved),
         NEW m \in Imports, Whole(ScopeOf[m], ByOf[m]), Followed(m), mishaps' \intersect Cut = {}
  PROVE  Followed(m)'
<1>1. /\ SameScope /\ h.at = "place" /\ h.at \in InDir /\ h'.moved = h.moved
      /\ h.done + 1 \in DOMAIN h.moved /\ h.done \in Nat
  BY PlaceIs DEF InDir, Renaming
<1>2. PICK x : x = h.done + 1
  OBVIOUS
<1>3. Goes(Scope, h.moved[x].tmp, h.moved[x].to) /\ h'.at = "place" /\ h'.done = x
  BY <1>2, PlaceIs DEF Cut, Lasting
<1>4. DOMAIN h.moved \subseteq Nat
  BY <1>1, MovedTypes DEF IShape, Shape
<1>5. /\ x \in DOMAIN h.moved /\ x > h.done /\ x <= h'.done
      /\ \A y \in DOMAIN h.moved : y # x => (y <= h.done <=> y <= h'.done)
  BY <1>1, <1>2, <1>3, <1>4
<1>6. PICK to : to = h.moved[x].to
  OBVIOUS
<1>7. QED
  BY <1>1, <1>3, <1>5, <1>6, FollowedPut

LEMMA FollowedScopeDone ==
  ASSUME IShape, Place, h.done = Len(h.moved), NEW m \in Imports, Followed(m)
  PROVE  Followed(m)'
<1>1. /\ UNCHANGED <<dirs, intent>> /\ h.at = "place" /\ h.at \in InDir /\ h'.moved = << >>
      /\ h'.renames = h.renames \union {<<Scope, h.moved[x].from, h.moved[x].to>> :
                                          x \in DOMAIN h.moved}
      /\ h'.at \in {"scan", "remap"}
  BY ScopeDoneIs DEF Records, InDir, Renaming
<1>2. \A n : Holds(m, n)' <=> Holds(m, n)
  BY <1>1 DEF Holds, There
<1>3. MovedFrom(m)' = {}
  BY <1>1 DEF MovedFrom
<1>4. \A x \in DOMAIN h.moved : x <= h.done
  BY <1>1, MovedTypes DEF IShape, Shape
<1>5. ASSUME NEW r \in RenamedFrom(m)' PROVE Holds(m, r[3])
  <2>1. r \in h'.renames /\ r[1] = ScopeOf[m] /\ r[2] = intent[m]
    BY <1>1, <1>5 DEF RenamedFrom
  <2>2. CASE r \in h.renames
    BY <1>1, <2>1, <2>2 DEF Followed, RenamedFrom
  <2>3. CASE r \notin h.renames
    <3>1. PICK x \in DOMAIN h.moved : r = <<Scope, h.moved[x].from, h.moved[x].to>>
      BY <1>1, <2>1, <2>3
    <3>2. Here(m) /\ x \in MovedFrom(m) /\ r[3] = h.moved[x].to /\ x <= h.done
      BY <1>1, <1>4, <2>1, <3>1 DEF Here, MovedFrom, Renaming
    <3>3. QED
      BY <3>2 DEF Followed
  <2>4. QED
    BY <2>2, <2>3
<1>6. ASSUME RenamedFrom(m)' = {} PROVE Holds(m, intent[m])
  <2>1. RenamedFrom(m) = {}
    BY <1>1, <1>6 DEF RenamedFrom
  <2>2. Here(m) => MovedFrom(m) = {}
    <3>1. ASSUME Here(m), NEW x \in MovedFrom(m) PROVE FALSE
      <4>1. <<Scope, h.moved[x].from, h.moved[x].to>> \in RenamedFrom(m)'
        BY <1>1, <3>1 DEF Here, MovedFrom, RenamedFrom
      <4>2. QED
        BY <1>6, <4>1
    <3>2. QED
      BY <3>1
  <2>3. QED
    BY <2>1, <2>2 DEF Followed
<1>7. intent'[m] \in Real /\ intent'[m][1] = ByOf[m] /\ intent'[m] = intent[m]
  BY <1>1 DEF Followed
<1>8. ASSUME NEW r \in RenamedFrom(m)' PROVE Holds(m, r[3])'
  BY <1>2, <1>5, <1>8
<1>9. RenamedFrom(m)' = {} => Holds(m, intent[m])'
  BY <1>1, <1>6, <1>7 DEF Holds, There
<1>10. h'.at \in InDir \union {"remap"}
  BY <1>1 DEF InDir, Renaming
<1>11. QED
  BY <1>3, <1>7, <1>8, <1>9, <1>10 DEF Followed

\* The intent is moved to where the renames have put the files.
LEMMA FollowedRemap ==
  ASSUME IShape, Remap, NEW m \in Imports, Followed(m), mishaps' \intersect Cut = {}
  PROVE  Followed(m)'
<1>1. /\ UNCHANGED dirs /\ h.at = "remap" /\ h \in Handler
      /\ h' = IF h.ok THEN [h EXCEPT !.at = "sequences"] ELSE Rest
  BY DEF Remap, IShape, SeqTypeOK
<1>2. h'.at \in {"sequences", "idle"}
  BY <1>1 DEF Handler, Rest
<1>3. intent'[m] = LET r == {x \in h.renames : x[1] = ScopeOf[m] /\ x[2] = intent[m]} IN
                   IF r = {} THEN intent[m] ELSE (CHOOSE x \in r : TRUE)[3]
  <2>1. "record" \notin mishaps'
    BY DEF Cut
  <2>2. QED
    BY <2>1 DEF Remap
<1>4. intent'[m] = IF RenamedFrom(m) = {} THEN intent[m] ELSE (CHOOSE x \in RenamedFrom(m) : TRUE)[3]
  BY <1>3 DEF RenamedFrom
<1>5. ~Here(m) /\ "remap" \in InDir \union {"remap"}
  BY <1>1 DEF Here, Renaming
<1>6. Holds(m, intent'[m]) /\ intent'[m] \in Real /\ intent'[m][1] = ByOf[m]
  <2>1. CASE RenamedFrom(m) = {}
    BY <1>4, <1>5, <2>1 DEF Followed
  <2>2. CASE RenamedFrom(m) # {}
    <3>1. PICK r \in RenamedFrom(m) : intent'[m] = r[3]
      BY <1>4, <2>2
    <3>2. Holds(m, r[3])
      BY <1>1, <3>1 DEF Followed
    <3>3. r[3] \in Real /\ r[3][1] = r[2][1] /\ r[2] = intent[m]
      BY <3>1 DEF RenamedFrom, RenamesShape, IShape, Shape
    <3>4. QED
      BY <3>1, <3>2, <3>3 DEF Followed
  <2>3. QED
    BY <2>1, <2>2
<1>7. Holds(m, intent[m])'
  BY <1>1, <1>6 DEF Holds, There
<1>8. QED
  BY <1>2, <1>6, <1>7 DEF Followed, Here, InDir, Renaming

LEMMA IntentsReadNext == IShape /\ IntentsRead /\ [SeqNext]_seqVars => IntentsRead'
<1> SUFFICES ASSUME IShape, IntentsRead, [SeqNext]_seqVars, h'.at = "number",
                    NEW m \in Imports, Whole(ScopeOf[m], ByOf[m])'
             PROVE  saved'[m] = intent'[m]
  BY DEF IntentsRead
<1>1. h \in Handler
  BY DEF IShape, SeqTypeOK
<1>2. CASE ReadSequences
  <2>1. UNCHANGED intent /\ (saved' = intent \/ h' = Rest)
    BY <1>2 DEF ReadSequences, recordVars
  <2>2. QED
    BY <2>1 DEF Rest
<1>3. CASE \E k \in Imports : ImportStep(k)
  <2>1. PICK k \in Imports : ImportStep(k)
    BY <1>3
  <2>2. h.at = "number" /\ UNCHANGED <<h, saved>> /\ split \subseteq split'
    BY <2>1 DEF ImportStep, PlanImport, Resolve, MakeDir, CopyFiles, CommitIntent, AppendJob,
                SplitIfRunning
  <2>3. Whole(ScopeOf[m], ByOf[m])
    BY <2>2 DEF Whole
  <2>4. intent'[m] = intent[m]
    <3>1. CASE CommitIntent(k)
      <4>1. InFlight(k) /\ intent' = [intent EXCEPT ![k] = imp[k].to]
        BY <3>1 DEF CommitIntent, InFlight
      <4>2. k # m
        BY <2>2, <2>3, <4>1, WholeIsQuiet
      <4>3. QED
        BY <4>1, <4>2 DEF IShape, SeqTypeOK
    <3>2. CASE ~CommitIntent(k)
      BY <2>1, <3>2 DEF ImportStep, PlanImport, Resolve, MakeDir, CopyFiles, AppendJob, recordVars
    <3>3. QED
      BY <3>1, <3>2
  <2>5. QED
    BY <2>2, <2>3, <2>4 DEF IntentsRead
<1>4. CASE UNCHANGED seqVars
  BY <1>4 DEF seqVars, IntentsRead, Whole
<1>5. h'.at # "number" \/ ReadSequences \/ UNCHANGED seqVars \/ \E k \in Imports : ImportStep(k)
  <2>1. Scan \/ ToTemp \/ Back \/ EndOfPhase1 \/ Undo => h'.at # "number"
    BY ScanIs, ToTempIs, BackIs, EndOfPhase1Is, UndoIs DEF Fails
  <2>2. Place => h'.at # "number"
    BY ScopeDoneIs, PlaceIs
  <2>3. Remap \/ WriteSequences \/ ReadManifest \/ WriteManifest => h'.at # "number"
    <3>1. Remap => h' = [h EXCEPT !.at = "sequences"] \/ h' = Rest
      BY DEF Remap
    <3>2. WriteSequences => h' = [h EXCEPT !.at = "read"] \/ h' = Rest
      BY DEF WriteSequences
    <3>3. ReadManifest => h' = [h EXCEPT !.at = "write"]
      BY DEF ReadManifest
    <3>4. WriteManifest => h' = Rest
      BY DEF WriteManifest
    <3>5. \A at \in {"sequences", "read", "write"} : h' = [h EXCEPT !.at = at] => h'.at = at
      BY <1>1 DEF Handler
    <3>6. h' = Rest => h'.at = "idle"
      BY DEF Rest
    <3>7. QED
      BY <3>1, <3>2, <3>3, <3>4, <3>5, <3>6
  <2>4. AppEnds \/ (\E plan \in Plans : Apply(plan)) => h'.at # "number"
    <3>1. AppEnds => h'.at = "idle"
      BY DEF AppEnds, Rest
    <3>2. \A plan \in Plans : Apply(plan) => h'.at = "scan"
      BY DEF Apply, Rest
    <3>3. QED
      BY <3>1, <3>2
  <2>5. QED
    BY <2>1, <2>2, <2>3, <2>4 DEF SeqNext, HandlerStep
<1>6. QED
  BY <1>2, <1>3, <1>4, <1>5

LEMMA ReadIntents == SeqSpec => []IntentsRead
<1>1. SeqInit => IntentsRead
  BY DEF SeqInit, Rest, IntentsRead
<1>2. QED
  BY <1>1, IntentsReadNext, Shapely, PTL DEF SeqSpec

LEMMA FollowedRecords ==
  ASSUME IShape, IntentsRead, ReadSequences \/ WriteSequences \/ ReadManifest \/ WriteManifest,
         NEW m \in Imports, Whole(ScopeOf[m], ByOf[m]), Followed(m)
  PROVE  Followed(m)'
<1>1. /\ UNCHANGED dirs /\ intent'[m] = intent[m] /\ h \in Handler
      /\ h.at \in {"sequences", "number", "read", "write"}
  BY DEF ReadSequences, WriteSequences, ReadManifest, WriteManifest, recordVars, IShape, SeqTypeOK,
         IntentsRead
<1>2. \/ \E at \in {"number", "read", "write"} : h' = [h EXCEPT !.at = at]
      \/ h' = Rest
  BY DEF ReadSequences, WriteSequences, ReadManifest, WriteManifest
<1>3. h'.at \in {"number", "read", "write", "idle"}
  BY <1>1, <1>2 DEF Handler, Rest
<1>4. QED
  BY <1>1, <1>3 DEF Followed, Here, Holds, There, InDir, Renaming


LEMMA FollowsHandler == IShape /\ IShape' /\ IntentsRead /\ OneEach /\ Follows /\ HandlerStep => Follows'
<1> SUFFICES ASSUME IShape, IShape', IntentsRead, OneEach, Follows, HandlerStep PROVE Follows'
  OBVIOUS
<1>1. h.at # "idle" /\ UNCHANGED <<imp, split>>
  BY DEF HandlerStep, Scan, ToTemp, Back, EndOfPhase1, Place, Undo, Remap, ReadSequences, WriteSequences,
         ReadManifest, WriteManifest
<1>2. mishaps \subseteq mishaps'
  <2>1. Scan \/ ToTemp \/ Back \/ EndOfPhase1 \/ Undo => mishaps \subseteq mishaps'
    BY ScanIs, ToTempIs, BackIs, EndOfPhase1Is, UndoIs DEF Fails
  <2>2. Place => mishaps \subseteq mishaps'
    BY ScopeDoneIs, PlaceIs
  <2>3. Remap \/ ReadSequences \/ WriteSequences \/ ReadManifest \/ WriteManifest => mishaps \subseteq mishaps'
    BY DEF Remap, ReadSequences, WriteSequences, ReadManifest, WriteManifest
  <2>4. QED
    BY <2>1, <2>2, <2>3 DEF HandlerStep
<1>3. ASSUME NEW m \in Imports, Whole(ScopeOf[m], ByOf[m]), Followed(m), mishaps' \intersect Cut = {}
      PROVE  Followed(m)'
  <2>1. ~Undo
    BY <1>2, <1>3, UndoIs DEF Cut, Lasting
  <2>2. QED
    BY <1>3, <2>1, FollowedScan, FollowedToTemp, FollowedBack, FollowedEndOfPhase1, FollowedPlace,
       FollowedScopeDone, FollowedRemap, FollowedRecords DEF HandlerStep
<1>4. QED
  BY <1>1, <1>2, <1>3, DoneIsEnough

LEMMA FollowsApply == ASSUME IShape, Follows, NEW plan \in Plans, Apply(plan) PROVE Follows'
<1>1. /\ UNCHANGED <<dirs, intent, imp, mishaps>> /\ h'.at = "scan" /\ h.at = "idle"
      /\ h'.moved = << >> /\ h'.renames = {} /\ split \subseteq split'
  BY DEF Apply, Rest, recordVars, SplitIfRunning
<1>2. ASSUME NEW m \in Imports, Followed(m) PROVE Followed(m)'
  <2>1. Holds(m, intent[m]) /\ intent[m] \in Real /\ intent[m][1] = ByOf[m]
    BY <1>1, <1>2 DEF Followed, Here, InDir, Renaming
  <2>2. MovedFrom(m)' = {} /\ RenamedFrom(m)' = {}
    BY <1>1 DEF MovedFrom, RenamedFrom
  <2>3. QED
    BY <1>1, <2>1, <2>2 DEF Followed, Holds, There
<1>3. ASSUME NEW m \in Imports, Whole(ScopeOf[m], ByOf[m])'
      PROVE  /\ imp'[m].at = "done" /\ mishaps' \intersect Cut = {} => Followed(m)'
             /\ imp'[m].at \in {"copied", "committed"} => Holds(m, imp[m].to)'
             /\ imp'[m].at = "committed" => intent'[m] = imp'[m].to
  <2>1. Whole(ScopeOf[m], ByOf[m])
    BY <1>1, <1>3 DEF Whole
  <2>2. QED
    BY <1>1, <1>2, <2>1 DEF Follows, Holds, There
<1>4. QED
  BY <1>3 DEF Follows

\* A step of one import: the files of the others stay, and so do their intents.
LEMMA FollowsImport ==
  ASSUME IShape, Follows, UNCHANGED <<h, mishaps>>, split \subseteq split', NEW m \in Imports,
         \A k \in Imports : k # m => imp'[k] = imp[k] /\ intent'[k] = intent[k],
         \A k \in Imports, n \in Folders : Holds(k, n) => Holds(k, n)',
         Whole(ScopeOf[m], ByOf[m]) =>
           /\ imp'[m].at = "done" /\ mishaps \intersect Cut = {} => Followed(m)'
           /\ imp'[m].at \in {"copied", "committed"} => Holds(m, imp[m].to)'
           /\ imp'[m].at = "committed" => intent'[m] = imp'[m].to
  PROVE  Follows'
<1>1. \A k \in Imports : Whole(ScopeOf[k], ByOf[k])' => Whole(ScopeOf[k], ByOf[k])
  BY DEF Whole
<1>2. ASSUME NEW k \in Imports, k # m, Whole(ScopeOf[k], ByOf[k])
      PROVE  /\ imp'[k].at = "done" /\ mishaps' \intersect Cut = {} => Followed(k)'
             /\ imp'[k].at \in {"copied", "committed"} => Holds(k, imp[k].to)'
             /\ imp'[k].at = "committed" => intent'[k] = imp'[k].to
  <2>1. imp'[k] = imp[k] /\ intent'[k] = intent[k] /\ imp[k].to \in Folders
    BY <1>2, RealIs DEF IShape, Shape, SplitShape
  <2>2. /\ imp[k].at = "done" /\ mishaps \intersect Cut = {} => Followed(k)
        /\ imp[k].at \in {"copied", "committed"} => Holds(k, imp[k].to)
        /\ imp[k].at = "committed" => intent[k] = imp[k].to
    BY <1>2 DEF Follows
  <2>3. Followed(k) => Followed(k)'
    <3>1. Scope' = Scope /\ \A n \in Folders : Holds(k, n) => Holds(k, n)'
      BY DEF Scope
    <3>2. QED
      BY <2>1, <3>1, FollowedSame
  <2>4. Holds(k, imp[k].to) => Holds(k, imp[k].to)'
    <3>1. PICK n : n = imp[k].to
      OBVIOUS
    <3>2. Holds(k, n) => Holds(k, n)'
      BY <2>1, <3>1
    <3>3. QED
      BY <2>1, <3>1, <3>2 DEF Holds, There
  <2>5. QED
    BY <2>1, <2>2, <2>3, <2>4
<1>3. QED
  BY <1>1, <1>2 DEF Follows

LEMMA FollowsImports ==
  ASSUME IShape, Follows, NEW m \in Imports, ImportStep(m) PROVE Follows'
<1>1. /\ UNCHANGED <<h, mishaps>> /\ split \subseteq split'
  BY DEF ImportStep, PlanImport, Resolve, MakeDir, CopyFiles, CommitIntent, AppendJob,
         SplitIfRunning
<1>2. /\ SeqTypeOK /\ imp[m].to \in Folders /\ imp[m].to \in Real /\ imp[m].to[1] = ByOf[m]
      /\ ScopeOf[m] \in Scopes
  BY RealIs, SequenceRenameConstants DEF IShape, Shape, SplitShape
<1>3. CASE PlanImport(m) \/ Resolve(m)
  <2>1. /\ UNCHANGED <<dirs, intent>> /\ \A k \in Imports : k # m => imp'[k] = imp[k]
        /\ imp'[m].at \in {"planned", "resolved"}
    BY <1>2, <1>3 DEF PlanImport, Resolve, recordVars, SeqTypeOK
  <2>2. QED
    BY <1>1, <2>1, FollowsImport DEF Holds, There
<1>4. CASE MakeDir(m)
  <2>1. /\ UNCHANGED intent /\ imp' = [imp EXCEPT ![m].at = "made"]
        /\ dirs' = dirs \/ (~There(ScopeOf[m], imp[m].to)
                            /\ dirs' = [dirs EXCEPT ![ScopeOf[m]][imp[m].to] = {}])
    BY <1>4 DEF MakeDir, recordVars
  <2>2. imp'[m].at = "made" /\ \A k \in Imports : k # m => imp'[k] = imp[k]
    BY <1>2, <2>1 DEF SeqTypeOK
  <2>3. \A k \in Imports, n \in Folders : Holds(k, n) => Holds(k, n)'
    <3>1. ASSUME NEW k \in Imports, NEW n \in Folders, Holds(k, n)
          PROVE  dirs'[ScopeOf[k]][n] = dirs[ScopeOf[k]][n]
      <4>1. ScopeOf[k] \in Scopes
        BY SequenceRenameConstants
      <4>2. ~There(ScopeOf[m], imp[m].to) => ~(ScopeOf[k] = ScopeOf[m] /\ n = imp[m].to)
        BY <3>1 DEF Holds
      <4>3. QED
        BY <1>2, <2>1, <4>1, <4>2 DEF SeqTypeOK
    <3>2. QED
      BY <3>1 DEF Holds, There
  <2>4. QED
    BY <1>1, <2>1, <2>2, <2>3, FollowsImport
<1>5. CASE CopyFiles(m)
  <2> DEFINE ms == dirs[ScopeOf[m]][imp[m].to] \union {m}
  <2>1. /\ UNCHANGED intent
        /\ \/ There(ScopeOf[m], imp[m].to) /\ imp' = [imp EXCEPT ![m].at = "copied"]
              /\ dirs' = [dirs EXCEPT ![ScopeOf[m]][imp[m].to] = ms]
           \/ imp' = [imp EXCEPT ![m].at = "failed"] /\ dirs' = dirs
    BY <1>2, <1>5 DEF CopyFiles, recordVars, SeqTypeOK
  <2>2. \A k \in Imports : k # m => imp'[k] = imp[k]
    BY <1>2, <2>1 DEF SeqTypeOK
  <2>3. CASE /\ There(ScopeOf[m], imp[m].to) /\ imp' = [imp EXCEPT ![m].at = "copied"]
             /\ dirs' = [dirs EXCEPT ![ScopeOf[m]][imp[m].to] = ms]
    <3>1. imp'[m].at = "copied" /\ imp'[m].to = imp[m].to
      BY <1>2, <2>3 DEF SeqTypeOK
    <3>2. ms \in SUBSET Imports
      BY <1>2, <2>3 DEF SeqTypeOK, There
    <3>3. m \in ms /\ ms # NoFolder /\ \A k : k \in dirs[ScopeOf[m]][imp[m].to] => k \in ms
      BY <3>2, NoFolderIsNone
    <3> HIDE DEF ms
    <3>4. \A t \in Scopes, n \in Folders :
             dirs'[t][n] = IF t = ScopeOf[m] /\ n = imp[m].to THEN ms ELSE dirs[t][n]
      BY <1>2, <2>3, <3>2, PutIs
    <3>5. \A k \in Imports, n \in Folders : Holds(k, n) => Holds(k, n)'
      <4>1. ASSUME NEW k \in Imports, NEW n \in Folders, Holds(k, n) PROVE Holds(k, n)'
        <5>1. ScopeOf[k] \in Scopes
          BY SequenceRenameConstants
        <5>2. dirs'[ScopeOf[k]][n] = IF ScopeOf[k] = ScopeOf[m] /\ n = imp[m].to THEN ms
                                     ELSE dirs[ScopeOf[k]][n]
          BY <3>4, <5>1
        <5>3. QED
          BY <3>3, <4>1, <5>2 DEF Holds, There
      <4>2. QED
        BY <4>1
    <3>6. dirs'[ScopeOf[m]][imp[m].to] = ms
      BY <1>2, <3>4
    <3>7. Holds(m, imp[m].to)'
      BY <3>1, <3>3, <3>6 DEF Holds, There
    <3>8. QED
      BY <1>1, <2>1, <2>2, <3>1, <3>5, <3>7, FollowsImport
  <2>4. CASE imp' = [imp EXCEPT ![m].at = "failed"] /\ dirs' = dirs
    <3>1. imp'[m].at = "failed"
      BY <1>2, <2>4 DEF SeqTypeOK
    <3>2. QED
      BY <1>1, <2>1, <2>2, <2>4, <3>1, FollowsImport DEF Holds, There
  <2>5. QED
    BY <2>1, <2>3, <2>4
<1>6. CASE CommitIntent(m)
  <2>1. /\ UNCHANGED dirs /\ intent' = [intent EXCEPT ![m] = imp[m].to] /\ imp[m].at = "copied"
        /\ imp' = [imp EXCEPT ![m].at = "committed"]
    BY <1>6 DEF CommitIntent
  <2>2. /\ imp'[m].at = "committed" /\ imp'[m].to = imp[m].to /\ intent'[m] = imp[m].to
        /\ \A k \in Imports : k # m => imp'[k] = imp[k] /\ intent'[k] = intent[k]
    BY <1>2, <2>1 DEF SeqTypeOK
  <2>3. Whole(ScopeOf[m], ByOf[m]) => Holds(m, imp[m].to)
    BY <2>1 DEF Follows
  <2>4. Whole(ScopeOf[m], ByOf[m]) => Holds(m, imp[m].to)'
    BY <2>1, <2>2, <2>3 DEF Holds, There
  <2>5. \A k \in Imports, n \in Folders : Holds(k, n) => Holds(k, n)'
    BY <2>1 DEF Holds, There
  <2>6. QED
    BY <1>1, <2>2, <2>4, <2>5, FollowsImport
<1>7. CASE AppendJob(m)
  <2>1. /\ UNCHANGED <<dirs, intent>> /\ imp[m].at = "committed"
        /\ imp' = [imp EXCEPT ![m].at = "done"]
    BY <1>7 DEF AppendJob
  <2>2. imp'[m].at = "done" /\ \A k \in Imports : k # m => imp'[k] = imp[k]
    BY <1>2, <2>1 DEF SeqTypeOK
  <2>3. ASSUME Whole(ScopeOf[m], ByOf[m]) PROVE Followed(m)'
    <3>1. h.at = "idle"
      BY <2>1, <2>3, WholeIsQuiet DEF InFlight
    <3>2. Holds(m, intent[m]) /\ intent[m] = imp[m].to
      BY <2>1, <2>3 DEF Follows
    <3>3. QED
      BY <1>1, <1>2, <2>1, <3>1, <3>2 DEF Followed, Here, Holds, There, InDir, Renaming
  <2>4. \A k \in Imports, n \in Folders : Holds(k, n) => Holds(k, n)'
    BY <2>1 DEF Holds, There
  <2>5. QED
    BY <1>1, <2>1, <2>2, <2>3, <2>4, FollowsImport
<1>8. QED
  BY <1>3, <1>4, <1>5, <1>6, <1>7 DEF ImportStep

LEMMA FollowsAppEnds == IShape /\ Follows /\ AppEnds => Follows'
<1> SUFFICES ASSUME IShape, Follows, AppEnds PROVE Follows'
  OBVIOUS
<1>1. /\ UNCHANGED <<dirs, intent, split>> /\ h'.at = "idle"
      /\ imp' = [m \in Imports |->
                   IF InFlight(m) THEN [imp[m] EXCEPT !.at = "failed"] ELSE imp[m]]
      /\ mishaps' = IF h.at # "idle" THEN mishaps \union {"crash"} ELSE mishaps
  BY DEF AppEnds, recordVars, Rest
<1>2. ASSUME NEW m \in Imports, Whole(ScopeOf[m], ByOf[m])'
      PROVE  /\ imp'[m].at = "done" /\ mishaps' \intersect Cut = {} => Followed(m)'
             /\ imp'[m].at \notin {"copied", "committed"}
  <2>1. CASE InFlight(m)
    <3>1. imp'[m].at = "failed"
      BY <1>1, <2>1 DEF IShape, SeqTypeOK
    <3>2. QED
      BY <3>1
  <2>2. CASE ~InFlight(m)
    <3>1. imp'[m] = imp[m] /\ imp[m].at \notin {"copied", "committed"}
      BY <1>1, <2>2 DEF InFlight
    <3>2. ASSUME imp'[m].at = "done", mishaps' \intersect Cut = {} PROVE Followed(m)'
      <4>1. h.at = "idle" /\ mishaps' = mishaps
        BY <1>1, <3>2 DEF Cut, Lasting
      <4>2. Followed(m)
        BY <1>1, <1>2, <3>1, <3>2, <4>1 DEF Follows, Whole
      <4>3. QED
        BY <1>1, <4>1, <4>2 DEF Followed, Here, Holds, There, InDir, Renaming
    <3>3. QED
      BY <3>1, <3>2
  <2>3. QED
    BY <2>1, <2>2
<1>3. QED
  BY <1>2 DEF Follows

LEMMA FollowsInit == SeqInit => Follows
<1> SUFFICES ASSUME SeqInit, NEW m \in Imports
             PROVE  /\ imp[m].at = "done" => Followed(m)
                    /\ imp[m].at \notin {"copied", "committed"}
  BY DEF Follows
<1>1. h.at = "idle" /\ imp[m].at \in {"done", "idle"} /\ (imp[m].at = "done" => m \in Already)
  BY DEF SeqInit, Rest
<1>2. ASSUME m \in Already PROVE Followed(m)
  <2>1. ScopeOf[m] \in Scopes /\ Plain(m) \in Real /\ Plain(m)[1] = ByOf[m] /\ Plain(m) \in Folders
    BY SequenceRenameConstants, RealIs DEF Plain
  <2> DEFINE ms == {k \in Already : ScopeOf[k] = ScopeOf[m] /\ Plain(k) = Plain(m)}
  <2>2. m \in ms /\ ms # {}
    BY <1>2
  <2>3. dirs[ScopeOf[m]][Plain(m)] = ms /\ intent[m] = Plain(m)
    BY <1>2, <2>1, <2>2 DEF SeqInit
  <2>4. ms # NoFolder
    BY NoFolderIsNone, SequenceRenameConstants
  <2>5. Holds(m, intent[m])
    BY <2>2, <2>3, <2>4 DEF Holds, There
  <2>6. QED
    BY <1>1, <2>1, <2>3, <2>5 DEF Followed, Here, InDir, Renaming
<1>3. QED
  BY <1>1, <1>2

LEMMA FollowsNext == IShape /\ IShape' /\ IntentsRead /\ OneEach /\ Follows /\ [SeqNext]_seqVars => Follows'
<1> SUFFICES ASSUME IShape, IShape', IntentsRead, OneEach, Follows, [SeqNext]_seqVars PROVE Follows'
  OBVIOUS
<1>1. CASE UNCHANGED seqVars
  <2>1. \A m \in Imports : Followed(m) => Followed(m)'
    BY <1>1, FollowedSame DEF seqVars, Scope, Holds, There
  <2>2. \A m \in Imports : Holds(m, imp[m].to) => Holds(m, imp[m].to)'
    BY <1>1 DEF seqVars, Holds, There
  <2>3. QED
    BY <1>1, <2>1, <2>2 DEF Follows, seqVars, Whole
<1>2. QED
  BY <1>1, FollowsApply, FollowsHandler, FollowsImports, FollowsAppEnds DEF SeqNext

LEMMA IntentsFollow == SeqSpec => []Follows
BY FollowsInit, FollowsNext, Shapely, ReadIntents, EachIsOne, PTL DEF SeqSpec

\* The intent of an import is keyed by the folder its files are in, also after a later
\* scope has failed and its own is rolled back, unless an import was under way to the
\* folder or the handler was cut off.
THEOREM IntentFollowsCorrect == SeqSpec => []IntentFollows
<1>1. Follows => IntentFollows
  <2> SUFFICES ASSUME Follows, AtRest, NEW m \in Imports, imp[m].at = "done",
                      Whole(ScopeOf[m], ByOf[m]), mishaps \intersect Cut = {}
               PROVE  Holds(m, intent[m])
    BY DEF IntentFollows, Whole, Cut, Lasting, Holds
  <2>1. h.at = "idle" /\ Followed(m)
    BY DEF AtRest, Follows
  <2>2. QED
    BY <2>1 DEF Followed, Here, InDir, Renaming
<1>2. QED
  BY <1>1, IntentsFollow, PTL


-----------------------------------------------------------------------------
(* The manifest follows too                                                *)

\* Who is listed, once, has a number.
LEMMA PlannedIfListed ==
  ASSUME IShape, h.at # "idle", NEW s, NEW p \in Photographers, Whole(s, p),
         NEW k \in DOMAIN h.plan, h.plan[k].scope = s,
         NEW j \in DOMAIN h.plan[k].ordered, h.plan[k].ordered[j][1] = p
  PROVE  Planned(s, p) # 0
<1> DEFINE last == {e \in Photographers \X (1..MaxSeq) : e[1] = p /\
                      \E l \in DOMAIN h.plan : h.plan[l].scope = s /\
                        \E i \in DOMAIN h.plan[l].ordered :
                          /\ h.plan[l].ordered[i] = e
                          /\ \A n \in DOMAIN h.plan[l].ordered :
                               h.plan[l].ordered[n][1] = p => n <= i}
           c == CHOOSE e \in last : TRUE
<1>1. Planned(s, p) = IF last = {} THEN 0 ELSE c[2]
  BY DEF Planned
<1>2. Numbered(h.plan) /\ h.plan \in Plans
  BY DEF IShape, Shape, SplitShape, HandlerShape
<1>3. h.plan[k].ordered \in Seq(Photographers \X (1..MaxSeq))
  BY <1>2, PlansAre
<1>4. h.plan[k].ordered[j] \in Photographers \X (1..MaxSeq)
      /\ DOMAIN h.plan[k].ordered \subseteq Nat
  BY <1>3
<1>5. \A n \in DOMAIN h.plan[k].ordered : h.plan[k].ordered[n][1] = p => n = j
  BY <1>2 DEF Numbered, Whole
<1>6. \A n \in DOMAIN h.plan[k].ordered : h.plan[k].ordered[n][1] = p => n <= j
  BY <1>4, <1>5
<1>7. h.plan[k].ordered[j] \in last
  BY <1>4, <1>6
<1>8. last \subseteq Photographers \X (1..MaxSeq)
  OBVIOUS
<1> HIDE DEF last
<1>9. c \in last
  BY <1>7
<1>10. c[2] \in 1..MaxSeq /\ last # {}
  BY <1>8, <1>9
<1> HIDE DEF c
<1>11. QED
  BY <1>1, <1>10, SequenceRenameConstants

\* What Listed says of one import.
ListedAs(m) ==
  /\ h.at \in InDir \union {"idle", "remap"} => manifest[m] = intent[m]
  /\ h.at \in {"sequences", "number", "read", "write"} =>
       /\ manifest[m] \in Real /\ manifest[m][1] = ByOf[m]
       /\ Planned(ScopeOf[m], ByOf[m]) = 0 => manifest[m] = intent[m]
  /\ h.at = "write" => saved[m] = manifest[m]

LEMMA ListedRemap ==
  ASSUME IShape, Remap, NEW m \in Imports, Whole(ScopeOf[m], ByOf[m]), Followed(m), ListedAs(m),
         mishaps' = {}
  PROVE  ListedAs(m)'
<1>1. /\ manifest' = manifest /\ h.at = "remap" /\ h \in Handler /\ mishaps = {}
      /\ h' = IF h.ok THEN [h EXCEPT !.at = "sequences"] ELSE Rest
  BY DEF Remap, IShape, SeqTypeOK
<1>2. intent'[m] = IF RenamedFrom(m) = {} THEN intent[m] ELSE (CHOOSE x \in RenamedFrom(m) : TRUE)[3]
  BY <1>1 DEF Remap, RenamedFrom
<1>3. manifest[m] = intent[m] /\ intent[m] \in Real /\ intent[m][1] = ByOf[m]
  BY <1>1 DEF ListedAs, Followed
<1>4. CASE h.ok
  <2>1. h'.at = "sequences" /\ h'.plan = h.plan
    BY <1>1, <1>4 DEF Handler
  <2>2. ASSUME Planned(ScopeOf[m], ByOf[m]) = 0 PROVE RenamedFrom(m) = {}
    <3>1. ASSUME NEW r \in RenamedFrom(m) PROVE FALSE
      <4>1. r[1] = ScopeOf[m] /\ r[2] = intent[m] /\ r[2][1] = r[3][1]
        BY <3>1 DEF RenamedFrom, RenamesShape, IShape, Shape
      <4>2. PICK k \in DOMAIN h.plan :
              /\ h.plan[k].scope = r[1]
              /\ \E j \in DOMAIN h.plan[k].ordered : h.plan[k].ordered[j] = r[3]
        BY <3>1 DEF RenamedFrom, RenamesShape, IShape, Shape
      <4>3. PICK j \in DOMAIN h.plan[k].ordered : h.plan[k].ordered[j] = r[3]
        BY <4>2
      <4>4. h.plan[k].ordered[j][1] = ByOf[m] /\ h.plan[k].scope = ScopeOf[m]
        BY <1>3, <4>1, <4>2, <4>3
      <4>5. ByOf[m] \in Photographers
        BY SequenceRenameConstants
      <4>6. QED
        BY <1>1, <2>2, <4>4, <4>5, PlannedIfListed
    <3>2. QED
      BY <3>1
  <2>3. Planned(ScopeOf[m], ByOf[m])' = Planned(ScopeOf[m], ByOf[m])
    BY <2>1, PlannedSame
  <2>4. QED
    BY <1>1, <1>2, <1>3, <2>1, <2>2, <2>3 DEF ListedAs, InDir, Renaming
<1>5. CASE ~h.ok
  <2>1. RenamedFrom(m) = {}
    BY <1>1, <1>5 DEF IShape, Shape, HandlerShape, RenamedFrom
  <2>2. QED
    BY <1>1, <1>2, <1>3, <1>5, <2>1 DEF ListedAs, Rest
<1>6. QED
  BY <1>4, <1>5

LEMMA ListedWriteManifest ==
  ASSUME IShape, OneEach, WriteManifest, NEW m \in Imports, Whole(ScopeOf[m], ByOf[m]), Followed(m),
         ListedAs(m), mishaps' = {}
  PROVE  ListedAs(m)'
<1> DEFINE s == ScopeOf[m]
           p == ByOf[m]
           new == [k \in Imports |-> Moved(k, saved[k])]
<1>1. /\ h.at = "write" /\ intent' = intent /\ h'.at = "idle" /\ s \in Scopes /\ p \in Photographers
      /\ saved \in [Imports -> Folders \union {NoFolder}]
  BY SequenceRenameConstants DEF WriteManifest, Rest, IShape, SeqTypeOK
<1>2. manifest' = IF new = saved THEN manifest ELSE new
  BY DEF WriteManifest
<1>3. saved[m] = manifest[m] /\ manifest[m] \in Real /\ manifest[m][1] = p
      /\ (Planned(s, p) = 0 => manifest[m] = intent[m])
  BY <1>1 DEF ListedAs
<1>4. new[m] = Moved(m, saved[m])
  OBVIOUS
<1>5. manifest'[m] = Moved(m, manifest[m])
  <2> HIDE DEF new
  <2>1. QED
    BY <1>2, <1>3, <1>4
<1>6. manifest[m] # NoFolder
  BY <1>3, RealIs, NoFolderIsNone
<1>7. manifest'[m] = IF Planned(s, p) # 0 THEN <<p, Planned(s, p)>> ELSE manifest[m]
  BY <1>3, <1>5, <1>6 DEF Moved
<1>8. Holds(m, intent[m]) /\ intent[m] \in Real /\ intent[m][1] = p
  BY <1>1 DEF Followed, Here, InDir, Renaming
<1>9. Planned(s, p) # 0 => intent[m] = <<p, Planned(s, p)>>
  <2>1. AsPlanned(s, p)
    BY <1>1 DEF OneEach, EachOf, Placed
  <2>2. intent[m] \in Visible(s, p)
    BY <1>8, HoldsVisible
  <2>3. QED
    BY <2>1, <2>2 DEF AsPlanned
<1>10. manifest'[m] = intent[m]
  BY <1>3, <1>7, <1>9
<1>11. QED
  BY <1>1, <1>10 DEF ListedAs, InDir, Renaming

LEMMA ListedHandler ==
  ASSUME IShape, IntentsRead, OneEach, HandlerStep, NEW m \in Imports, Whole(ScopeOf[m], ByOf[m]), Followed(m),
         ListedAs(m), mishaps' = {}
  PROVE  ListedAs(m)'
<1>1. h \in Handler
  BY DEF IShape, SeqTypeOK
<1>2. CASE Scan \/ ToTemp \/ Back \/ EndOfPhase1 \/ Place \/ Undo
  <2>1. UNCHANGED <<manifest, intent>> /\ h.at \in InDir
    BY <1>2 DEF Scan, ToTemp, Back, EndOfPhase1, Place, Undo, recordVars, InDir, Renaming
  <2>2. h'.at \in InDir \union {"remap"}
    <3>1. Scan \/ ToTemp \/ Back \/ EndOfPhase1 \/ Undo => h'.at \in InDir \union {"remap"}
      BY ScanIs, ToTempIs, BackIs, EndOfPhase1Is, UndoIs DEF Fails, InDir, Renaming
    <3>2. Place => h'.at \in InDir \union {"remap"}
      BY ScopeDoneIs, PlaceIs DEF InDir, Renaming
    <3>3. QED
      BY <1>2, <3>1, <3>2
  <2>3. QED
    BY <2>1, <2>2 DEF ListedAs, InDir, Renaming
<1>3. CASE WriteSequences
  <2>1. /\ UNCHANGED manifest /\ intent'[m] = intent[m]
        /\ h.at = "number" /\ h' = [h EXCEPT !.at = "read"]
    BY <1>3 DEF WriteSequences, IntentsRead
  <2>2. h'.at = "read" /\ h'.plan = h.plan
    BY <1>1, <2>1 DEF Handler
  <2>3. QED
    BY <2>1, <2>2, PlannedSame DEF ListedAs, InDir, Renaming
<1>4. CASE ReadManifest
  <2>1. /\ UNCHANGED <<manifest, intent>> /\ h.at = "read" /\ h' = [h EXCEPT !.at = "write"]
        /\ saved' = manifest
    BY <1>4 DEF ReadManifest, recordVars
  <2>2. h'.at = "write" /\ h'.plan = h.plan
    BY <1>1, <2>1 DEF Handler
  <2>3. QED
    BY <2>1, <2>2, PlannedSame DEF ListedAs, InDir, Renaming
<1>5. CASE ReadSequences
  <2>1. UNCHANGED <<manifest, intent>> /\ h.at = "sequences" /\ h' = [h EXCEPT !.at = "number"]
    BY <1>5 DEF ReadSequences, recordVars
  <2>2. h'.at = "number" /\ h'.plan = h.plan
    BY <1>1, <2>1 DEF Handler
  <2>3. QED
    BY <2>1, <2>2, PlannedSame DEF ListedAs, InDir, Renaming
<1>6. QED
  BY <1>2, <1>3, <1>4, <1>5, ListedRemap, ListedWriteManifest DEF HandlerStep

LEMMA ListedImport ==
  ASSUME IShape, Follows, Listed, NEW m \in Imports, ImportStep(m) PROVE Listed'
<1>1. /\ UNCHANGED <<h, mishaps, saved, before>> /\ split \subseteq split'
      /\ SeqTypeOK
  BY DEF ImportStep, PlanImport, Resolve, MakeDir, CopyFiles, CommitIntent, AppendJob,
         SplitIfRunning, IShape
<1>2. \A k \in Imports : k # m =>
        imp'[k] = imp[k] /\ intent'[k] = intent[k] /\ manifest'[k] = manifest[k]
  <2>1. /\ \E e : imp' = [imp EXCEPT ![m] = e]
        /\ intent' = intent \/ intent' = [intent EXCEPT ![m] = imp[m].to]
        /\ manifest' = manifest \/ manifest' = [manifest EXCEPT ![m] = imp[m].to]
    BY DEF ImportStep, PlanImport, Resolve, MakeDir, CopyFiles, CommitIntent, AppendJob, recordVars
  <2>2. QED
    BY <1>1, <2>1 DEF SeqTypeOK
<1>3. \A k \in Imports : Whole(ScopeOf[k], ByOf[k])' => Whole(ScopeOf[k], ByOf[k])
  BY <1>1 DEF Whole
<1>4. ASSUME NEW k \in Imports, k # m, Whole(ScopeOf[k], ByOf[k]), imp'[k].at = "done", mishaps = {}
      PROVE  ListedAs(k)'
  <2>1. ListedAs(k) /\ Planned(ScopeOf[k], ByOf[k])' = Planned(ScopeOf[k], ByOf[k])
    BY <1>1, <1>2, <1>4, PlannedSame DEF Listed, ListedAs
  <2>2. QED
    BY <1>1, <1>2, <1>4, <2>1 DEF ListedAs
<1>5. ASSUME Whole(ScopeOf[m], ByOf[m]), imp'[m].at = "done" PROVE ListedAs(m)'
  <2>1. AppendJob(m)
    <3>1. PlanImport(m) => imp'[m].at = "planned"
      BY <1>1 DEF PlanImport, SeqTypeOK
    <3>2. Resolve(m) => imp'[m].at = "resolved"
      BY <1>1 DEF Resolve, SeqTypeOK
    <3>3. MakeDir(m) => imp'[m].at = "made"
      BY <1>1 DEF MakeDir, SeqTypeOK
    <3>4. CopyFiles(m) => imp'[m].at \in {"copied", "failed"}
      BY <1>1 DEF CopyFiles, SeqTypeOK
    <3>5. CommitIntent(m) => imp'[m].at = "committed"
      BY <1>1 DEF CommitIntent, SeqTypeOK
    <3>6. QED
      BY <1>5, <3>1, <3>2, <3>3, <3>4, <3>5 DEF ImportStep
  <2>2. /\ imp[m].at = "committed" /\ UNCHANGED intent
        /\ manifest' = [manifest EXCEPT ![m] = imp[m].to]
    BY <2>1 DEF AppendJob
  <2>3. manifest'[m] = imp[m].to /\ intent'[m] = imp[m].to
    BY <1>1, <1>5, <2>2 DEF SeqTypeOK, Follows
  <2>4. h.at = "idle"
    BY <1>5, <2>2, WholeIsQuiet DEF InFlight
  <2>5. QED
    BY <1>1, <2>3, <2>4 DEF ListedAs
<1>6. QED
  BY <1>1, <1>3, <1>4, <1>5 DEF Listed, ListedAs

LEMMA ListedNext == IShape /\ IntentsRead /\ OneEach /\ Follows /\ Listed /\ [SeqNext]_seqVars => Listed'
<1> SUFFICES ASSUME IShape, IntentsRead, OneEach, Follows, Listed, [SeqNext]_seqVars PROVE Listed'
  OBVIOUS
<1>1. CASE \E plan \in Plans : Apply(plan)
  <2>1. /\ UNCHANGED <<intent, manifest, imp, mishaps>> /\ h.at = "idle" /\ h'.at = "scan"
        /\ split \subseteq split'
    BY <1>1 DEF Apply, Rest, recordVars, SplitIfRunning
  <2>2. QED
    BY <2>1 DEF Listed, Whole, InDir, Renaming
<1>2. CASE HandlerStep
  <2>1. UNCHANGED <<imp, split>> /\ mishaps \subseteq mishaps'
    <3>1. Scan \/ ToTemp \/ Back \/ EndOfPhase1 \/ Undo => mishaps \subseteq mishaps'
      BY ScanIs, ToTempIs, BackIs, EndOfPhase1Is, UndoIs DEF Fails
    <3>2. Place => mishaps \subseteq mishaps'
      BY ScopeDoneIs, PlaceIs
    <3>3. Remap \/ ReadSequences \/ WriteSequences \/ ReadManifest \/ WriteManifest => mishaps \subseteq mishaps'
      BY DEF Remap, ReadSequences, WriteSequences, ReadManifest, WriteManifest
    <3>4. UNCHANGED <<imp, split>>
      BY <1>2 DEF HandlerStep, Scan, ToTemp, Back, EndOfPhase1, Place, Undo, Remap,
                  ReadSequences, WriteSequences, ReadManifest, WriteManifest
    <3>5. QED
      BY <1>2, <3>1, <3>2, <3>3, <3>4 DEF HandlerStep
  <2>2. ASSUME mishaps' = {}, NEW m \in Imports, Whole(ScopeOf[m], ByOf[m]), imp[m].at = "done"
        PROVE  ListedAs(m)'
    <3>1. mishaps = {}
      BY <2>1, <2>2
    <3>2. ListedAs(m) /\ Followed(m)
      BY <2>2, <3>1 DEF Listed, ListedAs, Follows
    <3>3. QED
      BY <1>2, <2>2, <3>2, ListedHandler
  <2>3. QED
    BY <2>1, <2>2 DEF Listed, ListedAs, Whole
<1>3. CASE \E m \in Imports : ImportStep(m)
  BY <1>3, ListedImport
<1>4. CASE AppEnds
  <2>1. /\ UNCHANGED <<intent, manifest, split>> /\ h'.at = "idle"
        /\ mishaps' = IF h.at # "idle" THEN mishaps \union {"crash"} ELSE mishaps
        /\ imp' = [m \in Imports |->
                     IF InFlight(m) THEN [imp[m] EXCEPT !.at = "failed"] ELSE imp[m]]
    BY <1>4 DEF AppEnds, recordVars, Rest
  <2>2. ASSUME NEW m \in Imports, imp'[m].at = "done" PROVE imp[m].at = "done"
    BY <2>1, <2>2 DEF IShape, SeqTypeOK
  <2>3. mishaps' = {} => h.at = "idle" /\ mishaps = {}
    BY <2>1
  <2>4. QED
    BY <2>1, <2>2, <2>3 DEF Listed, Whole, InDir, Renaming
<1>5. CASE UNCHANGED seqVars
  BY <1>5, PlannedSame DEF seqVars, Listed, Whole
<1>6. QED
  BY <1>1, <1>2, <1>3, <1>4, <1>5 DEF SeqNext

LEMMA ListedInit == SeqInit => Listed
BY DEF SeqInit, Listed, Rest

LEMMA JobsListed == SeqSpec => []Listed
BY ListedInit, ListedNext, Shapely, ReadIntents, EachIsOne, IntentsFollow, PTL DEF SeqSpec

\* So is the job of an import in the manifest, when nothing has failed and nothing
\* appended to it was written over.
THEOREM ManifestFollowsCorrect == SeqSpec => []ManifestFollows
<1>1. Follows /\ Listed => ManifestFollows
  <2> SUFFICES ASSUME Follows, Listed, AtRest, NEW m \in Imports, imp[m].at = "done",
                      Whole(ScopeOf[m], ByOf[m]), mishaps = {}
               PROVE  Holds(m, manifest[m])
    BY DEF ManifestFollows, Whole, Holds
  <2>1. h.at = "idle" /\ Followed(m) /\ manifest[m] = intent[m]
    BY DEF AtRest, Follows, Listed
  <2>2. QED
    BY <2>1 DEF Followed, Here, InDir, Renaming
<1>2. QED
  BY <1>1, IntentsFollow, JobsListed, PTL

=============================================================================
