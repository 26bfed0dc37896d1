-------------------------- MODULE ArchiveCopyProofs --------------------------
(***************************************************************************)
(* What ArchiveCopy promises for any jobs, files, names and devices.  The  *)
(* invariant says what the no-overwrite rule rests on: a sync that has its *)
(* lock is alone in the folder, and what it found free stays free until    *)
(* its rename.  On it rests KeepInv: the manifest says for each item the   *)
(* one place it has in the folder, and a run goes there.                   *)
(***************************************************************************)
EXTENDS ArchiveCopy, TLAPS

\* Finite sets of strings, and the writers with a save under way.
USE DEF Hazards, PlaceHazards, Losses, Open

\* What a run of job j has to be.
Fits(j, r) ==
  /\ r \in Run
  /\ r.at \notin {"idle", "next"} => r.n \in DOMAIN ItemsOf[j]
  /\ r.hasXmp => r.mode # "single"

-----------------------------------------------------------------------------
(* The parts of a step                                                     *)

\* A job begins and ends with a run at rest.
LEMMA RestFits == \A j \in Jobs : Fits(j, Rest) /\ Rest.at = "idle"
<1>1. (CHOOSE n \in Names : TRUE) \in Names
  BY ArchiveCopyConstants
<1>2. Rest \in Run
  BY <1>1 DEF Rest, Run, Exts, Modes
<1>3. QED
  BY <1>2 DEF Fits, Rest

\* A manifest that is read and merged is a manifest.
LEMMA MergedType ==
  ASSUME NEW m \in Manifest, NEW more \in SUBSET Jobs, NEW files,
         \A f \in DOMAIN files : files[f] \in Reservation
  PROVE  Merged(m, more, files) \in Manifest
  BY DEF Merged, Manifest

\* An item of a run past the top of its loop.
LEMMA ItemType ==
  ASSUME TypeOK, AtItem, NEW j \in Jobs, run[j].at \notin {"idle", "next"}
  PROVE  Item(j) \in Items
<1>1. ItemsOf[j] \in Seq(Items)
  BY ArchiveCopyConstants
<1>2. run[j].n \in DOMAIN ItemsOf[j]
  BY DEF AtItem
<1>3. QED
  BY <1>1, <1>2 DEF Item

\* What the file that is done or has failed leaves behind.
LEMMA AfterFits ==
  ASSUME TypeOK, AtItem, NEW j \in Jobs, run[j].at \notin {"idle", "next"},
         NEW ok \in BOOLEAN
  PROVE  /\ Fits(j, After(j, ok)) /\ Fits(j, Succeeds(j)) /\ Fits(j, FailsAt(j))
         /\ After(j, ok).at \notin {"idle", "reserving", "guard", "install"}
         /\ Succeeds(j).at \notin {"idle", "reserving", "guard", "install"}
         /\ FailsAt(j).at \notin {"idle", "reserving", "guard", "install"}
<1> DEFINE r == run[j]
<1>1. r \in Run /\ r.n \in DOMAIN ItemsOf[j] /\ (r.hasXmp => r.mode # "single")
  BY DEF TypeOK, AtItem
<1>2. NameOf[Item(j)] \in Names
  BY ItemType, ArchiveCopyConstants
<1>3. ASSUME NEW b \in BOOLEAN
      PROVE  Fits(j, After(j, b)) /\ After(j, b).at \notin {"idle", "reserving", "guard", "install"}
  <2>1. CASE r.half = "raw" /\ r.hasXmp /\ (b \/ r.mode = "duplicate")
    <3>1. r.mode \in {"pair", "reserved", "duplicate"}
      BY <1>1, <2>1 DEF Run, Modes
    <3>2. XmpAt[r.mode] \in {"copy", "lookup", "stat"}
      BY <3>1 DEF XmpAt
    <3>3. QED
      BY <1>1, <1>2, <2>1, <3>1, <3>2 DEF After, Fits, Run, Exts
  <2>2. CASE ~(r.half = "raw" /\ r.hasXmp /\ (b \/ r.mode = "duplicate"))
    <3>1. After(j, b) = [r EXCEPT !.at = "next", !.n = r.n + 1]
      BY <2>2 DEF After
    <3>2. r.n + 1 \in Nat \ {0}
      BY <1>1 DEF Run
    <3>3. QED
      BY <1>1, <3>1, <3>2 DEF Fits, Run
  <2>3. QED
    BY <2>1, <2>2
<1>4. QED
  BY <1>3 DEF Succeeds, FailsAt, Fits, Run

\* A first free name is one of the names, and free.
LEMMA FirstFreeType ==
  ASSUME NEW names \in Seq(Names), NEW es, NEW m \in FirstFree(names, es)
  PROVE  m \in Names /\ \A e \in es : archive[m][e] = None
  BY DEF FirstFree

\* A name and its renamings, with which the probing starts.
LEMMA NamesFrom ==
  ASSUME NEW n \in Names
  PROVE  SuffixOf[n] \in Seq(Names) /\ <<n>> \o SuffixOf[n] \in Seq(Names)
<1>1. SuffixOf[n] \in Seq(Names)
  BY ArchiveCopyConstants
<1>2. <<n>> \in Seq(Names)
  OBVIOUS
<1>3. QED
  BY <1>1, <1>2

\* Hazards are of the kinds that are listed, and none is forgotten.
LEMMA HistoryType ==
  ASSUME TypeOK, NEW more \in SUBSET Hazards,
         History(more)
  PROVE  /\ hazards' \subseteq Hazards
         /\ hazards \subseteq hazards' /\ more \subseteq hazards'
  BY DEF TypeOK, History

\* What no hazard excuses after a step, none did before it.
LEMMA ShortBefore ==
  ASSUME NEW of, hazards \subseteq hazards', Short(of)'
  PROVE  Short(of)
  BY DEF Short

\* An item's contents.
LEMMA SourceType ==
  ASSUME TypeOK, AtItem, NEW j \in Jobs, run[j].at \notin {"idle", "next"}
  PROVE  /\ Source(j) \in Contents \union {None}
         /\ staged[Item(j)] \in Contents /\ xmp[Item(j)] \in Contents \union {None}
         /\ NameOf[Item(j)] \in Names
  BY ItemType, ArchiveCopyConstants DEF Source, TypeOK

-----------------------------------------------------------------------------
(* Steps of a run in which nothing changes but the run and a temporary file *)

LEMMA RunStep ==
  ASSUME IInv, NEW j \in Jobs, NEW r, Fits(j, r),
         Running(j), run[j].at # "reserving", r.at # "reserving",
         r.at \in {"guard", "install"} /\ Short({"lapse"}) =>
           tmp'[r.to][r.half] # Torn,
         r.at = "install" => archive[r.final][r.half] = None,
         run' = [run EXCEPT ![j] = r],
         tmp' \in [Names -> [Exts -> Contents \union {Torn, None}]],
         UNCHANGED <<stageVars, manifestVars, archive, placed, lock>>,
         History({})
  PROVE  IInv'
<1>1. hazards' \subseteq Hazards
      /\ hazards \subseteq hazards'
  BY HistoryType DEF IInv
<1>2. TypeOK'
  BY <1>1 DEF IInv, TypeOK, Fits, stageVars, manifestVars
<1>3. AtItem'
  BY DEF IInv, TypeOK, AtItem, Fits, manifestVars
<1>4. \A k \in Jobs : run'[k] = IF k = j THEN r ELSE run[k]
  BY DEF IInv, TypeOK
<1>5. ASSUME Short({"lapse"})
      PROVE  Alone /\ \A k \in Jobs : Running(k) => k = j
  BY <1>5 DEF IInv, Alone
<1>6. ASSUME Short({"lapse"})'
      PROVE  Alone'
  BY <1>1, <1>4, <1>5, <1>6, ShortBefore DEF Alone, Running
<1>7. ASSUME Short({"lapse", "foreign"})'
      PROVE  Free'
  BY <1>1, <1>4, <1>7, ShortBefore DEF IInv, Free
<1>8. QED
  BY <1>2, <1>3, <1>6, <1>7 DEF IInv

LEMMA ReadsStep ==
  ASSUME IInv, NEW j \in Jobs, NEW r, Fits(j, r),
         Running(j), run[j].at # "reserving", r.at \notin {"reserving", "guard"},
         r.at = "install" => /\ archive[r.final][r.half] = None
                             /\ run[j].at = "guard"
                             /\ r.to = run[j].to /\ r.half = run[j].half,
         Reads(j, r)
  PROVE  IInv'
<1>1. tmp' = tmp /\ UNCHANGED <<archive, placed>>
  BY DEF Reads, folderVars
<1>2. tmp' \in [Names -> [Exts -> Contents \union {Torn, None}]]
  BY <1>1 DEF IInv, TypeOK
<1>3. r.at \in {"guard", "install"} /\ Short({"lapse"}) => tmp'[r.to][r.half] # Torn
  BY <1>1 DEF IInv, Alone
<1>4. QED
  BY <1>1, <1>2, <1>3, RunStep DEF Reads

-----------------------------------------------------------------------------
(* The steps of a run that only read                                       *)

LEMMA NextItemStep ==
  ASSUME IInv, NEW j \in Jobs, NextItem(j)
  PROVE  IInv'
<1> DEFINE has == xmp[Item(j)] # None
           r == [run[j] EXCEPT !.at = "lookup", !.half = "raw", !.hasXmp = has,
                               !.to = NameOf[Item(j)],
                               !.mode = IF has THEN "pair" ELSE "single"]
<1>1. run[j] \in Run /\ run[j].at = "next" /\ run[j].n <= Len(ItemsOf[j])
  BY DEF IInv, TypeOK, NextItem, More
<1>2. ItemsOf[j] \in Seq(Items)
  BY ArchiveCopyConstants
<1>3. run[j].n \in DOMAIN ItemsOf[j]
  BY <1>1, <1>2 DEF Run
<1>4. NameOf[Item(j)] \in Names
  BY <1>2, <1>3, ArchiveCopyConstants DEF Item
<1>5. r \in Run
  BY <1>1, <1>4 DEF Run, Exts, Modes
<1>6. Fits(j, r)
  BY <1>1, <1>3, <1>5 DEF Fits, Run
<1>7. Reads(j, r) /\ Running(j) /\ r.at = "lookup"
  BY <1>1 DEF NextItem, Reads, Running, IInv, TypeOK, Run
<1>8. QED
  BY <1>1, <1>6, <1>7, ReadsStep

LEMMA LookupStep ==
  ASSUME IInv, NEW j \in Jobs, Lookup(j)
  PROVE  IInv'
<1> DEFINE r == run[j]
           rs == manifest[DeviceOf[j]].resv[<<Item(j), r.half>>]
<1>1. r \in Run /\ r.at = "lookup" /\ Fits(j, r) /\ Running(j)
  BY DEF IInv, TypeOK, AtItem, Lookup, Fits, Running
<1>2. CASE r.mode = "single" /\ r.aborted
  <2>1. Reads(j, After(j, FALSE))
    BY <1>2 DEF Lookup
  <2>2. QED
    BY <1>1, <2>1, AfterFits, ReadsStep DEF IInv
<1>3. CASE ~(r.mode = "single" /\ r.aborted) /\ rs # None
  <2> DEFINE s == [r EXCEPT !.at = "verify", !.to = rs.to, !.is = rs.is,
                            !.mode = IF @ = "pair" THEN "reserved" ELSE @]
  <2>1. rs \in Reservation
    <3>1. manifest[DeviceOf[j]] \in Manifest
      BY ArchiveCopyConstants DEF IInv, TypeOK
    <3>2. <<Item(j), r.half>> \in Files
      BY <1>1, ItemType DEF IInv, Run, Files
    <3>3. QED
      BY <1>3, <3>1, <3>2 DEF Manifest
  <2>2. s \in Run
    BY <1>1, <2>1 DEF Run, Reservation, Modes
  <2>3. Fits(j, s) /\ s.at = "verify"
    BY <1>1, <2>2 DEF Fits, Run
  <2>4. Reads(j, s)
    BY <1>3 DEF Lookup
  <2>5. QED
    BY <1>1, <2>3, <2>4, ReadsStep
<1>4. CASE ~(r.mode = "single" /\ r.aborted) /\ rs = None
  <2> DEFINE s == [r EXCEPT !.at = IF r.mode = "pair" THEN "resolve" ELSE "stat"]
  <2>1. Fits(j, s) /\ s.at \in {"resolve", "stat"}
    BY <1>1 DEF Fits, Run
  <2>2. Reads(j, s)
    BY <1>4 DEF Lookup
  <2>3. QED
    BY <1>1, <2>1, <2>2, ReadsStep
<1>5. QED
  BY <1>2, <1>3, <1>4

LEMMA VerifyStep ==
  ASSUME IInv, NEW j \in Jobs, Verify(j)
  PROVE  IInv'
<1> DEFINE s == [run[j] EXCEPT !.at = "copy"]
<1>1. run[j].at = "verify" /\ Running(j) /\ Fits(j, run[j])
  BY DEF IInv, TypeOK, AtItem, Verify, Fits, Running
<1>2. Fits(j, s) /\ s.at = "copy"
  BY <1>1 DEF Fits, Run
<1>3. \/ Reads(j, FailsAt(j))
      \/ Reads(j, s)
      \/ Reads(j, Succeeds(j))
  BY DEF Verify
<1>4. QED
  BY <1>1, <1>2, <1>3, AfterFits, ReadsStep DEF IInv

LEMMA ResolveStep ==
  ASSUME IInv, NEW j \in Jobs, Resolve(j)
  PROVE  IInv'
<1> DEFINE name == NameOf[Item(j)]
           d == [run[j] EXCEPT !.at = "stat", !.mode = "duplicate"]
           s(m) == [run[j] EXCEPT !.to = m,
                                  !.at = IF m = name THEN "copy" ELSE "reserve"]
<1>1. run[j].at = "resolve" /\ Running(j) /\ Fits(j, run[j])
  BY DEF IInv, TypeOK, AtItem, Resolve, Fits, Running
<1>2. Fits(j, d) /\ d.at = "stat"
  BY <1>1 DEF Fits, Run, Modes
<1>3. CASE Reads(j, d)
  BY <1>1, <1>2, <1>3, ReadsStep
<1>4. ASSUME NEW m \in FirstFree(<<name>> \o SuffixOf[name], Exts), Reads(j, s(m))
      PROVE  IInv'
  <2>1. m \in Names
    BY <1>1, SourceType, NamesFrom, FirstFreeType DEF IInv
  <2>2. Fits(j, s(m)) /\ s(m).at \in {"copy", "reserve"}
    BY <1>1, <2>1 DEF Fits, Run
  <2>3. QED
    BY <1>1, <1>4, <2>2, ReadsStep
<1>5. QED
  BY <1>3, <1>4 DEF Resolve

LEMMA StatStep ==
  ASSUME IInv, NEW j \in Jobs, Stat(j)
  PROVE  IInv'
<1> DEFINE r == run[j]
           c == [r EXCEPT !.at = "copy"]
           k == [After(j, TRUE) EXCEPT !.conflict = TRUE]
           s(m) == [r EXCEPT !.to = m,
                             !.at = IF r.mode = "single" THEN "reserve" ELSE "copy"]
<1>1. r.at = "stat" /\ Running(j) /\ Fits(j, r)
  BY DEF IInv, TypeOK, AtItem, Stat, Fits, Running
<1>2. Fits(j, c) /\ c.at = "copy"
  BY <1>1 DEF Fits, Run
<1>3. Fits(j, k) /\ k.at \notin {"idle", "reserving", "guard", "install"}
  BY <1>1, AfterFits DEF IInv, Fits, Run
<1>4. ASSUME NEW m \in FirstFree(SuffixOf[r.to], {"raw"}), Reads(j, s(m))
      PROVE  IInv'
  <2>1. m \in Names
    BY <1>1, NamesFrom, FirstFreeType DEF Fits, Run
  <2>2. Fits(j, s(m)) /\ s(m).at \in {"copy", "reserve"}
    BY <1>1, <2>1 DEF Fits, Run
  <2>3. QED
    BY <1>1, <1>4, <2>2, ReadsStep
<1>5. \/ Reads(j, After(j, FALSE))
      \/ Reads(j, c)
      \/ Reads(j, Succeeds(j))
      \/ Reads(j, k)
      \/ \E m \in FirstFree(SuffixOf[r.to], {"raw"}) : Reads(j, s(m))
  BY DEF Stat
<1>6. QED
  BY <1>1, <1>2, <1>3, <1>4, <1>5, AfterFits, ReadsStep DEF IInv

LEMMA GuardStep ==
  ASSUME IInv, NEW j \in Jobs, Guard(j)
  PROVE  IInv'
<1> DEFINE r == run[j]
           s(m) == [r EXCEPT !.at = "install", !.final = m]
<1>1. r.at = "guard" /\ Running(j) /\ Fits(j, r)
  BY DEF IInv, TypeOK, AtItem, Guard, Fits, Running
<1>2. PICK m \in FirstFree(<<r.to>> \o SuffixOf[r.to], {r.half}) : Reads(j, s(m))
  BY DEF Guard
<1>3. m \in Names /\ archive[m][r.half] = None
  <2>1. r.to \in Names
    BY <1>1 DEF Fits, Run
  <2>2. <<r.to>> \o SuffixOf[r.to] \in Seq(Names)
    BY <2>1, NamesFrom
  <2>3. m \in Names /\ \A e \in {r.half} : archive[m][e] = None
    BY <2>2, <1>2, FirstFreeType
  <2>4. QED
    BY <2>3
<1>4. /\ Fits(j, s(m)) /\ s(m).at = "install"
      /\ s(m).final = m /\ s(m).half = r.half /\ s(m).to = r.to
  BY <1>1, <1>3 DEF Fits, Run
<1>5. QED
  BY <1>1, <1>2, <1>3, <1>4, ReadsStep

-----------------------------------------------------------------------------
(* The steps that begin and end a run                                      *)

LEMMA StartStep ==
  ASSUME IInv, NEW j \in Jobs, Start(j)
  PROVE  IInv'
<1> DEFINE r == [Rest EXCEPT !.at = "next"]
<1>1. Fits(j, r) /\ r.at = "next"
  BY RestFits DEF Fits, Run
<1>2. lock = None /\ saving[<<"reserve", j>>].at = "idle"
  BY DEF Start, Syncable, Running, IInv, AtItem
<1>3. hazards' \subseteq Hazards
      /\ hazards \subseteq hazards'
  BY HistoryType DEF IInv, Start
<1>4. TypeOK'
  BY <1>1, <1>3 DEF IInv, TypeOK, Fits, Start, manifestVars, folderVars
<1>5. AtItem'
  <2>1. run' = [run EXCEPT ![j] = r] /\ saving' = saving
    BY DEF Start, manifestVars
  <2>2. QED
    BY <1>1, <1>2, <2>1 DEF IInv, TypeOK, AtItem, Fits
<1>6. \A k \in Jobs : run'[k] = IF k = j THEN r ELSE run[k]
  BY DEF IInv, TypeOK, Start
<1>7. ASSUME Short({"lapse"})'
      PROVE  Alone'
  <2>1. Alone
    BY <1>3, <1>7, ShortBefore DEF IInv
  <2>2. \A k \in Jobs : ~Running(k)
    BY <1>2, <2>1, ArchiveCopyConstants DEF Alone
  <2>3. \A k \in Jobs : (Running(k)' => k = j) /\ run'[k].at \notin {"guard", "install"}
    BY <1>1, <1>6, <2>2 DEF Running
  <2>4. QED
    BY <2>1, <2>3 DEF Alone, Start, folderVars
<1>8. Short({"lapse", "foreign"})' => Free'
  BY <1>1, <1>3, <1>6, ShortBefore DEF IInv, Free, Start, folderVars
<1>9. QED
  BY <1>4, <1>5, <1>7, <1>8 DEF IInv

\* A run that stops while nothing of it is being saved.
LEMMA StopStep ==
  ASSUME IInv, NEW j \in Jobs, Running(j), run[j].at # "reserving",
         NEW verdict \in {"paused", "synced", "needs-attention", "sync-failed"},
         Stops(j, verdict)
  PROVE  IInv'
<1>1. hazards' \subseteq Hazards
      /\ hazards \subseteq hazards'
  BY HistoryType DEF IInv, Stops
<1>2. TypeOK'
  BY <1>1, RestFits DEF IInv, TypeOK, Fits, Stops, manifestVars, folderVars
<1>3. AtItem'
  BY RestFits DEF IInv, TypeOK, AtItem, Fits, Stops, manifestVars
<1>4. \A k \in Jobs : run'[k] = IF k = j THEN Rest ELSE run[k]
  BY DEF IInv, TypeOK, Stops
<1>5. ASSUME Short({"lapse"})'
      PROVE  Alone'
  <2>1. Alone
    BY <1>1, <1>5, ShortBefore DEF IInv
  <2>2. \A k \in Jobs : Running(k) => k = j
    BY <2>1 DEF Alone
  <2>3. \A k \in Jobs : run'[k].at = "idle"
    BY <1>4, <2>2, RestFits DEF Running
  <2>4. QED
    BY <2>1, <2>3 DEF Alone, Running, Stops, folderVars
<1>6. Short({"lapse", "foreign"})' => Free'
  BY <1>1, <1>4, RestFits, ShortBefore DEF IInv, Free, Stops, folderVars
<1>7. QED
  BY <1>2, <1>3, <1>5, <1>6 DEF IInv

\* A step that changes neither the runs nor what they hold on to.
LEMMA AsideStep ==
  ASSUME IInv, TypeOK',
         UNCHANGED <<run, lock, archive, tmp>>,
         \A j \in Jobs : saving'[<<"reserve", j>>].at = "idle"
                         <=> saving[<<"reserve", j>>].at = "idle",
         hazards \subseteq hazards'
  PROVE  IInv'
<1>1. AtItem'
  BY DEF IInv, AtItem
<1>2. Short({"lapse"})' => Alone'
  BY ShortBefore DEF IInv, Alone, Running
<1>3. Short({"lapse", "foreign"})' => Free'
  BY ShortBefore DEF IInv, Free
<1>4. QED
  BY <1>1, <1>2, <1>3 DEF IInv

LEMMA BlockedStep ==
  ASSUME IInv, NEW j \in Jobs, Blocked(j)
  PROVE  IInv'
<1>1. hazards' \subseteq Hazards
      /\ hazards \subseteq hazards'
  BY HistoryType DEF IInv, Blocked
<1>2. TypeOK'
  BY <1>1 DEF IInv, TypeOK, Blocked, manifestVars, folderVars
<1>3. QED
  BY <1>1, <1>2, AsideStep DEF Blocked, manifestVars, folderVars

LEMMA EndStep ==
  ASSUME IInv, NEW j \in Jobs, EndRun(j) \/ PauseRun(j) \/ Throws(j)
  PROVE  IInv'
<1>1. Running(j) /\ run[j].at # "reserving"
  BY DEF EndRun, PauseRun, Throws, Running
<1>2. Verdict(run[j]) \in {"paused", "synced", "needs-attention", "sync-failed"}
  BY DEF Verdict
<1>3. QED
  BY <1>1, <1>2, StopStep DEF EndRun, PauseRun, Throws

-----------------------------------------------------------------------------
(* The steps of a copy                                                     *)

LEMMA CopyStep ==
  ASSUME IInv, NEW j \in Jobs, Copy(j)
  PROVE  IInv'
<1> DEFINE s == [run[j] EXCEPT !.at = "guard"]
<1>1. run[j].at = "copy" /\ Running(j) /\ Fits(j, run[j])
  BY DEF IInv, TypeOK, AtItem, Copy, Fits, Running
<1>2. Fits(j, s) /\ s.at = "guard"
  BY <1>1 DEF Fits, Run
<1>3. Source(j) \in Contents \union {None}
  BY <1>1, SourceType DEF IInv
<1>4. tmp' \in [Names -> [Exts -> Contents \union {Torn, None}]]
  BY <1>3 DEF Copy, IInv, TypeOK
<1>5. run' = [run EXCEPT ![j] = s]
  BY DEF Copy
<1>6. tmp'[s.to][s.half] # Torn
  <2>1. run[j].to \in Names /\ run[j].half \in Exts
        /\ s.to = run[j].to /\ s.half = run[j].half
    BY <1>1 DEF Fits, Run
  <2>2. tmp'[run[j].to][run[j].half] = Source(j)
    BY <2>1 DEF Copy, IInv, TypeOK
  <2>3. QED
    BY <1>3, <2>1, <2>2, ArchiveCopyConstants
<1>7. QED
  BY <1>1, <1>2, <1>4, <1>5, <1>6, RunStep DEF Copy

LEMMA FileFailsStep ==
  ASSUME IInv, NEW j \in Jobs, FileFails(j)
  PROVE  IInv'
<1>1. run[j].at \notin {"idle", "next", "reserving"} /\ Running(j)
  BY DEF FileFails, Running
<1>2. tmp' \in [Names -> [Exts -> Contents \union {Torn, None}]]
  <2>1. \/ tmp' = tmp
        \/ \E c \in {Torn, None} :
             tmp' = [tmp EXCEPT ![run[j].to][run[j].half] = c]
    BY DEF FileFails
  <2>2. run[j].to \in Names /\ run[j].half \in Exts
    BY DEF IInv, TypeOK, Run
  <2>3. ASSUME NEW c \in {Torn, None},
               tmp' = [tmp EXCEPT ![run[j].to][run[j].half] = c]
        PROVE  tmp' \in [Names -> [Exts -> Contents \union {Torn, None}]]
    BY <2>2, <2>3 DEF IInv, TypeOK
  <2>4. QED
    BY <2>1, <2>3 DEF IInv, TypeOK
<1>3. QED
  BY <1>1, <1>2, AfterFits, RunStep DEF FileFails, IInv

LEMMA InstallStep ==
  ASSUME IInv, NEW j \in Jobs, Install(j)
  PROVE  IInv'
<1> DEFINE r == run[j]
           s == IF r.half = "raw" THEN Succeeds(j) ELSE After(j, TRUE)
<1>1. r.at = "install" /\ Running(j) /\ r \in Run /\ Item(j) \in Items
  BY ItemType DEF IInv, TypeOK, Install, Running
<1>2. Fits(j, s) /\ s.at \notin {"idle", "reserving", "guard", "install"}
  BY <1>1, AfterFits DEF IInv
<1>3. run' = [run EXCEPT ![j] = s]
  BY DEF Install
<1>4. hazards' \subseteq Hazards
      /\ hazards \subseteq hazards'
  BY HistoryType DEF IInv, Install
<1>5. TypeOK'
  <2>1. archive' \in [Names -> [Exts -> Contents \union {Torn, None}]]
        /\ tmp' \in [Names -> [Exts -> Contents \union {Torn, None}]]
    BY <1>1 DEF IInv, TypeOK, Install, Run
  <2>2. placed' \subseteq Items \X Exts \X Names
    BY <1>1 DEF IInv, TypeOK, Install, Run
  <2>3. run' \in [Jobs -> Run]
    BY <1>2, <1>3 DEF IInv, TypeOK, Fits
  <2>4. QED
    BY <1>4, <2>1, <2>2, <2>3 DEF IInv, TypeOK, Install, stageVars, manifestVars
<1>6. AtItem'
  BY <1>1, <1>2, <1>3 DEF IInv, TypeOK, AtItem, Fits, Install, manifestVars
<1>7. \A k \in Jobs : run'[k] = IF k = j THEN s ELSE run[k]
  BY <1>3 DEF IInv, TypeOK
<1>8. ASSUME Short({"lapse"})'
      PROVE  Alone' /\ Free'
  <2>1. Alone
    BY <1>4, <1>8, ShortBefore DEF IInv
  <2>2. \A k \in Jobs : Running(k) => k = j
    BY <1>1, <2>1 DEF Alone
  <2>3. \A k \in Jobs : run'[k].at \notin {"guard", "install"} /\ (Running(k)' => k = j)
    BY <1>2, <1>7, <2>2 DEF Running
  <2>4. \A n \in Names, e \in Exts : archive'[n][e] # Torn
    BY <1>1, <2>1 DEF Alone, Install, IInv, TypeOK
  <2>5. QED
    BY <1>1, <2>1, <2>3, <2>4 DEF Alone, Free, Install
<1>9. Short({"lapse", "foreign"})' => Short({"lapse"})'
  BY DEF Short
<1>10. QED
  BY <1>5, <1>6, <1>8, <1>9 DEF IInv

-----------------------------------------------------------------------------
(* The steps of the manifest                                               *)

LEMMA WithoutType ==
  ASSUME NEW m \in Manifest, NEW gone, NEW items
  PROVE  Without(m, gone, items) \in Manifest
  BY DEF Without, Manifest

\* A writer has read the manifest.
LEMMA SavesStep ==
  ASSUME IInv, NEW j \in Jobs, NEW kind \in {"append", "renumber"},
         NEW doc \in Manifest, Saves(kind, j, doc),
         hazards' \subseteq Hazards, hazards \subseteq hazards'
  PROVE  IInv'
<1>1. saving' \in [Writers -> [at : {"idle", "read", "written"}, doc : Manifest]]
  BY DEF IInv, TypeOK, Saves, Writers
<1>2. TypeOK'
  BY <1>1 DEF IInv, TypeOK, Saves, stageVars, folderVars
<1>3. \A k \in Jobs : saving'[<<"reserve", k>>] = saving[<<"reserve", k>>]
  BY DEF Saves, IInv, TypeOK, Writers
<1>4. QED
  BY <1>2, <1>3, AsideStep DEF Saves, folderVars

LEMMA AppendReadStep ==
  ASSUME IInv, NEW j \in Jobs, AppendRead(j)
  PROVE  IInv'
<1> DEFINE m == manifest[DeviceOf[j]]
<1>1. \E doc : /\ Saves("append", j, doc) /\ doc \in Manifest
                /\ hazards' \subseteq Hazards /\ hazards \subseteq hazards'
  <2>1. m \in Manifest
    BY ArchiveCopyConstants DEF IInv, TypeOK
  <2>2. DOMAIN <<>> = {}
    OBVIOUS
  <2>3. CASE Saves("append", j, Merged(m, {j}, <<>>)) /\ History({})
    <3>1. Merged(m, {j}, <<>>) \in Manifest
      BY <2>1, <2>2, MergedType
    <3>2. QED
      BY <2>3, <3>1, HistoryType DEF IInv
  <2>4. ASSUME NEW old \in m.jobs, History({"cut"}),
               Saves("append", j, Merged(Without(m, {old}, ItemSet(old)), {j}, <<>>))
        PROVE  \E doc : /\ Saves("append", j, doc) /\ doc \in Manifest
                        /\ hazards' \subseteq Hazards /\ hazards \subseteq hazards'
    <3>1. Without(m, {old}, ItemSet(old)) \in Manifest
      BY <2>1, WithoutType
    <3>2. Merged(Without(m, {old}, ItemSet(old)), {j}, <<>>) \in Manifest
      BY <3>1, <2>2, MergedType
    <3>3. QED
      BY <2>4, <3>2, HistoryType DEF IInv
  <2>5. QED
    BY <2>3, <2>4 DEF AppendRead
<1>2. QED
  BY <1>1, SavesStep

LEMMA RenumberReadStep ==
  ASSUME IInv, NEW j \in Jobs, RenumberRead(j)
  PROVE  IInv'
<1>1. hazards' \subseteq Hazards /\ hazards \subseteq hazards'
  BY HistoryType DEF IInv, RenumberRead
<1>2. Without(manifest[DeviceOf[j]], {}, Items) \in Manifest
  BY WithoutType, ArchiveCopyConstants DEF IInv, TypeOK
<1>3. QED
  BY <1>1, <1>2, SavesStep DEF RenumberRead

LEMMA ManifestWriteStep ==
  ASSUME IInv, NEW w \in Writers, ManifestWrite(w)
  PROVE  IInv'
<1>1. hazards' \subseteq Hazards
      /\ hazards \subseteq hazards'
  BY HistoryType DEF IInv, ManifestWrite
<1>2. saving[w].doc \in Manifest
  BY DEF IInv, TypeOK
<1>3. TypeOK'
  BY <1>1, <1>2 DEF IInv, TypeOK, ManifestWrite, stageVars, folderVars
<1>4. \A k \in Jobs : saving'[<<"reserve", k>>].at = "idle"
                      <=> saving[<<"reserve", k>>].at = "idle"
  BY DEF ManifestWrite, IInv, TypeOK, Writers
<1>5. QED
  BY <1>1, <1>3, <1>4, AsideStep DEF ManifestWrite, folderVars

LEMMA NotSavingType == NotSaving \in [at : {"idle", "read", "written"}, doc : Manifest]
  BY DEF NotSaving, NoManifest, Manifest

LEMMA ManifestRenameStep ==
  ASSUME IInv, NEW w \in Writers, ManifestRename(w)
  PROVE  IInv'
<1> DEFINE j == w[2]
           d == DeviceOf[j]
           s == [run[j] EXCEPT !.at = "copy"]
<1>1. hazards' \subseteq Hazards
      /\ hazards \subseteq hazards'
  BY HistoryType DEF IInv, ManifestRename
<1>2. j \in Jobs /\ w[1] \in {"append", "reserve", "renumber"} /\ w = <<w[1], j>>
  BY DEF Writers
<1>3. mtmp[d] \in Manifest
  BY <1>2, ArchiveCopyConstants DEF ManifestRename, IInv, TypeOK
<1>4. /\ manifest' \in [Devices -> Manifest]
      /\ mtmp' \in [Devices -> Manifest \union {None}]
      /\ saving' \in [Writers -> [at : {"idle", "read", "written"}, doc : Manifest]]
  BY <1>3, NotSavingType DEF ManifestRename, IInv, TypeOK
<1>5. CASE w[1] # "reserve"
  <2>1. UNCHANGED <<run, lock, archive, tmp>>
    BY <1>5 DEF ManifestRename, folderVars
  <2>2. TypeOK'
    BY <1>1, <1>2, <1>4, <1>5, <2>1 DEF IInv, TypeOK, ManifestRename, folderVars
  <2>3. \A k \in Jobs : saving'[<<"reserve", k>>] = saving[<<"reserve", k>>]
    BY <1>2, <1>5 DEF ManifestRename, IInv, TypeOK, Writers
  <2>4. QED
    BY <1>1, <2>1, <2>2, <2>3, AsideStep
<1>6. CASE w[1] = "reserve"
  <2>1. run[j].at = "reserving" /\ Fits(j, run[j])
    BY <1>2, <1>6 DEF ManifestRename, IInv, TypeOK, AtItem, Fits
  <2>2. Fits(j, s) /\ s.at = "copy"
    BY <2>1 DEF Fits, Run
  <2>3. run' = [run EXCEPT ![j] = s] /\ UNCHANGED <<lock, archive, tmp>>
    BY <1>6 DEF ManifestRename, folderVars
  <2>4. TypeOK'
    BY <1>1, <1>2, <1>4, <1>6, <2>2, <2>3
       DEF IInv, TypeOK, ManifestRename, folderVars, Fits
  <2>5. AtItem'
    <3>1. saving' = [saving EXCEPT ![<<"reserve", j>>] = NotSaving]
      BY <1>2, <1>6 DEF ManifestRename
    <3>2. \A k \in Jobs : saving'[<<"reserve", k>>].at =
            IF k = j THEN "idle" ELSE saving[<<"reserve", k>>].at
      BY <1>2, <3>1 DEF IInv, TypeOK, Writers, NotSaving
    <3>3. QED
      BY <1>2, <2>2, <2>3, <3>2 DEF IInv, TypeOK, AtItem, Fits
  <2>6. \A k \in Jobs : run'[k] = IF k = j THEN s ELSE run[k]
    BY <2>3 DEF IInv, TypeOK
  <2>7. Short({"lapse"})' => Alone'
    BY <1>1, <2>1, <2>2, <2>3, <2>6, ShortBefore DEF IInv, Alone, Running
  <2>8. Short({"lapse", "foreign"})' => Free'
    BY <1>1, <2>2, <2>3, <2>6, ShortBefore DEF IInv, Free
  <2>9. QED
    BY <2>4, <2>5, <2>7, <2>8 DEF IInv
<1>7. QED
  BY <1>2, <1>5, <1>6

LEMMA ReserveStep ==
  ASSUME IInv, NEW j \in Jobs, Reserve(j)
  PROVE  IInv'
<1> DEFINE r == run[j]
           m == manifest[DeviceOf[j]]
           es == IF r.mode = "pair" THEN Exts ELSE {r.half}
           new == [f \in {Item(j)} \X es |->
                     [to |-> r.to,
                      is |-> IF f[2] = "raw" THEN staged[Item(j)] ELSE xmp[Item(j)]]]
<1>1. r.at = "reserve" /\ Running(j) /\ Fits(j, r)
  BY DEF IInv, TypeOK, AtItem, Reserve, Fits, Running
<1>2. CASE j \in m.jobs
  <2> DEFINE s == [r EXCEPT !.at = "reserving"]
             doc == Merged(m, {}, new)
  <2>1. Fits(j, s) /\ s.at = "reserving"
    BY <1>1 DEF Fits, Run
  <2>2. doc \in Manifest
    <3>1. m \in Manifest
      BY ArchiveCopyConstants DEF IInv, TypeOK
    <3>2. r.to \in Names
      BY <1>1 DEF Fits, Run
    <3>3. \A f \in DOMAIN new : new[f] \in Reservation
      <4>1. staged[Item(j)] \in Contents /\ xmp[Item(j)] \in Contents \union {None}
        BY <1>1, SourceType DEF IInv
      <4>2. QED
        BY <3>2, <4>1 DEF Reservation
    <3>4. QED
      BY <3>1, <3>3, MergedType
  <2>3. /\ saving' = [saving EXCEPT ![<<"reserve", j>>] = [at |-> "read", doc |-> doc]]
        /\ run' = [run EXCEPT ![j] = s]
        /\ UNCHANGED <<stageVars, folderVars, manifest, mtmp, lock>>
        /\ History({})
    BY <1>2 DEF Reserve
  <2>4. hazards' \subseteq Hazards
        /\ hazards \subseteq hazards'
    BY <2>3, HistoryType DEF IInv
  <2>5. TypeOK'
    BY <2>1, <2>2, <2>3, <2>4 DEF IInv, TypeOK, Fits, stageVars, folderVars
  <2>6. AtItem'
    <3>1. \A k \in Jobs : saving'[<<"reserve", k>>].at =
            IF k = j THEN "read" ELSE saving[<<"reserve", k>>].at
      BY <2>3 DEF IInv, TypeOK, Writers
    <3>2. \A k \in Jobs : run'[k] = IF k = j THEN s ELSE run[k]
      BY <2>3 DEF IInv, TypeOK
    <3>3. QED
      BY <2>1, <3>1, <3>2 DEF IInv, AtItem, Fits
  <2>7. \A k \in Jobs : run'[k] = IF k = j THEN s ELSE run[k]
    BY <2>3 DEF IInv, TypeOK
  <2>8. Short({"lapse"})' => Alone'
    BY <1>1, <2>1, <2>3, <2>4, <2>7, ShortBefore DEF IInv, Alone, Running, folderVars
  <2>9. Short({"lapse", "foreign"})' => Free'
    BY <2>1, <2>3, <2>4, <2>7, ShortBefore DEF IInv, Free, folderVars
  <2>10. QED
    BY <2>5, <2>6, <2>8, <2>9 DEF IInv
<1>3. CASE j \notin m.jobs
  <2> DEFINE s == [r EXCEPT !.at = "copy"]
  <2>1. Fits(j, s) /\ s.at = "copy"
    BY <1>1 DEF Fits, Run
  <2>2. Reads(j, s)
    BY <1>3 DEF Reserve, Reads, manifestVars
  <2>3. QED
    BY <1>1, <2>1, <2>2, ReadsStep
<1>4. QED
  BY <1>2, <1>3

LEMMA SaveFailsStep ==
  ASSUME IInv, NEW w \in Writers, SaveFails(w)
  PROVE  IInv'
<1> DEFINE j == w[2]
           s == IF run[j].mode = "pair" THEN Rest ELSE FailsAt(j)
<1>1. hazards' \subseteq Hazards
      /\ hazards \subseteq hazards'
  BY HistoryType DEF IInv, SaveFails
<1>2. j \in Jobs /\ w[1] \in {"append", "reserve", "renumber"} /\ w = <<w[1], j>>
  BY DEF Writers
<1>3. saving' \in [Writers -> [at : {"idle", "read", "written"}, doc : Manifest]]
  BY NotSavingType DEF SaveFails, IInv, TypeOK
<1>4. CASE w[1] # "reserve"
  <2>1. UNCHANGED <<run, lock, archive, tmp, status>>
    BY <1>4 DEF SaveFails, folderVars
  <2>2. TypeOK'
    BY <1>1, <1>3, <2>1 DEF IInv, TypeOK, SaveFails, folderVars
  <2>3. \A k \in Jobs : saving'[<<"reserve", k>>] = saving[<<"reserve", k>>]
    BY <1>2, <1>4 DEF SaveFails, IInv, TypeOK, Writers
  <2>4. QED
    BY <1>1, <2>1, <2>2, <2>3, AsideStep
<1>5. CASE w[1] = "reserve"
  <2>1. run[j].at = "reserving"
    BY <1>2, <1>5 DEF SaveFails, IInv, AtItem
  <2>2. Fits(j, s) /\ s.at \notin {"reserving", "guard", "install"}
    BY <1>2, <2>1, RestFits, AfterFits DEF IInv
  <2>3. run' = [run EXCEPT ![j] = s] /\ UNCHANGED <<archive, tmp>>
    BY <1>5 DEF SaveFails, folderVars
  <2>4. /\ lock' \in {lock, None} /\ (lock' = None \/ lock' = lock)
        /\ run[j].mode = "pair" => lock' = None /\ s = Rest
        /\ run[j].mode # "pair" => lock' = lock
        /\ status' \in {status, [status EXCEPT ![j] = "sync-failed"]}
    BY <1>5 DEF SaveFails
  <2>5. TypeOK'
    BY <1>1, <1>2, <1>3, <2>2, <2>3, <2>4
       DEF IInv, TypeOK, SaveFails, folderVars, Fits
  <2>6. \A k \in Jobs : run'[k] = IF k = j THEN s ELSE run[k]
    BY <2>3 DEF IInv, TypeOK
  <2>7. AtItem'
    <3>1. saving' = [saving EXCEPT ![<<"reserve", j>>] = NotSaving]
      BY <1>2, <1>5 DEF SaveFails
    <3>2. \A k \in Jobs : saving'[<<"reserve", k>>].at =
            IF k = j THEN "idle" ELSE saving[<<"reserve", k>>].at
      BY <1>2, <3>1 DEF IInv, TypeOK, Writers, NotSaving
    <3>3. QED
      BY <2>2, <2>6, <3>2 DEF IInv, AtItem, Fits
  <2>8. ASSUME Short({"lapse"})'
        PROVE  Alone'
    <3>1. Alone
      BY <1>1, <2>8, ShortBefore DEF IInv
    <3>2. \A k \in Jobs : Running(k) => k = j
      BY <1>2, <2>1, <3>1 DEF Alone, Running
    <3>3. lock = j
      BY <1>2, <2>1, <3>1 DEF Alone, Running
    <3>4. \A k \in Jobs : /\ run'[k].at \notin {"guard", "install"}
                          /\ Running(k)' => k = j /\ run[j].mode # "pair"
      BY <2>2, <2>4, <2>6, <3>2, RestFits DEF Running
    <3>5. \A k \in Jobs : Running(k)' => lock' = k
      BY <2>4, <3>3, <3>4
    <3>6. \A n \in Names, e \in Exts : archive'[n][e] # Torn
      BY <2>3, <3>1 DEF Alone
    <3>7. QED
      BY <3>4, <3>5, <3>6 DEF Alone
  <2>9. Short({"lapse", "foreign"})' => Free'
    BY <1>1, <2>2, <2>3, <2>6, ShortBefore DEF IInv, Free
  <2>10. QED
    BY <2>5, <2>7, <2>8, <2>9 DEF IInv
<1>6. QED
  BY <1>2, <1>4, <1>5

-----------------------------------------------------------------------------
(* The steps of the environment                                            *)

LEMMA LosesLockStep ==
  ASSUME IInv, NEW j \in Jobs, LosesLock(j)
  PROVE  IInv'
<1>1. hazards' \subseteq Hazards
      /\ "lapse" \in hazards'
  BY HistoryType DEF IInv, LosesLock
<1>2. TypeOK'
  BY <1>1 DEF IInv, TypeOK, LosesLock, stageVars, manifestVars, folderVars
<1>3. AtItem'
  BY DEF IInv, AtItem, LosesLock, manifestVars
<1>4. ~Short({"lapse"})' /\ ~Short({"lapse", "foreign"})'
  BY <1>1 DEF Short
<1>5. QED
  BY <1>2, <1>3, <1>4 DEF IInv

LEMMA HeartbeatFailsStep ==
  ASSUME IInv, NEW j \in Jobs, HeartbeatFails(j)
  PROVE  IInv'
<1> DEFINE s == [run[j] EXCEPT !.aborted = TRUE]
<1>1. hazards' \subseteq Hazards
      /\ hazards \subseteq hazards'
  BY HistoryType DEF IInv, HeartbeatFails
<1>2. /\ s \in Run /\ s.at = run[j].at /\ s.n = run[j].n /\ s.hasXmp = run[j].hasXmp
      /\ s.mode = run[j].mode /\ s.final = run[j].final /\ s.half = run[j].half
      /\ s.to = run[j].to
  <2>1. run[j] \in Run
    BY DEF IInv, TypeOK
  <2>2. QED
    BY <2>1 DEF Run
<1>3. run' = [run EXCEPT ![j] = s]
  BY DEF HeartbeatFails
<1>4. TypeOK'
  BY <1>1, <1>2, <1>3
     DEF IInv, TypeOK, HeartbeatFails, stageVars, manifestVars, folderVars
<1>5. \A k \in Jobs :
        /\ run'[k].at = run[k].at /\ run'[k].n = run[k].n
        /\ run'[k].hasXmp = run[k].hasXmp /\ run'[k].mode = run[k].mode
        /\ run'[k].final = run[k].final /\ run'[k].half = run[k].half
        /\ run'[k].to = run[k].to
  BY <1>2, <1>3 DEF IInv, TypeOK
<1>6. AtItem'
  <2>1. Fits(j, s)
    BY <1>2 DEF IInv, AtItem, Fits
  <2>2. \A k \in Jobs : run'[k] = IF k = j THEN s ELSE run[k]
    BY <1>3 DEF IInv, TypeOK
  <2>3. saving' = saving
    BY DEF HeartbeatFails, manifestVars
  <2>4. QED
    BY <1>2, <2>1, <2>2, <2>3 DEF IInv, AtItem, Fits
<1>7. Short({"lapse"})' => Alone'
  BY <1>1, <1>5, ShortBefore DEF IInv, Alone, Running, HeartbeatFails, folderVars
<1>8. Short({"lapse", "foreign"})' => Free'
  BY <1>1, <1>5, ShortBefore DEF IInv, Free, HeartbeatFails, folderVars
<1>9. QED
  BY <1>4, <1>6, <1>7, <1>8 DEF IInv

LEMMA AddForeignStep ==
  ASSUME IInv, NEW f \in Foreign, AddForeign(f[1], f[2], f[3])
  PROVE  IInv'
<1>1. f[1] \in Names /\ f[2] \in Exts /\ f[3] \in Contents
  BY ArchiveCopyConstants
<1>2. (IF \E j \in Jobs : Running(j) THEN {"foreign"} ELSE {})
        \in SUBSET Hazards
  OBVIOUS
<1>3. /\ hazards' \subseteq Hazards
      /\ hazards \subseteq hazards'
      /\ (\E j \in Jobs : Running(j)) => "foreign" \in hazards'
  BY <1>2, HistoryType DEF IInv, AddForeign
<1>4. TypeOK'
  BY <1>1, <1>3 DEF IInv, TypeOK, AddForeign, stageVars, manifestVars
<1>5. AtItem'
  BY DEF IInv, AtItem, AddForeign, manifestVars
<1>6. ASSUME Short({"lapse"})'
      PROVE  Alone'
  <2>1. Alone
    BY <1>3, <1>6, ShortBefore DEF IInv
  <2>2. \A n \in Names, e \in Exts : archive'[n][e] # Torn
    BY <1>1, <2>1, ArchiveCopyConstants DEF Alone, AddForeign, IInv, TypeOK
  <2>3. QED
    BY <2>1, <2>2 DEF Alone, Running, AddForeign
<1>7. ASSUME Short({"lapse", "foreign"})'
      PROVE  Free'
  <2>1. \A j \in Jobs : run'[j].at = "idle"
    BY <1>3, <1>7 DEF Short, Running, AddForeign
  <2>2. QED
    BY <2>1 DEF Free
<1>8. QED
  BY <1>4, <1>5, <1>6, <1>7 DEF IInv

LEMMA WriteSidecarStep ==
  ASSUME IInv, NEW j \in Jobs, NEW i \in Items, NEW v \in DOMAIN XmpOf[i],
         WriteSidecar(j, i, v)
  PROVE  IInv'
<1>1. XmpOf[i][v] \in Contents
  <2>1. XmpOf[i] \in Seq(Contents)
    BY ArchiveCopyConstants
  <2>2. QED
    BY <2>1
<1>2. (IF Running(j) THEN {"sidecar"} ELSE {})
        \in SUBSET Hazards
  OBVIOUS
<1>3. hazards' \subseteq Hazards
      /\ hazards \subseteq hazards'
  BY <1>2, HistoryType DEF IInv, WriteSidecar
<1>4. TypeOK'
  BY <1>1, <1>3 DEF IInv, TypeOK, WriteSidecar, manifestVars, folderVars
<1>5. QED
  BY <1>3, <1>4, AsideStep DEF WriteSidecar, manifestVars, folderVars

LEMMA RewriteImageStep ==
  ASSUME IInv, NEW j \in Jobs, NEW i \in Items, NEW c \in EditsOf[i],
         RewriteImage(j, i, c)
  PROVE  IInv'
<1>1. c \in Contents
  BY ArchiveCopyConstants
<1>2. hazards' \subseteq Hazards /\ hazards \subseteq hazards'
  BY HistoryType DEF IInv, RewriteImage
<1>3. TypeOK'
  BY <1>1, <1>2 DEF IInv, TypeOK, RewriteImage, manifestVars, folderVars
<1>4. QED
  BY <1>2, <1>3, AsideStep DEF RewriteImage, manifestVars, folderVars

LEMMA CrashStep ==
  ASSUME IInv, NEW d \in Devices, Crash(d)
  PROVE  IInv'
<1> DEFINE here == {j \in Jobs : DeviceOf[j] = d}
<1>1. hazards' \subseteq Hazards
      /\ hazards \subseteq hazards'
  BY HistoryType DEF IInv, Crash
<1>2. tmp' \in [Names -> [Exts -> Contents \union {Torn, None}]]
  <2>1. \/ tmp' = tmp
        \/ \E j \in Jobs : tmp' = [tmp EXCEPT ![run[j].to][run[j].half] = Torn]
    BY DEF Crash
  <2>2. ASSUME NEW j \in Jobs, tmp' = [tmp EXCEPT ![run[j].to][run[j].half] = Torn]
        PROVE  tmp' \in [Names -> [Exts -> Contents \union {Torn, None}]]
    BY <2>2 DEF IInv, TypeOK
  <2>3. QED
    BY <2>1, <2>2 DEF IInv, TypeOK
<1>3. /\ run' = [j \in Jobs |-> IF j \in here THEN Rest ELSE run[j]]
      /\ saving' = [w \in Writers |-> IF w[2] \in here THEN NotSaving ELSE saving[w]]
      /\ lock' = IF lock \in here THEN None ELSE lock
      /\ UNCHANGED <<stageVars, archive, placed, manifest, mtmp>>
  BY DEF Crash
<1>4. run' \in [Jobs -> Run]
  BY <1>3, RestFits DEF IInv, TypeOK, Fits
<1>5. saving' \in [Writers -> [at : {"idle", "read", "written"}, doc : Manifest]]
  BY <1>3, NotSavingType DEF IInv, TypeOK
<1>6. TypeOK'
  BY <1>1, <1>2, <1>3, <1>4, <1>5 DEF IInv, TypeOK, stageVars
<1>7. AtItem'
  <2>1. \A k \in Jobs : saving'[<<"reserve", k>>].at =
          IF k \in here THEN "idle" ELSE saving[<<"reserve", k>>].at
    BY <1>3 DEF Writers, NotSaving
  <2>2. \A k \in Jobs : run'[k] = IF k \in here THEN Rest ELSE run[k]
    BY <1>3
  <2>3. QED
    BY <2>1, <2>2, RestFits DEF IInv, AtItem, Fits
<1>8. ASSUME Short({"lapse"})'
      PROVE  Alone'
  <2>1. Alone
    BY <1>1, <1>8, ShortBefore DEF IInv
  <2>2. \A k \in Jobs : Running(k)' => k \notin here /\ run'[k] = run[k] /\ lock = k
    BY <1>3, <2>1, RestFits DEF Alone, Running
  <2>3. \A k \in Jobs : Running(k)' => UNCHANGED tmp
    <3>1. UNCHANGED tmp \/ \E j \in here : run[j].at = "copy"
      BY DEF Crash
    <3>2. \A j \in here : run[j].at = "copy" => lock = j
      BY <2>1 DEF Alone, Running
    <3>3. QED
      BY <2>2, <3>1, <3>2
  <2>4. QED
    BY <1>3, <2>1, <2>2, <2>3 DEF Alone, Running
<1>9. Short({"lapse", "foreign"})' => Free'
  BY <1>1, <1>3, RestFits, ShortBefore DEF IInv, Free
<1>10. QED
  BY <1>6, <1>7, <1>8, <1>9 DEF IInv

-----------------------------------------------------------------------------
(* The theorems                                                            *)

LEMMA InitIInv == Init => IInv
<1> SUFFICES ASSUME Init PROVE IInv
  OBVIOUS
<1>1. NoManifest \in Manifest
  BY DEF NoManifest, Manifest
<1>2. TypeOK
  BY <1>1, NotSavingType, RestFits, ArchiveCopyConstants DEF Init, TypeOK, Fits
<1>3. AtItem
  BY RestFits DEF Init, AtItem, Fits, Writers, NotSaving
<1>4. Alone /\ Free
  BY RestFits, ArchiveCopyConstants DEF Init, Alone, Free, Running
<1>5. QED
  BY <1>2, <1>3, <1>4 DEF IInv

LEMMA NextIInv == IInv /\ [Next]_vars => IInv'
<1> SUFFICES ASSUME IInv, [Next]_vars PROVE IInv'
  OBVIOUS
<1>1. ASSUME NEW j \in Jobs, JobStep(j)
      PROVE  IInv'
  BY <1>1, AppendReadStep, RenumberReadStep, StartStep, BlockedStep, NextItemStep, EndStep, LookupStep,
     VerifyStep, ResolveStep, StatStep, ReserveStep, CopyStep, GuardStep, InstallStep,
     FileFailsStep, LosesLockStep, HeartbeatFailsStep, WriteSidecarStep,
     RewriteImageStep DEF JobStep
<1>2. ASSUME NEW w \in Writers, ManifestWrite(w) \/ ManifestRename(w) \/ SaveFails(w)
      PROVE  IInv'
  BY <1>2, ManifestWriteStep, ManifestRenameStep, SaveFailsStep
<1>3. CASE UNCHANGED vars
  BY <1>3 DEF vars, IInv, TypeOK, AtItem, Short, Alone, Free, Running
<1>4. QED
  BY <1>1, <1>2, <1>3, AddForeignStep, CrashStep DEF Next

\* The variables of every run, manifest and folder keep to what they may be.
THEOREM TypeCorrect == Spec => []TypeOK
<1>1. IInv => TypeOK
  BY DEF IInv
<1>2. QED
  BY <1>1, InitIInv, NextIInv, PTL DEF Spec

\* A sync that has its lock, nobody else being in the folder, is alone there, and
\* the name its rename goes to is free until that rename.
THEOREM Invariance == Spec => []IInv
  BY InitIInv, NextIInv, PTL DEF Spec

\* A copy that broke off leaves no part of a file in the archive.
THEOREM NoPartOfAFile == Spec => []NothingTorn
<1>1. IInv => NothingTorn
  BY DEF IInv, NothingTorn, Alone
<1>2. QED
  BY <1>1, Invariance, PTL

\* What a step may do to a file of the archive.
LEMMA KeepsFiles ==
  ASSUME IInv, [Next]_vars, Short({"lapse", "foreign"})',
         NEW n \in Names, NEW e \in Exts, archive[n][e] # None
  PROVE  archive'[n][e] = archive[n][e]
<1>1. ASSUME NEW j \in Jobs, Install(j)
      PROVE  archive'[n][e] = archive[n][e]
  <2>1. hazards \subseteq hazards'
    BY <1>1, HistoryType DEF IInv, Install
  <2>2. Free
    BY <2>1, ShortBefore DEF IInv
  <2>3. archive[run[j].final][run[j].half] = None
    BY <1>1, <2>2 DEF Free, Install
  <2>4. archive' = [archive EXCEPT ![run[j].final][run[j].half] =
                      tmp[run[j].to][run[j].half]]
    BY <1>1 DEF Install
  <2>5. run[j].final # n \/ run[j].half # e
    BY <2>3
  <2>6. QED
    BY <2>4, <2>5 DEF IInv, TypeOK
<1>2. ASSUME NEW f \in Foreign, AddForeign(f[1], f[2], f[3])
      PROVE  archive'[n][e] = archive[n][e]
  <2>1. archive[f[1]][f[2]] = None
        /\ archive' = [archive EXCEPT ![f[1]][f[2]] = f[3]]
    BY <1>2 DEF AddForeign
  <2>2. f[1] # n \/ f[2] # e
    BY <2>1
  <2>3. QED
    BY <2>1, <2>2 DEF IInv, TypeOK
<1>3. ASSUME NEW j \in Jobs, JobStep(j), ~Install(j)
      PROVE  archive' = archive
  BY <1>3 DEF JobStep, AppendRead, RenumberRead, Saves, Start, Blocked, NextItem, EndRun, PauseRun, Throws,
     Stops, Lookup, Verify, Resolve, Stat, Guard, Reads, Reserve, Copy, FileFails,
     LosesLock, HeartbeatFails, WriteSidecar, RewriteImage, folderVars
<1>4. ASSUME NEW w \in Writers, ManifestWrite(w) \/ ManifestRename(w) \/ SaveFails(w)
      PROVE  archive' = archive
  BY <1>4 DEF ManifestWrite, ManifestRename, SaveFails, folderVars
<1>5. ASSUME NEW d \in Devices, Crash(d)
      PROVE  archive' = archive
  BY <1>5 DEF Crash
<1>6. QED
  BY <1>1, <1>2, <1>3, <1>4, <1>5 DEF Next, vars

\* No sync, retry or crash replaces or removes a file of the archive, as long as
\* the sync keeps its lock and nobody else adds files meanwhile.
THEOREM NoOverwrite == Spec => NothingOverwritten
<1> DEFINE Kept == Short({"lapse", "foreign"})' =>
             \A n \in Names, e \in Exts :
               archive[n][e] # None => archive'[n][e] = archive[n][e]
<1>1. IInv /\ [Next]_vars => [Kept]_vars
  BY KeepsFiles
<1>2. QED
  BY <1>1, Invariance, PTL DEF Spec, NothingOverwritten

-----------------------------------------------------------------------------
(* The places of the files: what the steps have in common                  *)

\* What a run of job j may be like in this state.
Good(j, r) ==
  /\ Form(j, r)
  /\ Short(Losses) => Pending(j, r)
  /\ Short(PlaceHazards) => Aims(j, r)
  /\ Short(Hazards) => Done(j, r)

\* What is short of more is short of less, and was so before a step.
LEMMA Shorts ==
  ASSUME hazards \subseteq hazards'
  PROVE  /\ Short(Losses)' => Short(Losses)
         /\ Short(PlaceHazards)' =>
              /\ Short(PlaceHazards)
              /\ Short(Losses)' /\ Short({"lapse"})' /\ Short({"lapse", "foreign"})'
         /\ Short(Hazards)' =>
              /\ Short(Hazards)
              /\ Short(PlaceHazards)'
         /\ Short(PlaceHazards) =>
              Short(Losses) /\ Short({"lapse"}) /\ Short({"lapse", "foreign"})
         /\ Short(Hazards) =>
              Short(PlaceHazards)
  BY DEF Short

\* A step that changes one run and nothing of the manifest.
LEMMA BookRun ==
  ASSUME KeepInv, IInv', NEW j \in Jobs, NEW r,
         run' = [run EXCEPT ![j] = r],
         UNCHANGED <<manifest, mtmp, saving>>,
         \A k \in Jobs : k # j => status'[k] = status[k],
         status[j] # "importing", status'[j] # "importing",
         r.at # "idle" => status'[j] = "syncing",
         \/ run[j].at # "reserving" /\ r.at # "reserving"
         \/ r.at = run[j].at /\ r.n = run[j].n,
         hazards \subseteq hazards',
         Form(j, r),
         Short(Losses) => Pending(j, r)
  PROVE  BookInv'
<1>1. \A k \in Jobs : run'[k] = IF k = j THEN r ELSE run[k]
  BY DEF KeepInv, IInv, TypeOK
<1>2. Forms'
  <2>1. \A k \in Jobs : Form(k, run'[k])
    BY <1>1 DEF KeepInv, BookInv, Forms
  <2>2. \A k \in Jobs : Running(k)' => status'[k] = "syncing"
    BY <1>1 DEF KeepInv, BookInv, Forms, Running
  <2>3. \A k \in Jobs : saving'[<<"append", k>>].at # "idle" => status'[k] = "importing"
    BY DEF KeepInv, BookInv, Forms
  <2>4. QED
    BY <2>1, <2>2, <2>3 DEF Forms, Form, ItemAt
<1>3. ASSUME Short(Losses)'
      PROVE  Books'
  <2>1. Books /\ Short(Losses)
    BY <1>3, Shorts DEF KeepInv, BookInv
  <2>2. ~Overlap'
    BY <2>1 DEF Books, Overlap
  <2>3. \A k \in Jobs : status'[k] # "importing" => k \in manifest'[DeviceOf[k]].jobs
    BY <2>1 DEF Books
  <2>4. ASSUME NEW w \in Writers, saving'[w].at # "idle"
        PROVE  Adds(w)'
    <3>1. Adds(w)
      BY <2>1, <2>4 DEF Books
    <3>2. w[1] = "reserve" => Item(w[2])' = Item(w[2])
      <4>1. w[1] = "reserve" => w = <<"reserve", w[2]>> /\ w[2] \in Jobs
        BY DEF Writers
      <4>2. w[1] = "reserve" => run[w[2]].at = "reserving"
        BY <2>4, <4>1 DEF KeepInv, IInv, AtItem
      <4>3. w[1] = "reserve" => run'[w[2]].n = run[w[2]].n
        BY <1>1, <4>1, <4>2
      <4>4. QED
        BY <4>3 DEF Item
    <3>3. QED
      BY <3>1, <3>2 DEF Adds, Doc
  <2>5. \A k \in Jobs : Pending(k, run'[k])
    BY <1>1, <2>1 DEF Books
  <2>6. \A k \in Jobs : Pending(k, run[k])'
    BY <2>5 DEF Pending, Resv, Doc, ItemAt, Bare
  <2>7. QED
    BY <2>1, <2>2, <2>3, <2>4, <2>6 DEF Books
<1>4. QED
  BY <1>2, <1>3 DEF BookInv

\* A step that changes one run, and perhaps a temporary file and the card.
LEMMA RunKeeps ==
  ASSUME KeepInv, IInv', NEW j \in Jobs, NEW r,
         run' = [run EXCEPT ![j] = r],
         UNCHANGED <<manifest, mtmp, saving, archive, placed, staged, xmp>>,
         \A k \in Jobs : k # j => status'[k] = status[k],
         status[j] # "importing", status'[j] # "importing",
         r.at # "idle" => status'[j] = "syncing",
         tmp' = tmp \/ Running(j),
         \/ run[j].at # "reserving" /\ r.at # "reserving"
         \/ r.at = run[j].at /\ r.n = run[j].n,
         hazards \subseteq hazards',
         Form(j, r),
         Short(Losses) => Pending(j, r),
         Short(PlaceHazards)' => Aims(j, r)',
         Short(Hazards)' => Done(j, r)'
  PROVE  KeepInv'
<1>1. \A k \in Jobs : run'[k] = IF k = j THEN r ELSE run[k]
  BY DEF KeepInv, IInv, TypeOK
<1>2. BookInv'
  BY BookRun
<1>4. ASSUME Short(PlaceHazards)'
      PROVE  /\ \A k \in Jobs : Aims(k, run[k])'
             /\ \A p \in placed' : InPlace(p)'
  <2>1. /\ \A k \in Jobs : Aims(k, run[k])
        /\ \A p \in placed : InPlace(p)
        /\ Alone
    BY <1>4, Shorts DEF KeepInv, PlaceInv, IInv
  <2>2. \A p \in placed' : InPlace(p)'
    BY <2>1 DEF InPlace, Dest, Resv
  <2>3. ASSUME NEW k \in Jobs, k # j
        PROVE  Aims(k, run[k])'
    <3>1. run'[k] = run[k] /\ Aims(k, run[k])
      BY <1>1, <2>1, <2>3
    <3>2. CASE tmp' = tmp
      BY <3>1, <3>2 DEF Aims, Dest, Resv, ItemAt
    <3>3. CASE Running(j)
      <4>1. run'[k].at = "idle"
        BY <2>1, <2>3, <3>1, <3>3 DEF Alone, Running
      <4>2. QED
        BY <4>1 DEF Aims
    <3>4. QED
      BY <3>2, <3>3
  <2>4. Aims(j, run[j])'
    BY <1>1, <1>4 DEF Aims, Dest, Resv, ItemAt
  <2>5. QED
    BY <2>2, <2>3, <2>4
<1>5. ASSUME Short(Hazards)'
      PROVE  \A k \in Jobs : Done(k, run[k])'
  <2>1. /\ \A k \in Jobs : Done(k, run[k])
        /\ Alone
    BY <1>5, Shorts DEF KeepInv, DoneInv, IInv
  <2>2. ASSUME NEW k \in Jobs, k # j
        PROVE  Done(k, run[k])'
    <3>1. run'[k] = run[k] /\ Done(k, run[k])
      BY <1>1, <2>1, <2>2
    <3>2. CASE tmp' = tmp
      BY <3>1, <3>2 DEF Done, Archived, ItemAt
    <3>3. CASE Running(j)
      <4>1. run'[k].at = "idle"
        BY <2>1, <2>2, <3>1, <3>3 DEF Alone, Running
      <4>2. QED
        BY <4>1 DEF Done
    <3>4. QED
      BY <3>2, <3>3
  <2>3. Done(j, run[j])'
    BY <1>1, <1>5 DEF Done, Archived, ItemAt
  <2>4. QED
    BY <2>2, <2>3
<1>6. QED
  BY <1>2, <1>4, <1>5 DEF KeepInv, PlaceInv, DoneInv

\* A step of a run that only reads.
LEMMA ReadsKeeps ==
  ASSUME KeepInv, IInv', NEW j \in Jobs, NEW r, Running(j), run[j].at # "reserving",
         r.at # "reserving", Reads(j, r), Good(j, r)
  PROVE  KeepInv'
<1>1. /\ run' = [run EXCEPT ![j] = r]
      /\ UNCHANGED <<manifest, mtmp, saving, archive, placed, staged, xmp, tmp, status>>
      /\ hazards \subseteq hazards'
  BY DEF Reads, History, stageVars, manifestVars, folderVars
<1>2. status[j] = "syncing"
  BY DEF KeepInv, BookInv, Forms
<1>3. Short(PlaceHazards)' => Aims(j, r)'
  BY <1>1, Shorts DEF Good, Aims, Dest, Resv, ItemAt
<1>4. Short(Hazards)' => Done(j, r)'
  BY <1>1, Shorts DEF Good, Done, Archived, ItemAt
<1>5. QED
  BY <1>1, <1>2, <1>3, <1>4, RunKeeps DEF Good

\* The XMP of the pair is next.
Moves(j, ok) ==
  run[j].half = "raw" /\ run[j].hasXmp /\ (ok \/ run[j].mode = "duplicate")

\* What a file that is done or has failed makes of its run.
Outcome(j, ok, s) ==
  /\ s.at = After(j, ok).at /\ s.n = After(j, ok).n
  /\ s.half = After(j, ok).half /\ s.mode = After(j, ok).mode
  /\ s.hasXmp = After(j, ok).hasXmp /\ s.to = After(j, ok).to
  /\ ~s.errors => ~run[j].errors
  /\ ~s.conflict => ~run[j].conflict
  /\ s.aborted = run[j].aborted

LEMMA Outcomes ==
  ASSUME KeepInv, NEW j \in Jobs, run[j].at \notin {"idle", "next"}
  PROVE  /\ Outcome(j, TRUE, Succeeds(j)) /\ Outcome(j, FALSE, FailsAt(j))
         /\ FailsAt(j).errors
         /\ \A ok \in BOOLEAN : Outcome(j, ok, After(j, ok))
         /\ Outcome(j, TRUE, [After(j, TRUE) EXCEPT !.conflict = TRUE])
         /\ [After(j, TRUE) EXCEPT !.conflict = TRUE].conflict
<1>1. ASSUME NEW ok \in BOOLEAN
      PROVE  /\ After(j, ok) \in Run
             /\ After(j, ok).aborted = run[j].aborted
             /\ After(j, ok).errors = run[j].errors
             /\ After(j, ok).conflict = run[j].conflict
  <2>1. After(j, ok) \in Run
    BY AfterFits DEF KeepInv, IInv, Fits
  <2>2. run[j] \in Run
    BY DEF KeepInv, IInv, TypeOK
  <2>3. QED
    BY <2>1, <2>2 DEF After, Run
<1>2. \A ok \in BOOLEAN : Outcome(j, ok, After(j, ok))
  BY <1>1 DEF Outcome
<1>3. Outcome(j, TRUE, Succeeds(j))
  BY <1>1 DEF Outcome, Succeeds, Run
<1>4. Outcome(j, FALSE, FailsAt(j)) /\ FailsAt(j).errors
  BY <1>1 DEF Outcome, FailsAt, Run
<1>5. /\ Outcome(j, TRUE, [After(j, TRUE) EXCEPT !.conflict = TRUE])
      /\ [After(j, TRUE) EXCEPT !.conflict = TRUE].conflict
  BY <1>1 DEF Outcome, Run
<1>6. QED
  BY <1>2, <1>3, <1>4, <1>5

\* What a run may be like when the file it is at is settled.
LEMMA AfterGood ==
  ASSUME KeepInv, NEW j \in Jobs, NEW ok \in BOOLEAN, NEW s,
         run[j].at \notin {"idle", "next"},
         Outcome(j, ok, s),
         Moves(j, ok) => run[j].mode # "pair",
         Short(PlaceHazards) /\ Moves(j, ok) /\ run[j].mode = "reserved" =>
           run[j].to = Dest(j, Item(j)) /\ archive[run[j].to]["raw"] = staged[Item(j)],
         Short(Hazards)
           /\ ~Moves(j, ok) /\ ~s.errors /\ ~s.conflict /\ ~s.aborted => Archived(Item(j))
  PROVE  Good(j, s) /\ s.at \notin {"idle", "reserving"}
<1> DEFINE r == run[j]
<1>1. /\ r \in Run /\ r.n \in DOMAIN ItemsOf[j] /\ Item(j) = ItemAt(j, r)
      /\ Form(j, r)
  BY DEF KeepInv, IInv, TypeOK, AtItem, BookInv, Forms, Item, ItemAt
<1>2. Short(Losses) => Pending(j, r)
  BY DEF KeepInv, BookInv, Books
<1>3. Short(PlaceHazards) => Aims(j, r)
  BY DEF KeepInv, PlaceInv
<1>4. Short(Hazards) => Done(j, r)
  BY DEF KeepInv, DoneInv
<1>5. CASE Moves(j, ok)
  <2>1. r.mode \in {"reserved", "duplicate"}
    BY <1>1, <1>5 DEF Run, Modes, Form, Moves
  <2>2. /\ s.half = "xmp" /\ s.n = r.n /\ s.mode = r.mode /\ s.hasXmp
        /\ s.at = (IF r.mode = "duplicate" THEN "stat" ELSE "lookup")
        /\ s.to = (IF r.mode = "duplicate" THEN NameOf[Item(j)] ELSE r.to)
    BY <1>1, <1>5, <2>1 DEF After, XmpAt, Run, Moves, Outcome
  <2>3. ItemAt(j, s) = Item(j)
    BY <1>1, <2>2 DEF ItemAt
  <2>4. Form(j, s)
    BY <2>1, <2>2 DEF Form
  <2>5. Short(Losses) => Pending(j, s)
    BY <1>1, <1>2, <2>1, <2>2, <2>3 DEF Pending, Bare
  <2>6. ASSUME Short(PlaceHazards)
        PROVE  Aims(j, s)
    <3>1. Aims(j, r) /\ Pending(j, r)
      BY <1>2, <1>3, <2>6 DEF Short
    <3>2. CASE r.mode = "reserved"
      BY <1>1, <1>5, <2>2, <2>3, <2>6, <3>2 DEF Aims, Moves
    <3>3. CASE r.mode = "duplicate"
      <4>1. Dest(j, Item(j)) = NameOf[Item(j)]
        BY <1>1, <3>1, <3>3 DEF Pending, Bare, Dest
      <4>2. archive[Dest(j, Item(j))]["raw"] = staged[Item(j)]
        BY <1>1, <3>1, <3>3 DEF Aims
      <4>3. QED
        BY <2>2, <2>3, <3>3, <4>1, <4>2 DEF Aims
    <3>4. QED
      BY <2>1, <3>2, <3>3
  <2>7. ASSUME Short(Hazards)
        PROVE  Done(j, s)
    <3>1. s.hasXmp <=> xmp[ItemAt(j, s)] # None
      BY <1>1, <1>4, <1>5, <2>2, <2>3, <2>7 DEF Done, Moves
    <3>2. ~s.errors /\ ~s.conflict /\ ~s.aborted =>
            \A k \in DOMAIN ItemsOf[j] : k < s.n => Archived(ItemsOf[j][k])
      BY <1>4, <2>2, <2>7 DEF Done, Outcome
    <3>3. s.at \notin {"guard", "install"}
      BY <2>2
    <3>4. QED
      BY <3>1, <3>2, <3>3 DEF Done
  <2>8. QED
    BY <2>2, <2>4, <2>5, <2>6, <2>7 DEF Good
<1>6. CASE ~Moves(j, ok)
  <2>1. s.at = "next" /\ s.n = r.n + 1
    BY <1>1, <1>6 DEF After, Run, Moves, Outcome
  <2>2. Form(j, s) /\ Pending(j, s) /\ Aims(j, s)
    BY <2>1 DEF Form, Pending, Aims, Bare
  <2>3. ASSUME Short(Hazards)
        PROVE  Done(j, s)
    <3>1. ASSUME ~s.errors, ~s.conflict, ~s.aborted,
                 NEW k \in DOMAIN ItemsOf[j], k < s.n
          PROVE  Archived(ItemsOf[j][k])
      <4>1. k \in Nat /\ r.n \in Nat
        <5>1. ItemsOf[j] \in Seq(Items)
          BY ArchiveCopyConstants
        <5>2. QED
          BY <1>1, <5>1 DEF Run
      <4>2. k < r.n \/ k = r.n
        BY <2>1, <3>1, <4>1
      <4>3. k < r.n => Archived(ItemsOf[j][k])
        BY <1>4, <2>3, <3>1 DEF Done, Outcome
      <4>4. k = r.n => Archived(ItemsOf[j][k])
        BY <1>6, <2>3, <3>1 DEF Item
      <4>5. QED
        BY <4>2, <4>3, <4>4
    <3>2. QED
      BY <2>1, <3>1 DEF Done
  <2>4. QED
    BY <2>1, <2>2, <2>3 DEF Good
<1>7. QED
  BY <1>5, <1>6

\* What the invariant says of a run past the top of its loop.
LEMMA RunFacts ==
  ASSUME KeepInv, NEW j \in Jobs, run[j].at \notin {"idle", "next"}
  PROVE  /\ Running(j) /\ run[j] \in Run /\ run[j].n \in DOMAIN ItemsOf[j]
         /\ Item(j) \in Items /\ Item(j) = ItemAt(j, run[j])
         /\ NameOf[Item(j)] \in Names /\ staged[Item(j)] \in Contents
         /\ Form(j, run[j])
         /\ Short(Losses) => Pending(j, run[j])
         /\ Short(PlaceHazards) => Pending(j, run[j]) /\ Aims(j, run[j])
         /\ Short(Hazards) =>
              Pending(j, run[j]) /\ Aims(j, run[j]) /\ Done(j, run[j])
<1>1. /\ run[j] \in Run /\ run[j].n \in DOMAIN ItemsOf[j] /\ Running(j)
      /\ Form(j, run[j]) /\ Item(j) = ItemAt(j, run[j])
  BY DEF KeepInv, IInv, TypeOK, AtItem, BookInv, Forms, Item, ItemAt, Running
<1>2. Item(j) \in Items /\ NameOf[Item(j)] \in Names /\ staged[Item(j)] \in Contents
  BY ItemType, SourceType DEF KeepInv, IInv
<1>3. /\ Short(PlaceHazards) => Short(Losses)
      /\ Short(Hazards) =>
           Short(PlaceHazards)
  BY DEF Short
<1>4. QED
  BY <1>1, <1>2, <1>3 DEF KeepInv, BookInv, Books, PlaceInv, DoneInv

-----------------------------------------------------------------------------
(* The places of the files: the steps that only read                       *)

\* The next item of the list: its own name, and a pair if an XMP is beside it.
LEMMA NextItemKeeps ==
  ASSUME KeepInv, IInv', NEW j \in Jobs, NextItem(j)
  PROVE  KeepInv'
<1> DEFINE has == xmp[Item(j)] # None
<1>1. PICK r : r = [run[j] EXCEPT !.at = "lookup", !.half = "raw", !.hasXmp = has,
                                  !.to = NameOf[Item(j)],
                                  !.mode = IF has THEN "pair" ELSE "single"]
  OBVIOUS
<1>2. run[j] \in Run /\ run[j].at = "next" /\ Running(j)
  BY DEF KeepInv, IInv, TypeOK, NextItem, Running
<1>3. /\ r.at = "lookup" /\ r.half = "raw" /\ r.n = run[j].n /\ r.hasXmp = has
      /\ r.to = NameOf[Item(j)] /\ r.mode = (IF has THEN "pair" ELSE "single")
      /\ r.errors = run[j].errors /\ r.conflict = run[j].conflict
      /\ r.aborted = run[j].aborted
  BY <1>1, <1>2 DEF Run
<1>4. ItemAt(j, r) = Item(j)
  BY <1>3 DEF ItemAt, Item
<1>5. Form(j, r) /\ Pending(j, r) /\ Aims(j, r)
  BY <1>3, <1>4 DEF Form, Pending, Bare, Aims
<1>6. Short(Hazards) => Done(j, r)
  BY <1>2, <1>3, <1>4 DEF KeepInv, DoneInv, Done
<1>7. Reads(j, r)
  BY <1>1 DEF NextItem, Reads
<1>8. QED
  BY <1>2, <1>3, <1>5, <1>6, <1>7, ReadsKeeps DEF Good

\* The file a run is at is settled, by a step that only reads.
LEMMA SettledKeeps ==
  ASSUME KeepInv, IInv', NEW j \in Jobs, NEW ok \in BOOLEAN, NEW s,
         run[j].at \notin {"idle", "next", "reserving"},
         Outcome(j, ok, s), Reads(j, s),
         Moves(j, ok) => run[j].mode # "pair",
         Short(PlaceHazards) /\ Moves(j, ok) /\ run[j].mode = "reserved" =>
           run[j].to = Dest(j, Item(j)) /\ archive[run[j].to]["raw"] = staged[Item(j)],
         Short(Hazards)
           /\ ~Moves(j, ok) /\ ~s.errors /\ ~s.conflict /\ ~s.aborted => Archived(Item(j))
  PROVE  KeepInv'
<1>1. Good(j, s) /\ s.at \notin {"idle", "reserving"}
  BY AfterGood
<1>2. Running(j)
  BY DEF Running
<1>3. QED
  BY <1>1, <1>2, ReadsKeeps

\* What the reservation says is the place of the item, for both files of a pair.
LEMMA LookupKeeps ==
  ASSUME KeepInv, IInv', NEW j \in Jobs, Lookup(j)
  PROVE  KeepInv'
<1> DEFINE r == run[j]
           rs == manifest[DeviceOf[j]].resv[<<Item(j), r.half>>]
<1>1. /\ r.at = "lookup" /\ Running(j) /\ r \in Run /\ Form(j, r)
      /\ Item(j) \in Items /\ Item(j) = ItemAt(j, r)
      /\ Short(PlaceHazards) => Aims(j, r)
      /\ Short(Hazards) => Done(j, r)
  BY RunFacts DEF Lookup
<1>2. CASE r.mode = "single" /\ r.aborted
  <2>1. ~Moves(j, FALSE)
    BY <1>2 DEF Moves
  <2>2. Reads(j, After(j, FALSE))
    BY <1>2 DEF Lookup
  <2>3. Outcome(j, FALSE, After(j, FALSE)) /\ After(j, FALSE).aborted
    BY <1>1, <1>2, Outcomes DEF Outcome
  <2>4. QED
    BY <1>1, <2>1, <2>2, <2>3, SettledKeeps
<1>3. CASE ~(r.mode = "single" /\ r.aborted) /\ rs # None
  <2>1. PICK s : s = [r EXCEPT !.at = "verify", !.to = rs.to, !.is = rs.is,
                               !.mode = IF @ = "pair" THEN "reserved" ELSE @]
    OBVIOUS
  <2>2. /\ s.at = "verify" /\ s.to = rs.to /\ s.n = r.n /\ s.half = r.half
        /\ s.mode = (IF r.mode = "pair" THEN "reserved" ELSE r.mode)
        /\ s.hasXmp = r.hasXmp /\ s.errors = r.errors /\ s.conflict = r.conflict
        /\ s.aborted = r.aborted
    BY <1>1, <2>1 DEF Run
  <2>3. ItemAt(j, s) = Item(j)
    BY <1>1, <2>2 DEF ItemAt
  <2>4. Form(j, s) /\ Pending(j, s)
    BY <1>1, <2>2 DEF Form, Pending, Bare
  <2>5. ASSUME Short(PlaceHazards)
        PROVE  Aims(j, s)
    <3>1. Booked(manifest[DeviceOf[j]])
      BY <2>5, Shorts, ArchiveCopyConstants DEF KeepInv, BookInv, Books, Short
    <3>2. s.to = Dest(j, Item(j))
      <4>1. CASE r.half = "raw"
        BY <1>3, <2>2, <4>1 DEF Dest, Resv
      <4>2. CASE r.half = "xmp"
        BY <1>1, <1>3, <2>2, <3>1, <4>2 DEF Booked, Dest, Resv
      <4>3. QED
        BY <1>1, <4>1, <4>2 DEF Run, Exts
    <3>3. r.half = "xmp" => archive[Dest(j, Item(j))]["raw"] = staged[Item(j)]
      BY <1>1, <2>5 DEF Aims
    <3>4. QED
      BY <1>1, <2>2, <2>3, <3>2, <3>3 DEF Aims, Form
  <2>6. Short(Hazards) => Done(j, s)
    BY <1>1, <2>2, <2>3 DEF Done
  <2>7. Reads(j, s)
    BY <1>3, <2>1 DEF Lookup
  <2>8. QED
    BY <1>1, <2>2, <2>4, <2>5, <2>6, <2>7, ReadsKeeps DEF Good
<1>4. CASE ~(r.mode = "single" /\ r.aborted) /\ rs = None
  <2>1. PICK s : s = [r EXCEPT !.at = IF r.mode = "pair" THEN "resolve" ELSE "stat"]
    OBVIOUS
  <2>2. /\ s.at = (IF r.mode = "pair" THEN "resolve" ELSE "stat")
        /\ s.to = r.to /\ s.n = r.n /\ s.half = r.half
        /\ s.mode = r.mode /\ s.hasXmp = r.hasXmp /\ s.errors = r.errors
        /\ s.conflict = r.conflict /\ s.aborted = r.aborted
    BY <1>1, <2>1 DEF Run
  <2>3. ItemAt(j, s) = Item(j)
    BY <1>1, <2>2 DEF ItemAt
  <2>4. Form(j, s)
    BY <1>1, <2>2, <2>3 DEF Form
  <2>5. Pending(j, s)
    BY <1>1, <1>4, <2>2, <2>3 DEF Form, Pending, Bare, Resv
  <2>6. Short(PlaceHazards) => Aims(j, s)
    <3>1. r.half = "raw" => r.to = Dest(j, Item(j))
      BY <1>1, <1>4 DEF Form, Dest, Resv
    <3>2. QED
      BY <1>1, <2>2, <2>3, <3>1 DEF Aims, Form, Run, Exts
  <2>7. Short(Hazards) => Done(j, s)
    BY <1>1, <2>2, <2>3 DEF Done
  <2>8. Reads(j, s)
    BY <1>4, <2>1 DEF Lookup
  <2>9. QED
    BY <1>1, <2>2, <2>4, <2>5, <2>6, <2>7, <2>8, ReadsKeeps DEF Good
<1>5. QED
  BY <1>2, <1>3, <1>4

\* A file found where it was reserved is archived; one that is missing goes there.
LEMMA VerifyKeeps ==
  ASSUME KeepInv, IInv', NEW j \in Jobs, Verify(j)
  PROVE  KeepInv'
<1> DEFINE r == run[j]
<1>1. /\ r.at = "verify" /\ Running(j) /\ r \in Run /\ Form(j, r)
      /\ Item(j) = ItemAt(j, r)
      /\ Short(PlaceHazards) => Aims(j, r)
      /\ Short(Hazards) => Aims(j, r) /\ Done(j, r)
  BY RunFacts DEF Verify
<1>2. CASE Reads(j, FailsAt(j))
  <2>1. ~Moves(j, FALSE)
    BY <1>1 DEF Moves, Form
  <2>2. Outcome(j, FALSE, FailsAt(j)) /\ FailsAt(j).errors
    BY <1>1, Outcomes
  <2>3. QED
    BY <1>1, <1>2, <2>1, <2>2, SettledKeeps
<1>3. CASE There(j) = None /\ Reads(j, [r EXCEPT !.at = "copy"])
  <2>1. PICK s : s = [r EXCEPT !.at = "copy"]
    OBVIOUS
  <2>2. /\ s.at = "copy" /\ s.to = r.to /\ s.n = r.n /\ s.half = r.half
        /\ s.mode = r.mode /\ s.hasXmp = r.hasXmp /\ s.errors = r.errors
        /\ s.conflict = r.conflict /\ s.aborted = r.aborted
    BY <1>1, <2>1 DEF Run
  <2>3. ItemAt(j, s) = Item(j)
    BY <1>1, <2>2 DEF ItemAt
  <2>4. Form(j, s) /\ Pending(j, s)
    BY <1>1, <2>2 DEF Form, Pending, Bare
  <2>5. Short(PlaceHazards) => Aims(j, s)
    BY <1>1, <1>3, <2>2, <2>3 DEF Aims, Form, There
  <2>6. Short(Hazards) => Done(j, s)
    BY <1>1, <2>2, <2>3 DEF Done
  <2>7. QED
    BY <1>1, <1>3, <2>1, <2>2, <2>4, <2>5, <2>6, ReadsKeeps DEF Good
<1>4. CASE There(j) # None /\ There(j) = Source(j) /\ Reads(j, Succeeds(j))
  <2>1. Moves(j, TRUE) => r.mode = "reserved" /\ r.half = "raw"
    BY <1>1 DEF Moves, Form
  <2>2. Outcome(j, TRUE, Succeeds(j))
    BY <1>1, Outcomes
  <2>3. Short(PlaceHazards) => r.to = Dest(j, Item(j))
    BY <1>1 DEF Aims
  <2>4. r.half = "raw" => archive[r.to]["raw"] = staged[Item(j)]
    BY <1>4 DEF There, Source
  <2>5. Short(Hazards) /\ ~Moves(j, TRUE) =>
          Archived(Item(j))
    <3>1. r.half = "raw" /\ ~r.hasXmp /\ Done(j, r) => xmp[Item(j)] = None
      BY <1>1 DEF Done
    <3>2. r.half = "xmp" => archive[r.to]["xmp"] = xmp[Item(j)]
      BY <1>4 DEF There, Source
    <3>3. r.half = "xmp" /\ Aims(j, r) => archive[r.to]["raw"] = staged[Item(j)]
      BY <1>1 DEF Aims
    <3>4. r.to \in Names /\ r.half \in {"raw", "xmp"}
      BY <1>1 DEF Run, Exts
    <3>5. QED
      BY <1>1, <2>4, <3>1, <3>2, <3>3, <3>4 DEF Archived, Moves
  <2>6. QED
    BY <1>1, <1>4, <2>1, <2>2, <2>3, <2>4, <2>5, SettledKeeps
<1>5. QED
  BY <1>2, <1>3, <1>4 DEF Verify

\* No two jobs have an item in common.
LEMMA OneOwner ==
  ASSUME NEW j \in Jobs, NEW l \in Jobs, NEW i, Owns(j, i), Owns(l, i)
  PROVE  j = l
  BY ArchiveCopyConstants DEF Owns

\* An item that is not in its place has not been put anywhere.
LEMMA NotPlaced ==
  ASSUME KeepInv, Short(PlaceHazards), NEW j \in Jobs, NEW i,
         Owns(j, i), archive[Dest(j, i)]["raw"] # staged[i]
  PROVE  \A p \in placed : p[1] # i
<1> SUFFICES ASSUME NEW p \in placed, p[1] = i PROVE FALSE
  OBVIOUS
<1>1. PICK l \in Jobs : /\ Owns(l, p[1]) /\ p[3] = Dest(l, p[1])
                        /\ archive[p[3]]["raw"] = staged[p[1]]
  BY DEF KeepInv, PlaceInv, InPlace
<1>2. l = j
  BY <1>1, OneOwner
<1>3. QED
  BY <1>1, <1>2

\* The item a run is at is one of its job.
LEMMA ItemOwned ==
  ASSUME KeepInv, NEW j \in Jobs, run[j].at \notin {"idle", "next"}
  PROVE  Owns(j, Item(j))
  BY RunFacts DEF Owns, Item

\* A pair that is not there takes one name that is free for both of its files.
LEMMA ResolveKeeps ==
  ASSUME KeepInv, IInv', NEW j \in Jobs, Resolve(j)
  PROVE  KeepInv'
<1> DEFINE r == run[j]
           name == NameOf[Item(j)]
<1>1. /\ r.at = "resolve" /\ Running(j) /\ r \in Run /\ Form(j, r)
      /\ Item(j) = ItemAt(j, r) /\ name \in Names
      /\ r.half = "raw" /\ r.mode = "pair" /\ r.to = name
      /\ Short(Losses) => Pending(j, r)
      /\ Short(PlaceHazards) => Pending(j, r)
      /\ Short(Hazards) => Done(j, r)
  BY RunFacts DEF Resolve, Form
<1>2. Pending(j, r) => Dest(j, Item(j)) = name
  BY <1>1 DEF Pending, Bare, Dest
<1>3. CASE archive[name]["raw"] = staged[Item(j)]
           /\ Reads(j, [r EXCEPT !.at = "stat", !.mode = "duplicate"])
  <2>1. PICK s : s = [r EXCEPT !.at = "stat", !.mode = "duplicate"]
    OBVIOUS
  <2>2. /\ s.at = "stat" /\ s.mode = "duplicate" /\ s.to = r.to /\ s.n = r.n
        /\ s.half = "raw" /\ s.hasXmp = r.hasXmp /\ s.errors = r.errors
        /\ s.conflict = r.conflict /\ s.aborted = r.aborted
    BY <1>1, <2>1 DEF Run
  <2>3. ItemAt(j, s) = Item(j)
    BY <1>1, <2>2 DEF ItemAt
  <2>4. Form(j, s)
    BY <1>1, <2>2 DEF Form
  <2>5. Short(Losses) => Pending(j, s)
    BY <1>1, <2>2, <2>3 DEF Pending, Bare
  <2>6. Short(PlaceHazards) => Aims(j, s)
    BY <1>1, <1>2, <1>3, <2>2, <2>3 DEF Aims
  <2>7. Short(Hazards) => Done(j, s)
    BY <1>1, <2>2, <2>3 DEF Done
  <2>8. QED
    BY <1>1, <1>3, <2>1, <2>2, <2>4, <2>5, <2>6, <2>7, ReadsKeeps DEF Good
<1>4. ASSUME archive[name]["raw"] # staged[Item(j)],
             NEW m \in FirstFree(<<name>> \o SuffixOf[name], Exts),
             Reads(j, [r EXCEPT !.to = m, !.at = IF m = name THEN "copy" ELSE "reserve"])
      PROVE  KeepInv'
  <2>1. PICK s : s = [r EXCEPT !.to = m, !.at = IF m = name THEN "copy" ELSE "reserve"]
    OBVIOUS
  <2>2. /\ s.at = (IF m = name THEN "copy" ELSE "reserve")
        /\ s.mode = "pair" /\ s.to = m /\ s.n = r.n
        /\ s.half = "raw" /\ s.hasXmp = r.hasXmp /\ s.errors = r.errors
        /\ s.conflict = r.conflict /\ s.aborted = r.aborted
    BY <1>1, <2>1 DEF Run
  <2>3. ItemAt(j, s) = Item(j)
    BY <1>1, <2>2 DEF ItemAt
  <2>4. Form(j, s)
    BY <1>1, <2>2 DEF Form
  <2>5. Short(Losses) => Pending(j, s)
    BY <1>1, <2>2, <2>3 DEF Pending, Bare
  <2>6. archive[m]["raw"] = None /\ archive[m]["xmp"] = None
    BY <1>1, NamesFrom, FirstFreeType DEF Exts
  <2>7. Short(PlaceHazards) => \A p \in placed : p[1] # Item(j)
    BY <1>1, <1>2, <1>4, NotPlaced, ItemOwned
  <2>8. Short(PlaceHazards) => Aims(j, s)
    BY <1>1, <1>2, <2>2, <2>3, <2>6, <2>7 DEF Aims
  <2>9. Short(Hazards) => Done(j, s)
    BY <1>1, <2>2, <2>3 DEF Done
  <2>10. Good(j, s)
    BY <2>4, <2>5, <2>8, <2>9 DEF Good
  <2>11. Reads(j, s) /\ s.at # "reserving"
    BY <1>4, <2>1, <2>2
  <2>12. QED
    BY <1>1, <2>10, <2>11, ReadsKeeps
<1>5. QED
  BY <1>3, <1>4 DEF Resolve

\* The rules of a single file: it is there, or its place is free, or it moves to a
\* name of its own that it reserves first.
LEMMA StatKeeps ==
  ASSUME KeepInv, IInv', NEW j \in Jobs, Stat(j)
  PROVE  KeepInv'
<1> DEFINE r == run[j]
           i == Item(j)
<1>1. /\ r.at = "stat" /\ Running(j) /\ r \in Run /\ Form(j, r)
      /\ i = ItemAt(j, r)
      /\ Short(Losses) => Pending(j, r)
      /\ Short(PlaceHazards) => Pending(j, r) /\ Aims(j, r)
      /\ Short(Hazards) => Aims(j, r) /\ Done(j, r)
  BY RunFacts DEF Stat
<1>2. /\ r.mode # "pair" /\ (r.half = "raw" => r.mode # "reserved")
      /\ r.hasXmp <=> r.mode # "single"
      /\ r.half \in {"raw", "xmp"} /\ r.mode \in Modes /\ r.to \in Names
  BY <1>1 DEF Form, Run, Exts
<1>3. \A ok \in BOOLEAN : Moves(j, ok) => r.mode = "duplicate" /\ r.half = "raw"
  BY <1>2 DEF Moves, Modes
<1>4. CASE r.aborted /\ r.mode # "single" /\ Reads(j, After(j, FALSE))
  <2>1. Outcome(j, FALSE, After(j, FALSE)) /\ After(j, FALSE).aborted
    BY <1>1, <1>4, Outcomes DEF Outcome
  <2>2. QED
    BY <1>1, <1>3, <1>4, <2>1, SettledKeeps
<1>5. CASE There(j) = Source(j) /\ Reads(j, Succeeds(j))
  <2>1. Outcome(j, TRUE, Succeeds(j))
    BY <1>1, Outcomes
  <2>2. Short(Hazards) /\ ~Moves(j, TRUE) => Archived(i)
    <3>1. r.half = "raw" /\ ~r.hasXmp /\ Done(j, r) => xmp[i] = None
      BY <1>1 DEF Done
    <3>2. r.half = "raw" => archive[r.to]["raw"] = staged[i]
      BY <1>5 DEF There, Source
    <3>3. r.half = "xmp" => archive[r.to]["xmp"] = xmp[i]
      BY <1>5 DEF There, Source
    <3>4. r.half = "xmp" /\ Aims(j, r) => archive[r.to]["raw"] = staged[i]
      BY <1>1 DEF Aims
    <3>5. QED
      BY <1>1, <1>2, <3>1, <3>2, <3>3, <3>4 DEF Archived, Moves
  <2>3. QED
    BY <1>1, <1>3, <1>5, <2>1, <2>2, SettledKeeps
<1>6. CASE Reads(j, [After(j, TRUE) EXCEPT !.conflict = TRUE])
  <2>1. PICK s : s = [After(j, TRUE) EXCEPT !.conflict = TRUE]
    OBVIOUS
  <2>2. Outcome(j, TRUE, s) /\ s.conflict /\ Reads(j, s)
    BY <1>1, <1>6, <2>1, Outcomes
  <2>3. QED
    BY <1>1, <1>3, <2>2, SettledKeeps
<1>7. ASSUME NEW s, Reads(j, s), s.at \in {"copy", "reserve"},
             /\ s.n = r.n /\ s.half = r.half
             /\ s.mode = r.mode /\ s.hasXmp = r.hasXmp /\ s.errors = r.errors
             /\ s.conflict = r.conflict /\ s.aborted = r.aborted,
             s.at = "reserve" => r.mode = "single",
             Short(PlaceHazards) => Aims(j, s)
      PROVE  KeepInv'
  <2>1. ItemAt(j, s) = i
    BY <1>1, <1>7 DEF ItemAt
  <2>2. Form(j, s)
    BY <1>1, <1>2, <1>7 DEF Form
  <2>3. Short(Losses) => Pending(j, s)
    BY <1>1, <1>7, <2>1 DEF Pending, Bare
  <2>4. Short(Hazards) => Done(j, s)
    BY <1>1, <1>7, <2>1 DEF Done
  <2>5. Good(j, s)
    BY <1>7, <2>2, <2>3, <2>4 DEF Good
  <2>6. QED
    BY <1>1, <1>7, <2>5, ReadsKeeps
<1>8. CASE There(j) = None /\ Reads(j, [r EXCEPT !.at = "copy"])
  <2>1. PICK s : s = [r EXCEPT !.at = "copy"]
    OBVIOUS
  <2>2. /\ s.at = "copy" /\ s.to = r.to /\ s.n = r.n /\ s.half = r.half
        /\ s.mode = r.mode /\ s.hasXmp = r.hasXmp /\ s.errors = r.errors
        /\ s.conflict = r.conflict /\ s.aborted = r.aborted
    BY <1>1, <2>1 DEF Run
  <2>3. Short(PlaceHazards) => Aims(j, s)
    BY <1>1, <1>2, <1>8, <2>2 DEF Aims, There, ItemAt
  <2>4. QED
    BY <1>7, <1>8, <2>1, <2>2, <2>3
<1>9. ASSUME There(j) \notin {None, Source(j)}, r.half = "raw",
             NEW m \in FirstFree(SuffixOf[r.to], {"raw"}),
             Reads(j, [r EXCEPT !.to = m,
                                !.at = IF r.mode = "single" THEN "reserve" ELSE "copy"])
      PROVE  KeepInv'
  <2>1. PICK s : s = [r EXCEPT !.to = m,
                               !.at = IF r.mode = "single" THEN "reserve" ELSE "copy"]
    OBVIOUS
  <2>2. /\ s.at = (IF r.mode = "single" THEN "reserve" ELSE "copy")
        /\ s.to = m /\ s.n = r.n /\ s.half = r.half
        /\ s.mode = r.mode /\ s.hasXmp = r.hasXmp /\ s.errors = r.errors
        /\ s.conflict = r.conflict /\ s.aborted = r.aborted
    BY <1>1, <2>1 DEF Run
  <2>3. archive[m]["raw"] = None
    BY <1>2, NamesFrom, FirstFreeType
  <2>4. ASSUME Short(PlaceHazards)
        PROVE  Aims(j, s)
    <3>1. r.to = Dest(j, i) /\ archive[r.to]["raw"] # staged[i]
      BY <1>1, <1>9, <2>4 DEF Aims, There, Source
    <3>2. r.mode # "duplicate"
      BY <1>1, <1>9, <2>4, <3>1 DEF Aims
    <3>3. r.mode = "single"
      BY <1>2, <1>9, <3>2 DEF Modes
    <3>4. \A p \in placed : p[1] # i
      BY <1>1, <2>4, <3>1, NotPlaced, ItemOwned
    <3>5. ItemAt(j, s) = i
      BY <1>1, <2>2 DEF ItemAt
    <3>6. QED
      BY <1>9, <2>2, <2>3, <3>3, <3>4, <3>5 DEF Aims
  <2>5. s.at \in {"copy", "reserve"} /\ (s.at = "reserve" => r.mode = "single")
    BY <2>2
  <2>6. Reads(j, s)
    BY <1>9, <2>1
  <2>7. QED
    BY <1>7, <2>2, <2>4, <2>5, <2>6
<1>10. QED
  BY <1>4, <1>5, <1>6, <1>8, <1>9 DEF Stat

\* The first name is taken when it is free.
LEMMA FirstIfFree ==
  ASSUME NEW n \in Names, NEW s \in Seq(Names), NEW e, archive[n][e] = None,
         NEW m \in FirstFree(<<n>> \o s, {e})
  PROVE  m = n
<1> DEFINE names == <<n>> \o s
<1>1. names \in Seq(Names) /\ names[1] = n /\ 1 \in DOMAIN names
  OBVIOUS
<1>2. PICK k \in DOMAIN names :
        /\ m = names[k]
        /\ \A l \in DOMAIN names : (\A x \in {e} : archive[names[l]][x] = None) => k <= l
  BY DEF FirstFree
<1>3. k <= 1 /\ k \in Nat /\ k >= 1
  BY <1>1, <1>2
<1>4. QED
  BY <1>1, <1>2, <1>3

\* The guard before the rename finds the name of the run, which is still free.
LEMMA GuardKeeps ==
  ASSUME KeepInv, IInv', NEW j \in Jobs, Guard(j)
  PROVE  KeepInv'
<1> DEFINE r == run[j]
<1>1. /\ r.at = "guard" /\ Running(j) /\ r \in Run /\ Form(j, r)
      /\ Item(j) = ItemAt(j, r) /\ r.to \in Names
      /\ Short(Losses) => Pending(j, r)
      /\ Short(PlaceHazards) => Aims(j, r)
      /\ Short(Hazards) => Done(j, r)
  BY RunFacts DEF Guard, Run
<1>2. PICK m \in FirstFree(<<r.to>> \o SuffixOf[r.to], {r.half}) :
        Reads(j, [r EXCEPT !.at = "install", !.final = m])
  BY DEF Guard
<1>3. PICK s : s = [r EXCEPT !.at = "install", !.final = m]
  OBVIOUS
<1>4. /\ s.at = "install" /\ s.final = m /\ s.to = r.to /\ s.n = r.n
      /\ s.half = r.half /\ s.mode = r.mode /\ s.hasXmp = r.hasXmp
      /\ s.errors = r.errors /\ s.conflict = r.conflict /\ s.aborted = r.aborted
  BY <1>1, <1>3 DEF Run
<1>5. ItemAt(j, s) = Item(j)
  BY <1>1, <1>4 DEF ItemAt
<1>6. Form(j, s)
  BY <1>1, <1>4 DEF Form
<1>7. Short(Losses) => Pending(j, s)
  BY <1>1, <1>4, <1>5 DEF Pending, Bare
<1>8. Short(PlaceHazards) => Aims(j, s)
  <2>1. Aims(j, r) => archive[r.to][r.half] = None
    BY <1>1 DEF Aims
  <2>2. Aims(j, r) => m = r.to
    BY <1>1, <1>2, <2>1, NamesFrom, FirstIfFree
  <2>3. QED
    BY <1>1, <1>4, <1>5, <2>2 DEF Aims
<1>9. Short(Hazards) => Done(j, s)
  BY <1>1, <1>4, <1>5 DEF Done
<1>10. QED
  BY <1>1, <1>2, <1>3, <1>4, <1>6, <1>7, <1>8, <1>9, ReadsKeeps DEF Good

-----------------------------------------------------------------------------
(* The places of the files: copies, failures, begin and end of a run       *)

\* What a run copies to the temporary name is its own file.
LEMMA CopyKeeps ==
  ASSUME KeepInv, IInv', NEW j \in Jobs, Copy(j)
  PROVE  KeepInv'
<1> DEFINE r == run[j]
<1>a. PICK i : i = Item(j)
  OBVIOUS
<1>1. /\ r.at = "copy" /\ Running(j) /\ r \in Run /\ Form(j, r)
      /\ i = ItemAt(j, r) /\ r.to \in Names /\ r.half \in Exts
      /\ Short(Losses) => Pending(j, r)
      /\ Short(PlaceHazards) => Aims(j, r)
      /\ Short(Hazards) => Done(j, r)
  BY <1>a, RunFacts DEF Copy, Run
<1>2. PICK s : s = [r EXCEPT !.at = "guard"]
  OBVIOUS
<1>3. /\ s.at = "guard" /\ s.to = r.to /\ s.n = r.n
      /\ s.half = r.half /\ s.mode = r.mode /\ s.hasXmp = r.hasXmp
      /\ s.errors = r.errors /\ s.conflict = r.conflict /\ s.aborted = r.aborted
  BY <1>1, <1>2 DEF Run
<1>4. /\ run' = [run EXCEPT ![j] = s]
      /\ UNCHANGED <<manifest, mtmp, saving, archive, placed, staged, xmp, status>>
      /\ hazards \subseteq hazards'
  BY <1>2 DEF Copy, History, stageVars, manifestVars
<1>5. tmp'[r.to][r.half] = Source(j)
  BY <1>1 DEF Copy, KeepInv, IInv, TypeOK
<1>6. ItemAt(j, s) = i
  BY <1>1, <1>3 DEF ItemAt
<1>7. Form(j, s)
  BY <1>1, <1>3 DEF Form
<1>8. Short(Losses) => Pending(j, s)
  BY <1>1, <1>3, <1>6 DEF Pending, Bare
<1>9. ASSUME Short(PlaceHazards)'
      PROVE  Aims(j, s)'
  <2>1. Aims(j, r)
    BY <1>1, <1>4, <1>9, Shorts
  <2>2. r.half = "raw" => tmp'[r.to]["raw"] = staged[i]
    BY <1>a, <1>5 DEF Source
  <2>3. ItemAt(j, s)' = i
    BY <1>6 DEF ItemAt
  <2>4. Dest(j, i)' = Dest(j, i)
    BY <1>4 DEF Dest, Resv
  <2>5. QED
    BY <1>1, <1>3, <1>4, <2>1, <2>2, <2>3, <2>4 DEF Aims, Dest, Resv, ItemAt
<1>10. ASSUME Short(Hazards)'
       PROVE  Done(j, s)'
  <2>1. Done(j, r)
    BY <1>1, <1>4, <1>10, Shorts
  <2>2. r.half = "xmp" => tmp'[r.to]["xmp"] = xmp[i]
    BY <1>a, <1>5 DEF Source
  <2>3. ItemAt(j, s)' = i
    BY <1>6 DEF ItemAt
  <2>4. QED
    BY <1>1, <1>3, <1>4, <2>1, <2>2, <2>3 DEF Done, Archived
<1>11. status[j] = "syncing"
  BY <1>1 DEF KeepInv, BookInv, Forms
<1>12. QED
  BY <1>1, <1>3, <1>4, <1>7, <1>8, <1>9, <1>10, <1>11, RunKeeps

\* A file that fails leaves an error in its run.
LEMMA FileFailsKeeps ==
  ASSUME KeepInv, IInv', NEW j \in Jobs, FileFails(j)
  PROVE  KeepInv'
<1> DEFINE r == run[j]
<1>1. /\ r.at \in {"resolve", "stat", "copy", "guard", "install", "reserve"}
      /\ r.at = "reserve" => r.mode = "single"
      /\ run' = [run EXCEPT ![j] = FailsAt(j)]
      /\ UNCHANGED <<manifest, mtmp, saving, archive, placed, staged, xmp, status>>
      /\ hazards \subseteq hazards'
  BY DEF FileFails, History, stageVars, manifestVars
<1>2. Running(j) /\ status[j] = "syncing"
  BY <1>1 DEF KeepInv, BookInv, Forms, Running
<1>3. Moves(j, FALSE) => r.mode = "duplicate"
  BY DEF Moves
<1>4. PICK s : s = FailsAt(j)
  OBVIOUS
<1>5. Outcome(j, FALSE, s) /\ s.errors
  BY <1>1, <1>4, Outcomes
<1>6. Good(j, s) /\ s.at \notin {"idle", "reserving"}
  BY <1>1, <1>3, <1>5, AfterGood
<1>7. s.at \in {"next", "stat"}
  <2>1. r \in Run
    BY DEF KeepInv, IInv, TypeOK
  <2>2. After(j, FALSE).at \in {"next", "stat"}
    BY <2>1 DEF After, XmpAt, Run
  <2>3. QED
    BY <1>5, <2>2 DEF Outcome
<1>8. Short(PlaceHazards)' => Aims(j, s)'
  BY <1>1, <1>6, <1>7, Shorts DEF Good, Aims, Dest, Resv, ItemAt
<1>9. Short(Hazards)' => Done(j, s)'
  BY <1>1, <1>6, <1>7, Shorts DEF Good, Done, Archived, ItemAt
<1>10. QED
  BY <1>1, <1>2, <1>4, <1>6, <1>8, <1>9, RunKeeps DEF Good

\* An aborted run reports it.
LEMMA HeartbeatFailsKeeps ==
  ASSUME KeepInv, IInv', NEW j \in Jobs, HeartbeatFails(j)
  PROVE  KeepInv'
<1> DEFINE r == run[j]
<1>1. /\ run' = [run EXCEPT ![j] = [r EXCEPT !.aborted = TRUE]]
      /\ UNCHANGED <<manifest, mtmp, saving, archive, placed, staged, xmp, status, tmp>>
      /\ hazards \subseteq hazards' /\ Running(j) /\ r \in Run
  BY DEF HeartbeatFails, History, stageVars, manifestVars, folderVars, KeepInv, IInv, TypeOK
<1>2. PICK s : s = [r EXCEPT !.aborted = TRUE]
  OBVIOUS
<1>3. /\ s.at = r.at /\ s.to = r.to /\ s.n = r.n /\ s.final = r.final
      /\ s.half = r.half /\ s.mode = r.mode /\ s.hasXmp = r.hasXmp
      /\ s.aborted
  BY <1>1, <1>2 DEF Run
<1>4. ItemAt(j, s) = ItemAt(j, r)
  BY <1>3 DEF ItemAt
<1>5. Form(j, s)
  <2>1. Form(j, r)
    BY DEF KeepInv, BookInv, Forms
  <2>2. QED
    BY <1>3, <1>4, <2>1 DEF Form
<1>6. Short(Losses) => Pending(j, s)
  BY <1>3, <1>4 DEF KeepInv, BookInv, Books, Pending, Bare
<1>7. Short(PlaceHazards)' => Aims(j, s)'
  <2>1. Short(PlaceHazards) => Aims(j, s)
    BY <1>3, <1>4 DEF KeepInv, PlaceInv, Aims
  <2>2. QED
    BY <1>1, <2>1, Shorts DEF Aims, Dest, Resv, ItemAt
<1>8. Short(Hazards)' => Done(j, s)'
  <2>1. Short(Hazards) => Done(j, s)
    BY <1>3, <1>4 DEF KeepInv, DoneInv, Done
  <2>2. QED
    BY <1>1, <2>1, Shorts DEF Done, Archived, ItemAt
<1>9. status[j] = "syncing"
  BY <1>1 DEF KeepInv, BookInv, Forms
<1>10. QED
  BY <1>1, <1>2, <1>3, <1>5, <1>6, <1>7, <1>8, <1>9, RunKeeps

\* A run at the top of its loop or at rest, with nothing settled yet.
LEMMA FreshGood ==
  ASSUME NEW j \in Jobs, NEW r, r = Rest \/ r = [Rest EXCEPT !.at = "next"]
  PROVE  /\ r.at \in {"idle", "next"} /\ Form(j, r) /\ Pending(j, r) /\ Aims(j, r)'
         /\ Done(j, r)'
<1>1. r.at \in {"idle", "next"} /\ r.n = 1
  <2>1. Rest \in Run /\ Rest.at = "idle" /\ Rest.n = 1
    BY RestFits DEF Fits, Rest
  <2>2. QED
    BY <2>1 DEF Run
<1>2. \A k \in DOMAIN ItemsOf[j] : ~(k < r.n)
  <2>1. ItemsOf[j] \in Seq(Items)
    BY ArchiveCopyConstants
  <2>2. QED
    BY <1>1, <2>1
<1>3. QED
  BY <1>1, <1>2 DEF Form, Pending, Bare, Aims, Done

\* The beginning of a sync.
LEMMA StartKeeps ==
  ASSUME KeepInv, IInv', NEW j \in Jobs, Start(j)
  PROVE  KeepInv'
<1>1. PICK r : r = [Rest EXCEPT !.at = "next"]
  OBVIOUS
<1>2. /\ run' = [run EXCEPT ![j] = r] /\ status' = [status EXCEPT ![j] = "syncing"]
      /\ UNCHANGED <<manifest, mtmp, saving, archive, placed, staged, xmp, tmp>>
      /\ hazards \subseteq hazards' /\ status[j] # "importing" /\ run[j].at = "idle"
  BY <1>1 DEF Start, Syncable, Running, History, manifestVars, folderVars
<1>3. status'[j] = "syncing" /\ \A k \in Jobs : k # j => status'[k] = status[k]
  BY <1>2 DEF KeepInv, IInv, TypeOK
<1>4. QED
  BY <1>1, <1>2, <1>3, FreshGood, RunKeeps

\* A sync that finds the folder locked.
LEMMA BlockedKeeps ==
  ASSUME KeepInv, IInv', NEW j \in Jobs, Blocked(j)
  PROVE  KeepInv'
<1>1. PICK r : r = run[j]
  OBVIOUS
<1>2. /\ run' = [run EXCEPT ![j] = r] /\ status' = [status EXCEPT ![j] = "sync-failed"]
      /\ UNCHANGED <<manifest, mtmp, saving, archive, placed, staged, xmp, tmp>>
      /\ hazards \subseteq hazards' /\ status[j] # "importing" /\ r.at = "idle"
  BY <1>1 DEF Blocked, Syncable, Running, History, manifestVars, folderVars, KeepInv,
     IInv, TypeOK
<1>3. status'[j] = "sync-failed" /\ \A k \in Jobs : k # j => status'[k] = status[k]
  BY <1>2 DEF KeepInv, IInv, TypeOK
<1>4. Form(j, r) /\ Pending(j, r) /\ Aims(j, r)' /\ Done(j, r)'
  BY <1>2 DEF Form, Pending, Bare, Aims, Done
<1>5. QED
  BY <1>1, <1>2, <1>3, <1>4, RunKeeps

\* A sync that stops.
LEMMA StopKeeps ==
  ASSUME KeepInv, IInv', NEW j \in Jobs, Running(j), run[j].at # "reserving",
         NEW v \in {"paused", "synced", "needs-attention", "sync-failed"}, Stops(j, v)
  PROVE  KeepInv'
<1>1. PICK r : r = Rest
  OBVIOUS
<1>2. /\ run' = [run EXCEPT ![j] = r] /\ status' = [status EXCEPT ![j] = v]
      /\ UNCHANGED <<manifest, mtmp, saving, archive, placed, staged, xmp, tmp>>
      /\ hazards \subseteq hazards'
  BY <1>1 DEF Stops, History, manifestVars, folderVars
<1>3. status[j] = "syncing" /\ status'[j] = v
      /\ \A k \in Jobs : k # j => status'[k] = status[k]
  BY <1>2 DEF KeepInv, IInv, TypeOK, BookInv, Forms
<1>4. r.at = "idle"
  BY <1>1 DEF Rest
<1>5. QED
  BY <1>1, <1>2, <1>3, <1>4, FreshGood, RunKeeps

\* The end, the pause and the throw of a sync.
LEMMA EndKeeps ==
  ASSUME KeepInv, IInv', NEW j \in Jobs, EndRun(j) \/ PauseRun(j) \/ Throws(j)
  PROVE  KeepInv'
<1>1. Running(j) /\ run[j].at # "reserving"
  BY DEF EndRun, PauseRun, Throws, Running
<1>2. Verdict(run[j]) \in {"paused", "synced", "needs-attention", "sync-failed"}
  BY DEF Verdict
<1>3. QED
  BY <1>1, <1>2, StopKeeps DEF EndRun, PauseRun, Throws

-----------------------------------------------------------------------------
(* The places of the files: the records of the manifest                    *)

\* Reservations of one place for an item, of its RAW or of both files.
OnePlace(new, i) ==
  /\ DOMAIN new = {i} \X Exts \/ DOMAIN new = {i} \X {"raw"}
  /\ \A f \in DOMAIN new : new[f] \in Reservation /\ new[f].to = new[<<i, "raw">>].to

\* Such reservations in a manifest that had none of the item.
LEMMA ReservedDoc ==
  ASSUME NEW m \in Manifest, Booked(m), NEW i \in Items, m.resv[<<i, "raw">>] = None,
         NEW new, OnePlace(new, i)
  PROVE  /\ Merged(m, {}, new) \in Manifest /\ Booked(Merged(m, {}, new))
         /\ Merged(m, {}, new).jobs = m.jobs
         /\ Merged(m, {}, new).resv[<<i, "raw">>] # None
         /\ Merged(m, {}, new).resv[<<i, "raw">>] = new[<<i, "raw">>]
         /\ \A f \in Files : Merged(m, {}, new).resv[f] # m.resv[f] =>
              f[1] = i /\ m.resv[f] = None
<1> DEFINE doc == Merged(m, {}, new)
<1>1. doc \in Manifest
  BY MergedType DEF OnePlace
<1>2. doc.jobs = m.jobs
  BY DEF Merged
<1>3. \A f \in Files : doc.resv[f] = IF f \in DOMAIN new THEN new[f] ELSE m.resv[f]
  BY DEF Merged
<1>4. \A l \in Items, e \in Exts : <<l, e>> \in Files
  BY DEF Files
<1>5. m.resv[<<i, "xmp">>] = None
  BY DEF Booked
<1>6. \A f \in DOMAIN new : f[1] = i /\ m.resv[f] = None
  BY <1>5 DEF Exts, OnePlace
<1>7. <<i, "raw">> \in DOMAIN new
  BY DEF Exts, OnePlace
<1>8. \A f \in DOMAIN new : new[f] # None
  BY ArchiveCopyConstants DEF OnePlace
<1>9. doc.resv[<<i, "raw">>] # None /\ doc.resv[<<i, "raw">>] = new[<<i, "raw">>]
  <2>1. <<i, "raw">> \in Files
    BY DEF Files, Exts
  <2>2. doc.resv[<<i, "raw">>] = new[<<i, "raw">>]
    BY <1>3, <1>7, <2>1
  <2>3. QED
    BY <1>7, <1>8, <2>2
<1>10. Booked(doc)
  <2>1. ASSUME NEW l \in Items, doc.resv[<<l, "xmp">>] # None
        PROVE  /\ doc.resv[<<l, "raw">>] # None
               /\ doc.resv[<<l, "raw">>].to = doc.resv[<<l, "xmp">>].to
    <3>1. CASE l = i
      <4>1. <<i, "xmp">> \in DOMAIN new
        BY <1>3, <1>4, <1>5, <2>1, <3>1 DEF Exts
      <4>2. doc.resv[<<i, "xmp">>].to = new[<<i, "raw">>].to
        BY <1>3, <1>4, <4>1 DEF Exts, OnePlace
      <4>3. QED
        BY <1>9, <3>1, <4>2
    <3>2. CASE l # i
      <4>1. \A e \in Exts : doc.resv[<<l, e>>] = m.resv[<<l, e>>]
        <5>1. \A e \in Exts : <<l, e>> \notin DOMAIN new
          BY <3>2 DEF OnePlace
        <5>2. QED
          BY <1>3, <1>4, <5>1
      <4>2. QED
        BY <2>1, <4>1 DEF Booked, Exts
    <3>3. QED
      BY <3>1, <3>2
  <2>2. QED
    BY <2>1 DEF Booked
<1>11. QED
  BY <1>1, <1>2, <1>3, <1>6, <1>9, <1>10

\* What a run aims at stays while nothing is put anywhere.
LEMMA AimsStay ==
  ASSUME NEW k \in Jobs, NEW q, UNCHANGED <<manifest, archive, placed, tmp, staged>>, Aims(k, q)
  PROVE  Aims(k, q)'
  BY DEF Aims, Dest, Resv, ItemAt

\* A reservation begins: for an item that has none and was put nowhere.
LEMMA ReserveKeeps ==
  ASSUME KeepInv, IInv', NEW j \in Jobs, Reserve(j)
  PROVE  KeepInv'
<1> DEFINE r == run[j]
           m == manifest[DeviceOf[j]]
           w == <<"reserve", j>>
<1>1. /\ r.at = "reserve" /\ Running(j) /\ r \in Run /\ Form(j, r)
      /\ Item(j) = ItemAt(j, r) /\ Item(j) \in Items
      /\ r.half = "raw" /\ r.mode \in {"single", "pair"} /\ status[j] = "syncing"
      /\ Short(Losses) => Pending(j, r)
      /\ Short(PlaceHazards) => Aims(j, r)
      /\ Short(Hazards) => Done(j, r)
  BY RunFacts DEF Reserve, Form, KeepInv, BookInv, Forms
<1>2. CASE j \notin m.jobs
  <2>1. PICK s : s = [r EXCEPT !.at = "copy"]
    OBVIOUS
  <2>2. ~Short(Losses)
    BY <1>1, <1>2 DEF KeepInv, BookInv, Books
  <2>3. Form(j, s) /\ s.at = "copy"
    BY <1>1, <2>1 DEF Form, Run
  <2>4. Reads(j, s)
    BY <1>2, <2>1 DEF Reserve, Reads, manifestVars
  <2>5. Good(j, s)
    BY <2>2, <2>3, Shorts DEF Good, Short
  <2>6. QED
    BY <1>1, <2>3, <2>4, <2>5, ReadsKeeps
<1>3. CASE j \in m.jobs
  <2>a. PICK es : es = IF r.mode = "pair" THEN Exts ELSE {r.half}
    OBVIOUS
  <2>b. PICK new : new = [f \in {Item(j)} \X es |->
             [to |-> r.to,
              is |-> IF f[2] = "raw" THEN staged[Item(j)] ELSE xmp[Item(j)]]]
    OBVIOUS
  <2>1. PICK doc : doc = Merged(m, {}, new)
    OBVIOUS
  <2>2. PICK s : s = [r EXCEPT !.at = "reserving"]
    OBVIOUS
  <2>3. /\ s.at = "reserving" /\ s.to = r.to /\ s.n = r.n
        /\ s.half = r.half /\ s.mode = r.mode /\ s.hasXmp = r.hasXmp
        /\ s.errors = r.errors /\ s.conflict = r.conflict /\ s.aborted = r.aborted
    BY <1>1, <2>2 DEF Run
  <2>4. /\ saving' = [saving EXCEPT ![w] = [at |-> "read", doc |-> doc]]
        /\ run' = [run EXCEPT ![j] = s]
        /\ UNCHANGED <<staged, xmp, status, archive, tmp, placed, manifest, mtmp>>
        /\ hazards \subseteq hazards' /\ (Short(Losses)' => ~Overlap')
    BY <1>3, <2>a, <2>b, <2>1, <2>2 DEF Reserve, History, stageVars, folderVars, Short
  <2>5. \A k \in Jobs : run'[k] = IF k = j THEN s ELSE run[k]
    BY <2>4 DEF KeepInv, IInv, TypeOK
  <2>6. \A v \in Writers : saving'[v] =
          IF v = w THEN [at |-> "read", doc |-> doc] ELSE saving[v]
    BY <2>4 DEF KeepInv, IInv, TypeOK
  <2>7. ItemAt(j, s) = Item(j)
    BY <1>1, <2>3 DEF ItemAt
  <2>8. Forms'
    <3>1. Form(j, s)
      BY <1>1, <2>3, <2>7 DEF Form
    <3>2. \A k \in Jobs : Form(k, run'[k])
      BY <2>5, <3>1 DEF KeepInv, BookInv, Forms
    <3>3. \A k \in Jobs : saving'[<<"append", k>>] = saving[<<"append", k>>]
      BY <2>6 DEF Writers
    <3>4. \A k \in Jobs : Running(k)' => status'[k] = "syncing"
      BY <1>1, <2>4, <2>5 DEF KeepInv, BookInv, Forms, Running
    <3>5. \A k \in Jobs : Form(k, run[k])'
      BY <3>2 DEF Form, ItemAt
    <3>6. QED
      BY <2>4, <3>3, <3>4, <3>5 DEF KeepInv, BookInv, Forms
  <2>9. ASSUME Short(Losses)'
        PROVE  Books'
    <3>1. Books /\ Pending(j, r) /\ ~Overlap'
      BY <1>1, <2>4, <2>9, Shorts DEF KeepInv, BookInv
    <3>2. m \in Manifest /\ Booked(m) /\ m.resv[<<Item(j), "raw">>] = None
      <4>1. DeviceOf[j] \in Devices
        BY ArchiveCopyConstants
      <4>2. m \in Manifest
        BY <4>1 DEF KeepInv, IInv, TypeOK
      <4>3. QED
        BY <1>1, <3>1, <4>1, <4>2 DEF Books, Pending, Bare, Resv
    <3>3. \A f \in DOMAIN new : new[f] \in Reservation /\ new[f].to = r.to
      <4>1. staged[Item(j)] \in Contents /\ xmp[Item(j)] \in Contents \union {None}
        BY <1>1, SourceType DEF KeepInv, IInv
      <4>2. QED
        BY <1>1, <2>b, <4>1 DEF Reservation, Run
    <3>4. /\ doc \in Manifest /\ Booked(doc) /\ doc.jobs = m.jobs
          /\ doc.resv[<<Item(j), "raw">>] # None
          /\ doc.resv[<<Item(j), "raw">>].to = r.to
          /\ \A f \in Files : doc.resv[f] # m.resv[f] => f[1] = Item(j) /\ m.resv[f] = None
      <4>1. DOMAIN new = {Item(j)} \X Exts \/ DOMAIN new = {Item(j)} \X {"raw"}
        BY <1>1, <2>a, <2>b
      <4>2. <<Item(j), "raw">> \in DOMAIN new
        BY <4>1 DEF Exts
      <4>3. OnePlace(new, Item(j)) /\ new[<<Item(j), "raw">>].to = r.to
        BY <3>3, <4>1, <4>2 DEF OnePlace
      <4>4. Item(j) \in Items
        BY <1>1
      <4>5. QED
        BY <2>1, <3>2, <4>3, <4>4, ReservedDoc
    <3>5. Doc(w)' = doc /\ w \in Writers
      BY <2>6 DEF Doc, Writers
    <3>6. \A v \in Writers : v # w => Doc(v)' = Doc(v) /\ saving'[v].at = saving[v].at
      BY <2>4, <2>6 DEF Doc
    <3>7. \A k \in Jobs : Item(k)' = Item(k)
      BY <2>3, <2>5 DEF Item
    <3>8. ASSUME NEW v \in Writers, saving'[v].at # "idle"
          PROVE  Adds(v)'
      <4>1. CASE v = w
        BY <2>4, <3>4, <3>5, <3>7, <4>1 DEF Adds
      <4>2. CASE v # w
        <5>1. Adds(v) /\ v[2] \in Jobs
          BY <3>1, <3>6, <3>8, <4>2 DEF Books, Writers
        <5>2. QED
          BY <2>4, <3>6, <3>7, <4>2, <5>1 DEF Adds
      <4>3. QED
        BY <4>1, <4>2
    <3>9. ASSUME NEW k \in Jobs
          PROVE  Pending(k, run[k])'
      <4>1. CASE k = j
        BY <2>3, <2>4, <2>5, <2>7, <3>2, <3>4, <3>5, <4>1
           DEF Pending, Resv, ItemAt
      <4>2. CASE k # j
        <5>1. Pending(k, run[k]) /\ <<"reserve", k>> \in Writers /\ <<"reserve", k>> # w
          BY <3>1, <4>2 DEF Books, Writers
        <5>2. QED
          BY <2>4, <2>5, <3>6, <4>2, <5>1 DEF Pending, Resv, ItemAt, Bare
      <4>3. QED
        BY <4>1, <4>2
    <3>10. QED
      BY <2>4, <3>1, <3>8, <3>9 DEF Books
  <2>10. ASSUME Short(PlaceHazards)'
         PROVE  /\ \A k \in Jobs : Aims(k, run[k])'
                /\ \A p \in placed' : InPlace(p)'
    <3>1. /\ \A k \in Jobs : Aims(k, run[k])
          /\ \A p \in placed : InPlace(p)
      BY <2>4, <2>10, Shorts DEF KeepInv, PlaceInv
    <3>2. Aims(j, s)
      BY <1>1, <2>3, <2>7, <3>1 DEF Aims
    <3>3. \A k \in Jobs : Aims(k, run'[k])
      BY <2>5, <3>1, <3>2
    <3>4. ASSUME NEW k \in Jobs
          PROVE  Aims(k, run[k])'
      <4>1. PICK q : q = run'[k]
        OBVIOUS
      <4>2. Aims(k, q)'
        BY <2>4, <3>3, <4>1, AimsStay
      <4>3. QED
        BY <4>1, <4>2 DEF Aims, Dest, Resv, ItemAt
    <3>5. \A p \in placed' : InPlace(p)'
      BY <2>4, <3>1 DEF InPlace, Dest, Resv
    <3>6. QED
      BY <3>4, <3>5
  <2>11. ASSUME Short(Hazards)'
         PROVE  \A k \in Jobs : Done(k, run[k])'
    <3>1. \A k \in Jobs : Done(k, run[k])
      BY <2>4, <2>11, Shorts DEF KeepInv, DoneInv
    <3>2. Done(j, s)
      BY <1>1, <2>3, <2>7, <3>1 DEF Done
    <3>3. \A k \in Jobs : Done(k, run'[k])
      BY <2>5, <3>1, <3>2
    <3>4. QED
      BY <2>4, <3>3 DEF Done, Archived, ItemAt
  <2>12. QED
    BY <2>8, <2>9, <2>10, <2>11 DEF KeepInv, BookInv, PlaceInv, DoneInv
<1>4. QED
  BY <1>2, <1>3

\* A step beside the runs and the folder that changes no reservation.
LEMMA AsideKeeps ==
  ASSUME KeepInv, IInv', BookInv', UNCHANGED <<run, archive, tmp, placed, staged, xmp>>,
         Short(Losses)' => \A d \in Devices : manifest'[d].resv = manifest[d].resv,
         hazards \subseteq hazards'
  PROVE  KeepInv'
<1>1. Short(Losses)' => \A j \in Jobs : \A i : Dest(j, i)' = Dest(j, i)
  <2>1. Short(Losses)' => \A j \in Jobs : manifest'[DeviceOf[j]].resv = manifest[DeviceOf[j]].resv
    BY ArchiveCopyConstants
  <2>2. QED
    BY <2>1 DEF Dest, Resv
<1>2. ASSUME Short(PlaceHazards)'
      PROVE  /\ \A k \in Jobs : Aims(k, run[k])'
             /\ \A p \in placed' : InPlace(p)'
  <2>1. /\ \A k \in Jobs : Aims(k, run[k])
        /\ \A p \in placed : InPlace(p)
    BY <1>2, Shorts DEF KeepInv, PlaceInv
  <2>2. \A k \in Jobs : Dest(k, ItemAt(k, run[k]))' = Dest(k, ItemAt(k, run[k]))
    BY <1>1, <1>2, Shorts DEF ItemAt, Dest, Resv
  <2>3. \A k \in Jobs : Aims(k, run[k])'
    BY <2>1, <2>2 DEF Aims, ItemAt
  <2>4. \A p \in placed' : InPlace(p)'
    BY <1>1, <1>2, <2>1, Shorts DEF InPlace
  <2>5. QED
    BY <2>3, <2>4
<1>3. Short(Hazards)' =>
        \A k \in Jobs : Done(k, run[k])'
  BY Shorts DEF KeepInv, DoneInv, Done, Archived, ItemAt
<1>4. QED
  BY <1>2, <1>3 DEF KeepInv, PlaceInv, DoneInv

\* What is not saved any more, or was not touched, adds what it did.
LEMMA AddsStay ==
  ASSUME NEW w \in Writers, Adds(w), Doc(w)' = Doc(w),
         manifest'[DeviceOf[w[2]]] = manifest[DeviceOf[w[2]]],
         w[1] = "reserve" => run'[w[2]].n = run[w[2]].n
  PROVE  Adds(w)'
  BY DEF Adds, Item

\* Forms of runs that nothing changes.
LEMMA FormsStay ==
  ASSUME Forms, UNCHANGED <<run, status>>,
         \A k \in Jobs : saving'[<<"append", k>>].at # "idle" => status[k] = "importing"
  PROVE  Forms'
  BY DEF Forms, Form, ItemAt, Running

\* The runs and their cards when a writer has read the manifest.
LEMMA SavesForms ==
  ASSUME KeepInv, NEW j \in Jobs, NEW kind, NEW doc, Saves(kind, j, doc),
         status[j] = "importing"
  PROVE  Forms'
<1>1. \A k \in Jobs : k # j => saving'[<<"append", k>>] = saving[<<"append", k>>]
  BY DEF Saves, Writers, KeepInv, IInv, TypeOK
<1>2. UNCHANGED <<run, status>>
  BY DEF Saves, stageVars
<1>3. QED
  BY <1>1, <1>2, FormsStay DEF KeepInv, BookInv, Forms

\* Reservations are lost: of the invariant only what the runs are like remains.
LEMMA LosesResv ==
  ASSUME IInv', Forms', hazards' \intersect Losses # {}
  PROVE  KeepInv'
<1>1. ~Short(Losses)' /\ ~Short(PlaceHazards)' /\ ~Short(Hazards)'
  BY DEF Short
<1>2. QED
  BY <1>1 DEF KeepInv, BookInv, PlaceInv, DoneInv

\* An append begins.
LEMMA AppendReadKeeps ==
  ASSUME KeepInv, IInv', NEW j \in Jobs, AppendRead(j)
  PROVE  KeepInv'
<1> DEFINE w == <<"append", j>>
           m == manifest[DeviceOf[j]]
<1>c. ASSUME NEW old \in m.jobs, History({"cut"}),
             Saves("append", j, Merged(Without(m, {old}, ItemSet(old)), {j}, <<>>))
      PROVE  KeepInv'
  <2>1. Forms'
    BY <1>c, SavesForms DEF AppendRead
  <2>2. QED
    BY <1>c, <2>1, LosesResv DEF History
<1> SUFFICES ASSUME Saves("append", j, Merged(m, {j}, <<>>)), History({})
             PROVE  KeepInv'
  BY <1>c DEF AppendRead
<1>1. PICK doc : doc = Merged(m, {j}, <<>>)
  OBVIOUS
<1>2. /\ saving' = [saving EXCEPT ![w] = [at |-> "read", doc |-> doc]]
      /\ UNCHANGED <<staged, xmp, status, archive, tmp, placed, manifest, mtmp, run>>
      /\ hazards \subseteq hazards' /\ (Short(Losses)' => ~Overlap')
      /\ status[j] = "importing"
  BY <1>1 DEF AppendRead, Saves, History, stageVars, folderVars, Short
<1>3. \A v \in Writers : saving'[v] =
        IF v = w THEN [at |-> "read", doc |-> doc] ELSE saving[v]
  BY <1>2 DEF KeepInv, IInv, TypeOK
<1>4. w \in Writers /\ m \in Manifest
  BY ArchiveCopyConstants DEF Writers, KeepInv, IInv, TypeOK
<1>5. Forms'
  BY SavesForms DEF AppendRead
<1>6. ASSUME Short(Losses)'
      PROVE  Books'
  <2>1. Books /\ ~Overlap'
    BY <1>2, <1>6, Shorts DEF KeepInv, BookInv
  <2>2. doc.jobs = m.jobs \union {j} /\ doc.resv = m.resv
    <3>1. DOMAIN <<>> = {}
      OBVIOUS
    <3>2. m.resv \in [Files -> Reservation \union {None}]
      BY <1>4 DEF Manifest
    <3>3. doc.resv = [f \in Files |-> m.resv[f]]
      BY <1>1, <3>1 DEF Merged
    <3>4. QED
      BY <1>1, <3>2, <3>3 DEF Merged
  <2>3. doc \in Manifest
    BY <1>4, <2>2, <1>1 DEF Merged, Manifest
  <2>4. Booked(doc)
    BY <2>1, <2>2, ArchiveCopyConstants DEF Books, Booked
  <2>5. Doc(w)' = doc
    BY <1>3, <1>4 DEF Doc
  <2>6. Adds(w)'
    BY <1>2, <2>2, <2>3, <2>4, <2>5 DEF Adds
  <2>7. \A v \in Writers : v # w => Doc(v)' = Doc(v) /\ saving'[v].at = saving[v].at
    BY <1>2, <1>3 DEF Doc
  <2>8. ASSUME NEW v \in Writers, saving'[v].at # "idle", v # w
        PROVE  Adds(v)'
    BY <1>2, <2>1, <2>7, <2>8, AddsStay DEF Books
  <2>9. ASSUME NEW k \in Jobs
        PROVE  Pending(k, run[k])'
    <3>1. Doc(<<"reserve", k>>)' = Doc(<<"reserve", k>>)
      BY <2>7 DEF Writers
    <3>2. Pending(k, run[k])
      BY <2>1 DEF Books
    <3>3. QED
      BY <1>2, <3>1, <3>2 DEF Pending, Resv, ItemAt, Bare
  <2>10. QED
    BY <1>2, <2>1, <2>6, <2>8, <2>9 DEF Books
<1>7. QED
  BY <1>2, <1>5, <1>6, AsideKeeps DEF BookInv

\* The folders get numbers.
LEMMA RenumberReadKeeps ==
  ASSUME KeepInv, IInv', NEW j \in Jobs, RenumberRead(j)
  PROVE  KeepInv'
<1>1. Forms'
  BY SavesForms DEF RenumberRead
<1>2. "renumbered" \in hazards'
  BY DEF RenumberRead, History
<1>3. QED
  BY <1>1, <1>2, LosesResv

\* Writers of one device take turns while no two are open together.
LEMMA OneWriter ==
  ASSUME KeepInv, Short(Losses), NEW v \in Writers, NEW w \in Writers, v # w,
         saving[v].at # "idle", saving[w].at # "idle"
  PROVE  DeviceOf[v[2]] # DeviceOf[w[2]]
  BY DEF KeepInv, BookInv, Books, Overlap

\* A manifest goes to its temporary file, which no other writer has open.
LEMMA ManifestWriteKeeps ==
  ASSUME KeepInv, IInv', NEW w \in Writers, ManifestWrite(w)
  PROVE  KeepInv'
<1>1. /\ saving[w].at = "read"
      /\ mtmp' = [mtmp EXCEPT ![DeviceOf[w[2]]] = saving[w].doc]
      /\ saving' = [saving EXCEPT ![w].at = "written"]
      /\ UNCHANGED <<staged, xmp, status, archive, tmp, placed, manifest, run>>
      /\ hazards \subseteq hazards' /\ (Short(Losses)' => ~Overlap')
  BY DEF ManifestWrite, History, stageVars, folderVars, Short
<1>2. DeviceOf[w[2]] \in Devices /\ \A v \in Writers : DeviceOf[v[2]] \in Devices
  BY ArchiveCopyConstants DEF Writers
<1>3. \A v \in Writers : saving'[v].at = IF v = w THEN "written" ELSE saving[v].at
  BY <1>1 DEF KeepInv, IInv, TypeOK
<1>4. Forms'
  <2>1. \A k \in Jobs : saving'[<<"append", k>>].at # "idle" =>
                          saving[<<"append", k>>].at # "idle"
    BY <1>1, <1>3 DEF Writers
  <2>2. QED
    BY <1>1, <2>1, FormsStay DEF KeepInv, BookInv, Forms
<1>5. ASSUME Short(Losses)'
      PROVE  Books'
  <2>1. Books /\ ~Overlap' /\ Short(Losses)
    BY <1>1, <1>5, Shorts DEF KeepInv, BookInv
  <2>2. ASSUME NEW v \in Writers, saving'[v].at # "idle"
        PROVE  Doc(v)' = Doc(v) /\ saving[v].at # "idle"
    <3>1. CASE v = w
      BY <1>1, <1>2, <1>3, <3>1 DEF Doc, KeepInv, IInv, TypeOK
    <3>2. CASE v # w
      <4>1. saving[v].at # "idle" /\ saving'[v] = saving[v]
        BY <1>1, <1>3, <2>2, <3>2 DEF KeepInv, IInv, TypeOK
      <4>2. DeviceOf[v[2]] # DeviceOf[w[2]]
        BY <1>1, <2>1, <3>2, <4>1, OneWriter
      <4>3. mtmp'[DeviceOf[v[2]]] = mtmp[DeviceOf[v[2]]]
        BY <1>1, <1>2, <4>2 DEF KeepInv, IInv, TypeOK
      <4>4. QED
        BY <4>1, <4>3 DEF Doc
    <3>3. QED
      BY <3>1, <3>2
  <2>3. ASSUME NEW v \in Writers, saving'[v].at # "idle"
        PROVE  Adds(v)'
    BY <1>1, <2>1, <2>2, <2>3, AddsStay DEF Books
  <2>4. ASSUME NEW k \in Jobs
        PROVE  Pending(k, run[k])'
    <3>1. run[k].at = "reserving" => Doc(<<"reserve", k>>)' = Doc(<<"reserve", k>>)
      <4>1. <<"reserve", k>> \in Writers
        BY DEF Writers
      <4>2. run[k].at = "reserving" => saving'[<<"reserve", k>>].at # "idle"
        BY <1>3, <4>1 DEF KeepInv, IInv, AtItem
      <4>3. QED
        BY <2>2, <4>1, <4>2
    <3>2. Pending(k, run[k])
      BY <2>1 DEF Books
    <3>3. QED
      BY <1>1, <3>1, <3>2 DEF Pending, Resv, ItemAt, Bare
  <2>5. QED
    BY <1>1, <2>1, <2>3, <2>4 DEF Books
<1>6. QED
  BY <1>1, <1>4, <1>5, AsideKeeps DEF BookInv

\* A writer that is done, with nothing renamed.
LEMMA DropBooks ==
  ASSUME KeepInv, NEW here \in SUBSET Writers,
         saving' = [v \in Writers |-> IF v \in here THEN NotSaving ELSE saving[v]],
         UNCHANGED <<manifest, mtmp>>,
         \A k \in Jobs : run'[k] # run[k] => run'[k].at # "reserving",
         \A k \in Jobs : <<"reserve", k>> \notin here /\ saving[<<"reserve", k>>].at # "idle" =>
           run'[k].n = run[k].n,
         \A k \in Jobs : <<"reserve", k>> \in here => run'[k].at # "reserving",
         Short(Losses) => \A k \in Jobs : run'[k] # run[k] => Pending(k, run'[k]),
         Short(Losses),
         \A k \in Jobs : status'[k] # "importing" => status[k] # "importing"
  PROVE  Books'
<1>1. Books
  BY DEF KeepInv, BookInv
<1>2. \A v \in Writers : saving'[v].at # "idle" => v \notin here /\ saving'[v] = saving[v]
  BY DEF NotSaving
<1>3. ~Overlap'
  BY <1>1, <1>2 DEF Books, Overlap
<1>4. ASSUME NEW v \in Writers, saving'[v].at # "idle"
      PROVE  Adds(v)'
  <2>1. Adds(v) /\ Doc(v)' = Doc(v)
    BY <1>1, <1>2, <1>4 DEF Books, Doc
  <2>2. v[1] = "reserve" => v = <<"reserve", v[2]>> /\ v[2] \in Jobs
    BY DEF Writers
  <2>3. v[1] = "reserve" => run'[v[2]].n = run[v[2]].n
    BY <1>2, <1>4, <2>2
  <2>4. QED
    BY <2>1, <2>3, AddsStay
<1>5. ASSUME NEW k \in Jobs
      PROVE  Pending(k, run[k])'
  <2>1. PICK q : q = run'[k]
    OBVIOUS
  <2>2. Pending(k, q)
    BY <1>1, <2>1 DEF Books
  <2>3. q.at = "reserving" => Doc(<<"reserve", k>>)' = Doc(<<"reserve", k>>)
    <3>1. <<"reserve", k>> \in Writers
      BY DEF Writers
    <3>2. q.at = "reserving" => saving'[<<"reserve", k>>] = saving[<<"reserve", k>>]
      BY <2>1, <3>1
    <3>3. QED
      BY <3>2 DEF Doc
  <2>4. Pending(k, q)'
    BY <2>2, <2>3 DEF Pending, Resv, ItemAt, Bare
  <2>5. QED
    BY <2>1, <2>4 DEF Pending, Resv, ItemAt, Bare
<1>6. QED
  BY <1>1, <1>3, <1>4, <1>5 DEF Books

\* A save that fails ends the run of a pair, or fails its single file.
LEMMA SaveFailsKeeps ==
  ASSUME KeepInv, IInv', NEW w \in Writers, SaveFails(w)
  PROVE  KeepInv'
<1> DEFINE j == w[2]
<1>1. /\ saving[w].at # "idle"
      /\ UNCHANGED <<staged, xmp, archive, tmp, placed, manifest, mtmp>>
      /\ hazards \subseteq hazards' /\ j \in Jobs
      /\ w[1] \in {"append", "reserve", "renumber"} /\ w = <<w[1], j>>
  BY DEF SaveFails, History, folderVars, Writers
<1>2. saving' = [v \in Writers |-> IF v \in {w} THEN NotSaving ELSE saving[v]]
  BY DEF SaveFails, KeepInv, IInv, TypeOK
<1>3. CASE w[1] # "reserve"
  <2>1. UNCHANGED <<run, status>>
    BY <1>3 DEF SaveFails
  <2>2. Forms'
    <3>1. \A k \in Jobs : saving'[<<"append", k>>].at # "idle" =>
                            saving[<<"append", k>>].at # "idle"
      BY <1>2 DEF Writers, NotSaving
    <3>2. QED
      BY <2>1, <3>1, FormsStay DEF KeepInv, BookInv, Forms
  <2>3. Short(Losses)' => Books'
    <3>1. \A k \in Jobs : <<"reserve", k>> \notin {w}
      BY <1>1, <1>3
    <3>2. QED
      BY <1>1, <1>2, <2>1, <3>1, Shorts, DropBooks
  <2>4. QED
    BY <1>1, <2>1, <2>2, <2>3, AsideKeeps DEF BookInv
<1>4. CASE w[1] = "reserve"
  <2>1. run[j].at = "reserving" /\ status[j] = "syncing"
    <3>1. run[j].at = "reserving"
      BY <1>1, <1>4 DEF KeepInv, IInv, AtItem
    <3>2. QED
      BY <1>1, <3>1 DEF KeepInv, BookInv, Forms, Running
  <2>2. PICK s : s = IF run[j].mode = "pair" THEN Rest ELSE FailsAt(j)
    OBVIOUS
  <2>3. /\ Form(j, s) /\ s.at # "reserving"
        /\ Short(Losses) => Pending(j, s)
        /\ Short(PlaceHazards)' => Aims(j, s)'
        /\ Short(Hazards)' => Done(j, s)'
    <3>1. CASE run[j].mode = "pair"
      BY <1>1, <2>2, <3>1, FreshGood
    <3>2. CASE run[j].mode # "pair"
      <4>1. Form(j, run[j]) /\ run[j].mode = "single"
        BY <1>1, <2>1, <3>2 DEF KeepInv, BookInv, Forms, Form
      <4>2. ~Moves(j, FALSE)
        BY <4>1 DEF Moves
      <4>3. Outcome(j, FALSE, s) /\ s.errors
        BY <1>1, <2>1, <2>2, <3>2, Outcomes
      <4>4. Good(j, s) /\ s.at # "reserving"
        BY <1>1, <2>1, <4>2, <4>3, AfterGood
      <4>5. Short(PlaceHazards)' => Aims(j, s)'
        BY <1>1, <4>4, Shorts, AimsStay DEF Good
      <4>6. Short(Hazards)' => Done(j, s)'
        BY <1>1, <4>4, Shorts DEF Good, Done, Archived, ItemAt
      <4>7. QED
        BY <4>4, <4>5, <4>6 DEF Good
    <3>3. QED
      BY <3>1, <3>2
  <2>4. run' = [run EXCEPT ![j] = s]
    BY <1>4, <2>2 DEF SaveFails
  <2>5. \A k \in Jobs : run'[k] = IF k = j THEN s ELSE run[k]
    BY <2>4 DEF KeepInv, IInv, TypeOK
  <2>6. /\ \A k \in Jobs : k # j => status'[k] = status[k]
        /\ status'[j] \in {"syncing", "sync-failed"}
        /\ s.at # "idle" => status'[j] = "syncing"
    <3>1. status' = status \/ status' = [status EXCEPT ![j] = "sync-failed"]
      BY <1>4 DEF SaveFails
    <3>2. run[j].mode # "pair" => status' = status
      BY <1>4 DEF SaveFails
    <3>3. run[j].mode = "pair" => s.at = "idle"
      BY <2>2, RestFits, <1>1
    <3>4. QED
      BY <2>1, <3>1, <3>2, <3>3 DEF KeepInv, IInv, TypeOK
  <2>7. Forms'
    <3>1. \A k \in Jobs : saving'[<<"append", k>>] = saving[<<"append", k>>]
      BY <1>2, <1>4 DEF Writers
    <3>2. ASSUME NEW k \in Jobs
          PROVE  /\ Form(k, run[k])'
                 /\ Running(k)' => status'[k] = "syncing"
                 /\ saving'[<<"append", k>>].at # "idle" => status'[k] = "importing"
      <4>1. CASE k = j
        <5>1. Form(k, run[k])'
          BY <2>3, <2>5, <4>1 DEF Form, ItemAt
        <5>2. saving[<<"append", k>>].at = "idle"
          BY <2>1, <4>1 DEF KeepInv, BookInv, Forms
        <5>3. QED
          BY <2>5, <2>6, <3>1, <4>1, <5>1, <5>2 DEF Running
      <4>2. CASE k # j
        <5>a. Form(k, run[k]) /\ run'[k] = run[k]
          BY <2>5, <4>2 DEF KeepInv, BookInv, Forms
        <5>1. Form(k, run[k])'
          BY <5>a DEF Form, ItemAt
        <5>2. QED
          BY <2>5, <2>6, <3>1, <4>2, <5>1 DEF KeepInv, BookInv, Forms, Running
      <4>3. QED
        BY <4>1, <4>2
    <3>3. QED
      BY <3>2 DEF Forms
  <2>8. ASSUME Short(Losses)'
        PROVE  Books'
    <3>1. Short(Losses)
      BY <1>1, <2>8, Shorts
    <3>2. \A k \in Jobs : run'[k] # run[k] => k = j
      BY <2>5
    <3>3. \A k \in Jobs : <<"reserve", k>> \notin {w} => k # j
      BY <1>1, <1>4
    <3>4. \A k \in Jobs : <<"reserve", k>> \in {w} => k = j
      BY <1>1, <1>4
    <3>5. \A k \in Jobs : status'[k] # "importing" => status[k] # "importing"
      BY <2>1, <2>6
    <3>6. \A k \in Jobs : run'[k] # run[k] =>
                            run'[k].at # "reserving" /\ Pending(k, run'[k])
      BY <2>3, <2>5, <3>1, <3>2
    <3>7. \A k \in Jobs : <<"reserve", k>> \in {w} => run'[k].at # "reserving"
      BY <2>3, <2>5, <3>4
    <3>8. \A k \in Jobs : <<"reserve", k>> \notin {w} => run'[k].n = run[k].n
      BY <2>5, <3>3
    <3>9. {w} \in SUBSET Writers
      OBVIOUS
    <3>10. QED
      BY <1>1, <1>2, <3>1, <3>5, <3>6, <3>7, <3>8, <3>9, DropBooks
  <2>9. ASSUME Short(PlaceHazards)'
        PROVE  /\ \A k \in Jobs : Aims(k, run[k])'
               /\ \A p \in placed' : InPlace(p)'
    <3>1. ASSUME NEW k \in Jobs
          PROVE  Aims(k, run[k])'
      <4>1. PICK q : q = run'[k]
        OBVIOUS
      <4>2. Aims(k, q)'
        <5>1. CASE k = j
          BY <2>3, <2>5, <2>9, <4>1, <5>1
        <5>2. CASE k # j
          <6>1. Aims(k, q)
            BY <1>1, <2>5, <2>9, <4>1, <5>2, Shorts DEF KeepInv, PlaceInv
          <6>2. QED
            BY <1>1, <6>1, AimsStay
        <5>3. QED
          BY <5>1, <5>2
      <4>3. QED
        BY <4>1, <4>2 DEF Aims, Dest, Resv, ItemAt
    <3>2. \A p \in placed' : InPlace(p)'
      BY <1>1, <2>9, Shorts DEF KeepInv, PlaceInv, InPlace, Dest, Resv
    <3>3. QED
      BY <3>1, <3>2
  <2>10. ASSUME Short(Hazards)', NEW k \in Jobs
         PROVE  Done(k, run[k])'
    <3>1. CASE k = j
      BY <2>3, <2>5, <2>10, <3>1 DEF Done, Archived, ItemAt
    <3>2. CASE k # j
      <4>1. Done(k, run[k])
        BY <1>1, <2>10, Shorts DEF KeepInv, DoneInv
      <4>2. QED
        BY <1>1, <2>5, <3>2, <4>1 DEF Done, Archived, ItemAt
    <3>3. QED
      BY <3>1, <3>2
  <2>11. QED
    BY <2>7, <2>8, <2>9, <2>10 DEF KeepInv, BookInv, PlaceInv, DoneInv
<1>5. QED
  BY <1>1, <1>3, <1>4

\* What the rename of w's manifest does to the records, short of losses.
LEMMA RenameBooks ==
  ASSUME KeepInv, NEW w \in Writers, ManifestRename(w), Short(Losses),
         w[1] # "renumber"
  PROVE  /\ Adds(w) /\ manifest'[DeviceOf[w[2]]] = Doc(w)
         /\ \A d \in Devices : d # DeviceOf[w[2]] => manifest'[d] = manifest[d]
         /\ \A f \in Files, d \in Devices : manifest'[d].resv[f] # manifest[d].resv[f] =>
              /\ d = DeviceOf[w[2]] /\ w[1] = "reserve" /\ f[1] = Item(w[2])
              /\ manifest'[d].resv[f] = Doc(w).resv[f]
         /\ Books'
<1> DEFINE j == w[2]
           d == DeviceOf[j]
<1>1. /\ saving[w].at = "written"
      /\ manifest' = [manifest EXCEPT ![d] = mtmp[d]]
      /\ mtmp' = [mtmp EXCEPT ![d] = None]
      /\ saving' = [saving EXCEPT ![w] = NotSaving]
  BY DEF ManifestRename
<1>2. /\ j \in Jobs /\ d \in Devices /\ w[1] \in {"append", "reserve"}
      /\ w = <<w[1], j>>
      /\ \A v \in Writers : v[2] \in Jobs /\ DeviceOf[v[2]] \in Devices
  BY ArchiveCopyConstants DEF Writers
<1>3. Books
  BY DEF KeepInv, BookInv
<1>4. Adds(w) /\ Doc(w) = mtmp[d]
  BY <1>1, <1>3 DEF Books, Doc
<1>5. manifest'[d] = Doc(w) /\ \A c \in Devices : c # d => manifest'[c] = manifest[c]
  BY <1>1, <1>2, <1>4 DEF KeepInv, IInv, TypeOK
<1>6. \A f \in Files, c \in Devices : manifest'[c].resv[f] # manifest[c].resv[f] =>
        /\ c = d /\ w[1] = "reserve" /\ f[1] = Item(j)
        /\ manifest'[c].resv[f] = Doc(w).resv[f]
  BY <1>4, <1>5 DEF Adds
<1>7. \A v \in Writers : saving'[v].at # "idle" => v # w /\ saving'[v] = saving[v]
  BY <1>1 DEF KeepInv, IInv, TypeOK, NotSaving
<1>8. ASSUME NEW k \in Jobs
      PROVE  /\ \/ run'[k] = run[k]
                \/ /\ k = j /\ w[1] = "reserve"
                   /\ run'[k] = [run[k] EXCEPT !.at = "copy"]
                   /\ run[k].at = "reserving"
             /\ k = j /\ w[1] = "reserve" => run'[k].at = "copy" /\ run[k].at = "reserving"
             /\ run'[k].n = run[k].n
  <2>1. w[1] = "append" => run' = run
    BY DEF ManifestRename
  <2>2. w[1] = "reserve" => run' = [run EXCEPT ![j].at = "copy"]
    BY DEF ManifestRename
  <2>3. w[1] = "reserve" => run[j].at = "reserving"
    BY <1>1, <1>2 DEF KeepInv, IInv, AtItem
  <2>4. run[k] \in Run /\ \A l \in Jobs : l # k =>
          [run EXCEPT ![l].at = "copy"][k] = run[k]
    BY DEF KeepInv, IInv, TypeOK
  <2>5. w[1] = "reserve" /\ k = j => run'[k] = [run[k] EXCEPT !.at = "copy"]
    BY <2>2 DEF KeepInv, IInv, TypeOK
  <2>6. [run[k] EXCEPT !.at = "copy"].n = run[k].n
        /\ [run[k] EXCEPT !.at = "copy"].at = "copy"
    BY <2>4 DEF Run
  <2>7. w[1] = "append" \/ k # j => run'[k] = run[k]
    BY <1>2, <2>1, <2>2, <2>4
  <2>8. QED
    BY <1>2, <2>3, <2>5, <2>6, <2>7
<1>9. ASSUME NEW v \in Writers, saving'[v].at # "idle"
      PROVE  /\ Doc(v)' = Doc(v) /\ saving[v].at # "idle"
             /\ manifest'[DeviceOf[v[2]]] = manifest[DeviceOf[v[2]]]
  <2>1. DeviceOf[v[2]] # d
    BY <1>1, <1>7, <1>9, OneWriter
  <2>2. mtmp'[DeviceOf[v[2]]] = mtmp[DeviceOf[v[2]]]
    BY <1>1, <1>2, <2>1 DEF KeepInv, IInv, TypeOK
  <2>3. QED
    BY <1>2, <1>5, <1>7, <1>9, <2>1, <2>2 DEF Doc
<1>10. ~Overlap'
  BY <1>3, <1>7 DEF Books, Overlap
<1>11. \A c \in Devices : Booked(manifest'[c])
  BY <1>3, <1>4, <1>5 DEF Books, Adds
<1>12. \A k \in Jobs : status'[k] # "importing" => k \in manifest'[DeviceOf[k]].jobs
  <2>1. \A k \in Jobs : manifest[DeviceOf[k]].jobs \subseteq manifest'[DeviceOf[k]].jobs
    BY <1>4, <1>5, ArchiveCopyConstants DEF Adds
  <2>2. \A k \in Jobs : status'[k] = status[k] \/ (k = j /\ w[1] = "append")
    BY <1>2 DEF ManifestRename, KeepInv, IInv, TypeOK
  <2>3. w[1] = "append" => j \in manifest'[DeviceOf[j]].jobs
    BY <1>4, <1>5 DEF Adds
  <2>4. QED
    BY <1>3, <2>1, <2>2, <2>3 DEF Books
<1>13. ASSUME NEW v \in Writers, saving'[v].at # "idle"
       PROVE  Adds(v)'
  <2>1. v[1] = "reserve" => run'[v[2]].n = run[v[2]].n
    BY <1>2, <1>8
  <2>2. QED
    BY <1>3, <1>9, <1>13, <2>1, AddsStay DEF Books
<1>14. ASSUME NEW k \in Jobs
       PROVE  Pending(k, run[k])'
  <2>1. Pending(k, run[k])
    BY <1>3 DEF Books
  <2>2. CASE run'[k] # run[k]
    <3>1. Form(k, run[k]) /\ run[k] \in Run
      BY DEF KeepInv, IInv, TypeOK, BookInv, Forms
    <3>2. run'[k].at = "copy" /\ run'[k].mode \in {"single", "pair"}
      BY <1>8, <2>2, <3>1 DEF Form, Run
    <3>3. QED
      BY <3>2 DEF Pending, Bare
  <2>3. CASE run'[k] = run[k]
    <3>1. ASSUME Bare(run[k])
          PROVE  Resv(k, Item(k), "raw")' = None
      <4>1. run[k].at \notin {"idle", "next"}
        BY <3>1 DEF Bare
      <4>2. Item(k) \in Items /\ Owns(k, Item(k)) /\ Item(k) = ItemAt(k, run[k])
        BY <4>1, RunFacts, ItemOwned
      <4>3. Resv(k, Item(k), "raw") = None
        BY <2>1, <3>1, <4>2 DEF Pending
      <4>4. <<Item(k), "raw">> \in Files /\ DeviceOf[k] \in Devices
        BY <4>2, ArchiveCopyConstants DEF Files, Exts
      <4>5. k # j \/ w[1] # "reserve"
        BY <1>8, <2>3
      <4>6. w[1] = "reserve" => Item(k) # Item(j)
        <5>1. w[1] = "reserve" => run[j].at = "reserving"
          BY <1>1, <1>2 DEF KeepInv, IInv, AtItem
        <5>2. w[1] = "reserve" => Owns(j, Item(j))
          BY <1>2, <5>1, ItemOwned
        <5>3. QED
          BY <1>2, <4>2, <4>5, <5>2, OneOwner
      <4>7. manifest'[DeviceOf[k]].resv[<<Item(k), "raw">>] = None
        BY <1>6, <4>3, <4>4, <4>6 DEF Resv
      <4>8. QED
        BY <2>3, <4>7 DEF Resv, Item
    <3>2. run[k].at = "reserving" => Doc(<<"reserve", k>>)' = Doc(<<"reserve", k>>)
      <4>1. <<"reserve", k>> \in Writers
        BY DEF Writers
      <4>2. run'[k].at = "reserving" => saving'[<<"reserve", k>>].at # "idle"
        <5>1. run[k].at = "reserving" => saving[<<"reserve", k>>].at # "idle"
          BY DEF KeepInv, IInv, AtItem
        <5>2. <<"reserve", k>> = w => run'[k].at = "copy"
          <6>1. <<"reserve", k>> = w => k = j /\ w[1] = "reserve"
            OBVIOUS
          <6>2. QED
            BY <1>8, <6>1
        <5>3. QED
          BY <1>1, <2>3, <4>1, <5>1, <5>2 DEF KeepInv, IInv, TypeOK
      <4>3. QED
        BY <1>9, <2>3, <4>1, <4>2
    <3>3. QED
      BY <2>1, <2>3, <3>1, <3>2 DEF Pending, ItemAt, Item, Bare, Resv
  <2>4. QED
    BY <2>2, <2>3
<1>15. Books'
  BY <1>10, <1>11, <1>12, <1>13, <1>14 DEF Books
<1>16. QED
  BY <1>4, <1>5, <1>6, <1>15

\* The rename of the manifest: the card is ready, or the reserved place is that of
\* the item from now on.
LEMMA ManifestRenameKeeps ==
  ASSUME KeepInv, IInv', NEW w \in Writers, ManifestRename(w)
  PROVE  KeepInv'
<1> DEFINE j == w[2]
<1>1. /\ saving[w].at = "written" /\ saving' = [saving EXCEPT ![w] = NotSaving]
      /\ UNCHANGED <<staged, xmp, archive, tmp, placed>>
      /\ hazards \subseteq hazards' /\ j \in Jobs
      /\ w[1] \in {"append", "reserve", "renumber"} /\ w = <<w[1], j>>
      /\ \A d \in Devices : manifest[d] \in Manifest /\ manifest'[d] \in Manifest
  BY DEF ManifestRename, History, folderVars, Writers, KeepInv, IInv, TypeOK
<1>2. \A k \in Jobs : <<"append", k>> \in Writers
  BY DEF Writers
<1>3. \A v \in Writers : saving'[v].at = IF v = w THEN "idle" ELSE saving[v].at
  BY <1>1 DEF KeepInv, IInv, TypeOK, NotSaving
<1>a. w[1] = "renumber" => "renumbered" \in hazards'
  BY DEF ManifestRename, History
<1>b. w[1] = "renumber" => ~Short(Losses)' /\ ~Short(PlaceHazards)' /\ ~Short(Hazards)'
  BY <1>a DEF Short
<1>4. Short(Losses)' => Books'
  BY <1>1, <1>b, Shorts, RenameBooks
<1>5. CASE w[1] = "append"
  <2>1. UNCHANGED run /\ status' = [status EXCEPT ![j] = "ready"]
    BY <1>5 DEF ManifestRename
  <2>2. Forms'
    <3>1. status[j] = "importing" /\ ~Running(j)
      BY <1>1, <1>5 DEF KeepInv, BookInv, Forms
    <3>2. \A k \in Jobs : status'[k] = IF k = j THEN "ready" ELSE status[k]
      BY <2>1 DEF KeepInv, IInv, TypeOK
    <3>3. saving'[<<"append", j>>].at = "idle"
      BY <1>1, <1>2, <1>3, <1>5
    <3>4. \A k \in Jobs : k # j => saving'[<<"append", k>>].at = saving[<<"append", k>>].at
      BY <1>1, <1>2, <1>3
    <3>5. \A k \in Jobs : Form(k, run[k])'
      BY <2>1 DEF KeepInv, BookInv, Forms, Form, ItemAt
    <3>6. \A k \in Jobs : Running(k)' => status'[k] = "syncing"
      BY <2>1, <3>1, <3>2 DEF KeepInv, BookInv, Forms, Running
    <3>7. \A k \in Jobs : saving'[<<"append", k>>].at # "idle" => status'[k] = "importing"
      BY <3>2, <3>3, <3>4 DEF KeepInv, BookInv, Forms
    <3>8. QED
      BY <3>5, <3>6, <3>7 DEF Forms
  <2>3. ASSUME Short(Losses)', NEW d \in Devices
        PROVE  manifest'[d].resv = manifest[d].resv
    <3>1. \A f \in Files : manifest'[d].resv[f] = manifest[d].resv[f]
      BY <1>1, <1>5, <2>3, Shorts, RenameBooks
    <3>2. /\ manifest[d].resv \in [Files -> Reservation \union {None}]
          /\ manifest'[d].resv \in [Files -> Reservation \union {None}]
      BY <1>1 DEF Manifest
    <3>3. QED
      BY <3>1, <3>2
  <2>4. QED
    BY <1>1, <1>4, <2>1, <2>2, <2>3, AsideKeeps DEF BookInv
<1>6. CASE w[1] = "reserve"
  <2>1. run[j].at = "reserving"
    BY <1>1, <1>6 DEF KeepInv, IInv, AtItem
  <2>2. /\ run[j] \in Run /\ Form(j, run[j]) /\ status[j] = "syncing"
        /\ Item(j) \in Items /\ Item(j) = ItemAt(j, run[j]) /\ Owns(j, Item(j))
        /\ run[j].half = "raw" /\ run[j].mode \in {"single", "pair"}
    BY <1>1, <2>1, RunFacts, ItemOwned DEF KeepInv, BookInv, Forms, Form
  <2>3. PICK s : s = [run[j] EXCEPT !.at = "copy"]
    OBVIOUS
  <2>4. /\ s.at = "copy" /\ s.to = run[j].to /\ s.n = run[j].n
        /\ s.half = run[j].half /\ s.mode = run[j].mode /\ s.hasXmp = run[j].hasXmp
        /\ s.errors = run[j].errors /\ s.conflict = run[j].conflict
        /\ s.aborted = run[j].aborted
    BY <2>2, <2>3 DEF Run
  <2>5. /\ \A k \in Jobs : run'[k] = IF k = j THEN s ELSE run[k]
        /\ UNCHANGED status
    BY <1>6, <2>3 DEF ManifestRename, KeepInv, IInv, TypeOK
  <2>6. Form(j, s) /\ ItemAt(j, s) = Item(j)
    BY <2>1, <2>2, <2>4 DEF Form, ItemAt
  <2>7. Forms'
    <3>1. \A k \in Jobs : Form(k, run'[k])
      BY <2>5, <2>6 DEF KeepInv, BookInv, Forms
    <3>2. \A k \in Jobs : Form(k, run[k])'
      BY <3>1 DEF Form, ItemAt
    <3>3. \A k \in Jobs : Running(k)' => status'[k] = "syncing"
      BY <2>2, <2>5 DEF KeepInv, BookInv, Forms, Running
    <3>4. \A k \in Jobs : saving'[<<"append", k>>].at # "idle" => status'[k] = "importing"
      BY <1>2, <1>3, <2>5 DEF KeepInv, BookInv, Forms
    <3>5. QED
      BY <3>2, <3>3, <3>4 DEF Forms
  <2>8. ASSUME Short(PlaceHazards)'
        PROVE  /\ \A k \in Jobs : Aims(k, run[k])'
               /\ \A p \in placed' : InPlace(p)'
    <3>1. /\ Short(PlaceHazards) /\ Short(Losses)
          /\ \A k \in Jobs : Aims(k, run[k])
          /\ \A p \in placed : InPlace(p)
          /\ Alone /\ Books
      BY <1>1, <2>8, Shorts DEF KeepInv, PlaceInv, IInv, BookInv
    <3>2. \A p \in placed : p[1] # Item(j)
      BY <1>1, <2>1, <2>2, <3>1 DEF Aims
    <3>3. \A k \in Jobs : k # j => run'[k].at = "idle"
      BY <1>1, <2>1, <2>5, <3>1 DEF Alone, Running
    <3>4. \A f \in Files : manifest'[DeviceOf[j]].resv[f] # manifest[DeviceOf[j]].resv[f] =>
             f[1] = Item(j)
      <4>1. DeviceOf[j] \in Devices
        BY <1>1, ArchiveCopyConstants
      <4>2. QED
        BY <1>1, <1>6, <3>1, <4>1, RenameBooks
    <3>5. \A d \in Devices, f \in Files : f[1] # Item(j) =>
             manifest'[d].resv[f] = manifest[d].resv[f]
      BY <1>1, <1>6, <3>1, RenameBooks
    <3>6. Dest(j, Item(j))' = run[j].to
      <4>1. manifest'[DeviceOf[j]] = Doc(w)
        BY <1>1, <1>6, <3>1, RenameBooks
      <4>2. Doc(w).resv[<<Item(j), "raw">>] # None /\ Doc(w).resv[<<Item(j), "raw">>].to = run[j].to
        BY <1>1, <1>6, <2>1, <2>2, <3>1 DEF Books, Pending
      <4>3. Resv(j, Item(j), "raw")' = Doc(w).resv[<<Item(j), "raw">>]
        BY <2>4, <2>5, <1>1, <4>1 DEF Resv, Item
      <4>4. Item(j)' = Item(j)
        BY <1>1, <2>4, <2>5 DEF Item
      <4>5. QED
        BY <4>2, <4>3, <4>4 DEF Dest, Resv
    <3>7. Item(j)' = Item(j)
      BY <1>1, <2>4, <2>5 DEF Item
    <3>8. Aims(j, run[j])'
      <4>1. Aims(j, run[j])
        BY <1>1, <3>1
      <4>2. /\ archive[run[j].to]["raw"] = None
            /\ run[j].mode = "pair" => archive[run[j].to]["xmp"] = None
        BY <2>1, <2>2, <4>1 DEF Aims
      <4>3. /\ run'[j].at = "copy" /\ run'[j].to = run[j].to /\ run'[j].half = "raw"
            /\ run'[j].mode = run[j].mode /\ ItemAt(j, run[j])' = Item(j)'
        BY <1>1, <2>2, <2>4, <2>5 DEF ItemAt, Item
      <4>4. QED
        BY <1>1, <2>2, <3>6, <4>2, <4>3 DEF Aims
    <3>9. ASSUME NEW k \in Jobs
          PROVE  Aims(k, run[k])'
      <4>1. CASE k = j
        BY <3>8, <4>1
      <4>2. CASE k # j
        BY <3>3, <4>2 DEF Aims
      <4>3. QED
        BY <4>1, <4>2
    <3>10. ASSUME NEW p \in placed
           PROVE  InPlace(p)'
      <4>1. p[1] # Item(j) /\ p[1] \in Items
        BY <3>2, <3>10 DEF KeepInv, IInv, TypeOK
      <4>2. PICK l \in Jobs : /\ Owns(l, p[1]) /\ p[3] = Dest(l, p[1])
                              /\ archive[p[3]]["raw"] = staged[p[1]]
        BY <3>1, <3>10 DEF InPlace
      <4>3. Dest(l, p[1])' = Dest(l, p[1])
        <5>1. <<p[1], "raw">> \in Files /\ DeviceOf[l] \in Devices
          BY <4>1, ArchiveCopyConstants DEF Files, Exts
        <5>2. manifest'[DeviceOf[l]].resv[<<p[1], "raw">>] = manifest[DeviceOf[l]].resv[<<p[1], "raw">>]
          BY <3>5, <4>1, <5>1
        <5>3. QED
          BY <1>1, <5>2 DEF Dest, Resv
      <4>4. QED
        BY <1>1, <4>2, <4>3 DEF InPlace, Owns
    <3>11. QED
      BY <1>1, <3>9, <3>10
  <2>9. ASSUME Short(Hazards)', NEW k \in Jobs
        PROVE  Done(k, run[k])'
    <3>1. Done(k, run[k])
      BY <1>1, <2>9, Shorts DEF KeepInv, DoneInv
    <3>2. CASE k = j
      <4>1. Done(k, s)
        BY <2>1, <2>2, <2>4, <2>6, <3>1, <3>2 DEF Done
      <4>2. QED
        BY <1>1, <2>5, <3>2, <4>1 DEF Done, Archived, ItemAt
    <3>3. CASE k # j
      BY <1>1, <2>5, <3>1, <3>3 DEF Done, Archived, ItemAt
    <3>4. QED
      BY <3>2, <3>3
  <2>10. QED
    BY <1>4, <2>7, <2>8, <2>9 DEF KeepInv, BookInv, PlaceInv, DoneInv
<1>7. CASE w[1] = "renumber"
  <2>1. UNCHANGED <<run, status>>
    BY <1>7 DEF ManifestRename
  <2>2. \A k \in Jobs : saving'[<<"append", k>>].at # "idle" =>
                          saving[<<"append", k>>].at # "idle"
    BY <1>2, <1>3
  <2>3. Forms'
    BY <2>1, <2>2, FormsStay DEF KeepInv, BookInv, Forms
  <2>4. QED
    BY <1>7, <1>b, <2>3 DEF KeepInv, BookInv, PlaceInv, DoneInv
<1>8. QED
  BY <1>1, <1>5, <1>6, <1>7

-----------------------------------------------------------------------------
(* The places of the files: the environment                                *)

\* A step beside the runs and the manifest.
LEMMA BookStays ==
  ASSUME KeepInv, UNCHANGED <<run, status, manifest, mtmp, saving>>,
         hazards \subseteq hazards'
  PROVE  BookInv'
<1>1. Forms'
  BY FormsStay DEF KeepInv, BookInv, Forms
<1>2. ASSUME Short(Losses)'
      PROVE  Books'
  <2>1. Books
    BY <1>2, Shorts DEF KeepInv, BookInv
  <2>2. ~Overlap'
    BY <2>1 DEF Books, Overlap
  <2>3. \A w \in Writers : saving'[w].at # "idle" => Adds(w)'
    BY <2>1 DEF Books, Adds, Doc, Item
  <2>4. ASSUME NEW k \in Jobs
        PROVE  Pending(k, run[k])'
    <3>1. Pending(k, run[k])
      BY <2>1 DEF Books
    <3>2. QED
      BY <3>1 DEF Pending, Resv, ItemAt, Bare, Doc
  <2>5. QED
    BY <2>1, <2>2, <2>3, <2>4 DEF Books
<1>3. QED
  BY <1>1, <1>2 DEF BookInv

\* Without its lock a sync may do what it likes.
LEMMA LosesLockKeeps ==
  ASSUME KeepInv, IInv', NEW j \in Jobs, LosesLock(j)
  PROVE  KeepInv'
<1>1. /\ UNCHANGED <<run, status, manifest, mtmp, saving>>
      /\ hazards \subseteq hazards' /\ "lapse" \in hazards'
  BY DEF LosesLock, History, stageVars, manifestVars
<1>2. BookInv'
  BY <1>1, BookStays
<1>3. PlaceInv' /\ DoneInv'
  BY <1>1 DEF PlaceInv, DoneInv, Short
<1>4. QED
  BY <1>2, <1>3 DEF KeepInv

\* Files of others between two syncs take no place that is taken.
LEMMA AddForeignKeeps ==
  ASSUME KeepInv, IInv', NEW f \in Foreign, AddForeign(f[1], f[2], f[3])
  PROVE  KeepInv'
<1>1. /\ UNCHANGED <<run, status, manifest, mtmp, saving, placed, staged>>
      /\ hazards \subseteq hazards'
      /\ (\E j \in Jobs : Running(j)) => "foreign" \in hazards'
      /\ archive[f[1]][f[2]] = None
      /\ archive' = [archive EXCEPT ![f[1]][f[2]] = f[3]]
  BY DEF AddForeign, History, stageVars, manifestVars
<1>2. BookInv'
  BY <1>1, BookStays
<1>3. Short({"foreign"})' => \A j \in Jobs : run'[j].at = "idle"
  BY <1>1 DEF Short, Running
<1>4. \A n \in Names, e \in Exts : archive[n][e] # None => archive'[n][e] = archive[n][e]
  BY <1>1 DEF KeepInv, IInv, TypeOK
<1>5. ASSUME Short(PlaceHazards)'
      PROVE  /\ \A k \in Jobs : Aims(k, run[k])'
             /\ \A p \in placed' : InPlace(p)'
  <2>1. \A k \in Jobs : Aims(k, run[k])'
    BY <1>3, <1>5 DEF Aims, Short
  <2>2. ASSUME NEW p \in placed
        PROVE  InPlace(p)'
    <3>1. InPlace(p)
      BY <1>1, <1>5, <2>2, Shorts DEF KeepInv, PlaceInv
    <3>2. p[3] \in Names /\ p[1] \in Items /\ "raw" \in Exts
      BY <2>2 DEF KeepInv, IInv, TypeOK, Exts
    <3>3. staged[p[1]] # None
      BY <3>2, ArchiveCopyConstants DEF KeepInv, IInv, TypeOK
    <3>4. archive'[p[3]]["raw"] = archive[p[3]]["raw"]
      BY <1>4, <3>1, <3>2, <3>3 DEF InPlace
    <3>5. QED
      BY <1>1, <3>1, <3>4 DEF InPlace, Dest, Resv, Owns
  <2>3. QED
    BY <1>1, <2>1, <2>2
<1>6. ASSUME Short(Hazards)', NEW k \in Jobs
      PROVE  Done(k, run[k])'
  BY <1>3, <1>6 DEF Done, Short
<1>7. QED
  BY <1>2, <1>5, <1>6 DEF KeepInv, PlaceInv, DoneInv

\* A sidecar that is written while its job is not synced.
LEMMA WriteSidecarKeeps ==
  ASSUME KeepInv, IInv', NEW j \in Jobs, NEW i \in Items, NEW v \in DOMAIN XmpOf[i],
         WriteSidecar(j, i, v)
  PROVE  KeepInv'
<1>1. /\ UNCHANGED <<run, status, manifest, mtmp, saving, archive, tmp, placed,
                   staged>>
      /\ hazards \subseteq hazards' /\ (Running(j) => "sidecar" \in hazards')
      /\ xmp' = [xmp EXCEPT ![i] = XmpOf[i][v]] /\ Owns(j, i)
  BY DEF WriteSidecar, ItemSet, History, manifestVars, folderVars, Owns
<1>2. BookInv'
  BY <1>1, BookStays
<1>3. ASSUME Short(PlaceHazards)'
      PROVE  /\ \A k \in Jobs : Aims(k, run[k])'
             /\ \A p \in placed' : InPlace(p)'
  BY <1>1, <1>3, Shorts DEF KeepInv, PlaceInv, Aims, InPlace, Dest, Resv, ItemAt, Owns
<1>4. ASSUME Short(Hazards)', NEW k \in Jobs
      PROVE  Done(k, run[k])'
  <2>1. Done(k, run[k]) /\ (Running(k) => k # j)
    BY <1>1, <1>4, Shorts DEF KeepInv, DoneInv, Short
  <2>2. CASE run[k].at = "idle"
    BY <1>1, <2>2 DEF Done
  <2>3. CASE run[k].at # "idle"
    <3>1. k # j
      BY <2>1, <2>3 DEF Running
    <3>2. \A l \in Items : Owns(k, l) => xmp'[l] = xmp[l]
      BY <1>1, <3>1, OneOwner DEF KeepInv, IInv, TypeOK
    <3>3. \A m \in DOMAIN ItemsOf[k] : ItemsOf[k][m] \in Items /\ Owns(k, ItemsOf[k][m])
      BY ArchiveCopyConstants DEF Owns
    <3>4. \A m \in DOMAIN ItemsOf[k] : xmp'[ItemsOf[k][m]] = xmp[ItemsOf[k][m]]
      BY <3>2, <3>3
    <3>5. run[k].at \notin {"idle", "next"} => run[k].n \in DOMAIN ItemsOf[k]
      BY DEF KeepInv, IInv, AtItem
    <3>6. \A m \in DOMAIN ItemsOf[k] : Archived(ItemsOf[k][m]) => Archived(ItemsOf[k][m])'
      BY <1>1, <3>4 DEF Archived
    <3>7. QED
      BY <1>1, <2>1, <3>4, <3>5, <3>6 DEF Done, ItemAt
  <2>4. QED
    BY <2>2, <2>3
<1>5. QED
  BY <1>2, <1>3, <1>4 DEF KeepInv, PlaceInv, DoneInv

\* A staged file that is written again is not what was compared and copied before.
LEMMA RewriteImageKeeps ==
  ASSUME KeepInv, IInv', NEW j \in Jobs, NEW i \in Items, NEW c \in EditsOf[i],
         RewriteImage(j, i, c)
  PROVE  KeepInv'
<1>1. /\ UNCHANGED <<run, status, manifest, mtmp, saving>>
      /\ hazards \subseteq hazards' /\ "rewritten" \in hazards'
  BY DEF RewriteImage, History, manifestVars
<1>2. BookInv'
  BY <1>1, BookStays
<1>3. PlaceInv' /\ DoneInv'
  BY <1>1 DEF PlaceInv, DoneInv, Short
<1>4. QED
  BY <1>2, <1>3 DEF KeepInv

\* A crash ends the runs of its device and the saves they had open.
LEMMA CrashKeeps ==
  ASSUME KeepInv, IInv', NEW d \in Devices, Crash(d)
  PROVE  KeepInv'
<1>1. PICK here : here = {j \in Jobs : DeviceOf[j] = d}
  OBVIOUS
<1>2. PICK gone : gone = {w \in Writers : w[2] \in here}
  OBVIOUS
<1>3. /\ run' = [j \in Jobs |-> IF j \in here THEN Rest ELSE run[j]]
      /\ saving' = [w \in Writers |-> IF w \in gone THEN NotSaving ELSE saving[w]]
      /\ UNCHANGED <<staged, xmp, status, archive, placed, manifest, mtmp>>
      /\ hazards \subseteq hazards'
      /\ UNCHANGED tmp \/ \E j \in here : run[j].at = "copy"
      /\ here \subseteq Jobs /\ gone \in SUBSET Writers
  BY <1>1, <1>2 DEF Crash, History, stageVars
<1>4. \A k \in Jobs : \/ run'[k] = run[k] /\ k \notin here
                      \/ run'[k] = Rest /\ k \in here
  BY <1>3
<1>5. \A k \in Jobs : /\ Form(k, Rest) /\ Pending(k, Rest) /\ Aims(k, Rest)'
                      /\ Done(k, Rest)' /\ Rest.at = "idle"
  <2>1. Rest.at = "idle"
    BY DEF Rest
  <2>2. QED
    BY <2>1 DEF Form, Pending, Bare, Aims, Done
<1>6. Forms'
  <2>1. \A k \in Jobs : saving'[<<"append", k>>].at # "idle" =>
                          saving[<<"append", k>>].at # "idle"
    BY <1>3 DEF Writers, NotSaving
  <2>2. \A k \in Jobs : Form(k, run'[k])
    BY <1>4, <1>5 DEF KeepInv, BookInv, Forms
  <2>3. \A k \in Jobs : Form(k, run[k])'
    BY <2>2 DEF Form, ItemAt
  <2>4. \A k \in Jobs : Running(k)' => status'[k] = "syncing"
    BY <1>3, <1>4, <1>5 DEF KeepInv, BookInv, Forms, Running
  <2>5. QED
    BY <1>3, <2>1, <2>3, <2>4 DEF KeepInv, BookInv, Forms
<1>7. ASSUME Short(Losses)'
      PROVE  Books'
  <2>1. Short(Losses)
    BY <1>3, <1>7, Shorts
  <2>2. \A k \in Jobs : <<"reserve", k>> \in gone <=> k \in here
    BY <1>2 DEF Writers
  <2>3. \A k \in Jobs : run'[k] # run[k] => run'[k].at # "reserving" /\ Pending(k, run'[k])
    BY <1>4, <1>5
  <2>4. \A k \in Jobs : <<"reserve", k>> \notin gone => run'[k].n = run[k].n
    BY <1>4, <2>2
  <2>5. \A k \in Jobs : <<"reserve", k>> \in gone => run'[k].at # "reserving"
    BY <1>4, <1>5, <2>2
  <2>6. QED
    BY <1>3, <2>1, <2>3, <2>4, <2>5, DropBooks
<1>8. Short(PlaceHazards) =>
        \A k \in Jobs : run'[k].at # "idle" => UNCHANGED tmp
  BY <1>3, <1>4, <1>5, Shorts DEF KeepInv, IInv, Alone, Running
<1>9. ASSUME Short(PlaceHazards)'
      PROVE  /\ \A k \in Jobs : Aims(k, run[k])'
             /\ \A p \in placed' : InPlace(p)'
  <2>1. /\ Short(PlaceHazards)
        /\ \A k \in Jobs : Aims(k, run[k])
        /\ \A p \in placed : InPlace(p)
    BY <1>3, <1>9, Shorts DEF KeepInv, PlaceInv
  <2>2. ASSUME NEW k \in Jobs
        PROVE  Aims(k, run[k])'
    <3>1. PICK q : q = run'[k]
      OBVIOUS
    <3>2. CASE q.at = "idle"
      BY <3>1, <3>2 DEF Aims
    <3>3. CASE q.at # "idle"
      <4>1. run[k] = q /\ UNCHANGED tmp
        BY <1>4, <1>5, <1>8, <2>1, <3>1, <3>3
      <4>2. Aims(k, q)'
        BY <1>3, <2>1, <4>1, AimsStay
      <4>3. QED
        BY <3>1, <4>2 DEF Aims, Dest, Resv, ItemAt
    <3>4. QED
      BY <3>2, <3>3
  <2>3. \A p \in placed' : InPlace(p)'
    BY <1>3, <2>1 DEF InPlace, Dest, Resv
  <2>4. QED
    BY <2>2, <2>3
<1>10. ASSUME Short(Hazards)', NEW k \in Jobs
       PROVE  Done(k, run[k])'
  <2>1. Done(k, run[k]) /\ Short(PlaceHazards)
    BY <1>3, <1>10, Shorts DEF KeepInv, DoneInv
  <2>2. CASE run'[k].at = "idle"
    BY <2>2 DEF Done
  <2>3. CASE run'[k].at # "idle"
    <3>1. run'[k] = run[k] /\ UNCHANGED tmp
      BY <1>4, <1>5, <1>8, <2>1, <2>3
    <3>2. QED
      BY <1>3, <2>1, <3>1 DEF Done, Archived, ItemAt
  <2>4. QED
    BY <2>2, <2>3
<1>11. QED
  BY <1>6, <1>7, <1>9, <1>10 DEF KeepInv, BookInv, PlaceInv, DoneInv

-----------------------------------------------------------------------------
(* The places of the files: the rename                                     *)

\* Where the run goes from a rename, and what the rename did.
LEMMA InstallFacts ==
  ASSUME KeepInv, NEW j \in Jobs, Install(j), NEW s,
         s = IF run[j].half = "raw" THEN Succeeds(j) ELSE After(j, TRUE)
  PROVE  /\ Outcome(j, TRUE, s)
         /\ Moves(j, TRUE) =>
              /\ s.half = "xmp" /\ s.n = run[j].n /\ s.mode = run[j].mode /\ s.hasXmp
              /\ run[j].mode \in {"pair", "reserved", "duplicate"}
              /\ run[j].mode = "pair" => s.at = "copy"
              /\ run[j].mode = "reserved" => s.at = "lookup"
              /\ run[j].mode = "duplicate" => s.at = "stat"
              /\ run[j].mode # "duplicate" => s.to = run[j].to
         /\ ~Moves(j, TRUE) => s.at = "next" /\ s.n = run[j].n + 1
         /\ s.at \notin {"idle", "reserving", "install"}
         /\ Form(j, s)
         /\ Short(Losses) => Pending(j, s)
<1>1. /\ run[j] \in Run /\ Form(j, run[j]) /\ run[j].at = "install"
      /\ Short(Losses) => Pending(j, run[j])
      /\ Item(j) = ItemAt(j, run[j])
  BY RunFacts DEF Install
<1>2. Outcome(j, TRUE, s)
  BY <1>1, Outcomes
<1>3. Moves(j, TRUE) =>
        /\ s.half = "xmp" /\ s.n = run[j].n /\ s.mode = run[j].mode /\ s.hasXmp
        /\ run[j].mode \in {"pair", "reserved", "duplicate"}
        /\ run[j].mode = "pair" => s.at = "copy"
        /\ run[j].mode = "reserved" => s.at = "lookup"
        /\ run[j].mode = "duplicate" => s.at = "stat"
        /\ run[j].mode # "duplicate" => s.to = run[j].to
  BY <1>1, <1>2 DEF Outcome, Moves, After, Run, Form, Modes, XmpAt
<1>4. ~Moves(j, TRUE) => s.at = "next" /\ s.n = run[j].n + 1
  BY <1>1, <1>2 DEF Outcome, Moves, After, Run
<1>5. s.at \notin {"idle", "reserving", "install"}
  BY <1>3, <1>4
<1>6. Form(j, s)
  BY <1>3, <1>4 DEF Form
<1>7. ASSUME Short(Losses)
      PROVE  Pending(j, s)
  <2>1. CASE Moves(j, TRUE)
    <3>1. ItemAt(j, s) = ItemAt(j, run[j])
      BY <1>3, <2>1 DEF ItemAt
    <3>2. Bare(s) => Bare(run[j])
      BY <1>1, <1>3, <2>1 DEF Bare
    <3>3. s.at # "reserving"
      BY <1>5
    <3>4. QED
      BY <1>1, <1>7, <3>1, <3>2, <3>3 DEF Pending
  <2>2. CASE ~Moves(j, TRUE)
    BY <1>4, <2>2 DEF Pending, Bare
  <2>3. QED
    BY <2>1, <2>2
<1>8. QED
  BY <1>2, <1>3, <1>4, <1>5, <1>6, <1>7

\* The rename puts the file in its place.
LEMMA InstallKeeps ==
  ASSUME KeepInv, IInv', NEW j \in Jobs, Install(j)
  PROVE  KeepInv'
<1>1. PICK i, n, h : i = Item(j) /\ n = run[j].to /\ h = run[j].half
  OBVIOUS
<1>2. PICK s : s = IF run[j].half = "raw" THEN Succeeds(j) ELSE After(j, TRUE)
  OBVIOUS
<1>3. /\ run[j].at = "install" /\ Running(j) /\ run[j] \in Run /\ Form(j, run[j])
      /\ i = ItemAt(j, run[j]) /\ i \in Items /\ n \in Names /\ h \in {"raw", "xmp"}
      /\ Owns(j, i)
      /\ Short(PlaceHazards) => Aims(j, run[j])
      /\ Short(Hazards) => Done(j, run[j])
  BY <1>1, RunFacts, ItemOwned DEF Install, Run, Exts
<1>4. /\ archive' = [archive EXCEPT ![run[j].final][h] = tmp[n][h]]
      /\ placed' = placed \union {<<i, h, run[j].final>>}
      /\ run' = [run EXCEPT ![j] = s]
      /\ UNCHANGED <<manifest, mtmp, saving, staged, xmp, status>>
      /\ hazards \subseteq hazards'
  BY <1>1, <1>2 DEF Install, History, stageVars, manifestVars
<1>5. /\ Outcome(j, TRUE, s)
      /\ Moves(j, TRUE) =>
           /\ s.half = "xmp" /\ s.n = run[j].n /\ s.mode = run[j].mode /\ s.hasXmp
           /\ run[j].mode \in {"pair", "reserved", "duplicate"}
           /\ run[j].mode = "pair" => s.at = "copy"
           /\ run[j].mode = "reserved" => s.at = "lookup"
           /\ run[j].mode = "duplicate" => s.at = "stat"
           /\ run[j].mode # "duplicate" => s.to = n
      /\ ~Moves(j, TRUE) => s.at = "next" /\ s.n = run[j].n + 1
      /\ s.at \notin {"idle", "reserving", "install"} /\ Form(j, s)
      /\ Short(Losses) => Pending(j, s)
  BY <1>1, <1>2, InstallFacts
<1>6. BookInv'
  <2>1. status[j] = "syncing"
    BY <1>3 DEF KeepInv, BookInv, Forms
  <2>2. QED
    BY <1>3, <1>4, <1>5, <2>1, BookRun
<1>7. \A k \in Jobs : run'[k] = IF k = j THEN s ELSE run[k]
  BY <1>4 DEF KeepInv, IInv, TypeOK
<1>8. ASSUME Short(PlaceHazards)'
      PROVE  /\ Aims(j, run[j]) /\ run[j].final = n /\ n = Dest(j, i)
             /\ archive[n][h] = None
             /\ \A m \in Names, e \in Exts : archive'[m][e] =
                  IF m = n /\ e = h THEN tmp[n][h] ELSE archive[m][e]
             /\ archive'[n]["raw"] = staged[i]
             /\ h = "raw" => run[j].mode # "duplicate"
             /\ h = "raw" /\ run[j].mode = "pair" => archive'[n]["xmp"] = None
             /\ \A k \in Jobs : k # j => run'[k].at = "idle"
  <2>1. Aims(j, run[j]) /\ Short(PlaceHazards)
    BY <1>3, <1>4, <1>8, Shorts
  <2>2. /\ run[j].final = n /\ n = Dest(j, i) /\ archive[n][h] = None
        /\ h = "raw" => tmp[n]["raw"] = staged[i]
        /\ h = "raw" /\ run[j].mode = "pair" => archive[n]["xmp"] = None
        /\ h = "xmp" \/ run[j].mode = "duplicate" => archive[n]["raw"] = staged[i]
    BY <1>1, <1>3, <2>1 DEF Aims
  <2>3. \A m \in Names, e \in Exts : archive'[m][e] =
          IF m = n /\ e = h THEN tmp[n][h] ELSE archive[m][e]
    BY <1>3, <1>4, <2>2 DEF KeepInv, IInv, TypeOK
  <2>4. staged[i] # None
    BY <1>3, ArchiveCopyConstants DEF KeepInv, IInv, TypeOK
  <2>5. \A k \in Jobs : k # j => run'[k].at = "idle"
    <3>1. \A k \in Jobs : Running(k) => lock = k
      BY <1>4, <2>1, Shorts DEF KeepInv, IInv, Alone
    <3>2. \A k \in Jobs : k # j => ~Running(k)
      BY <1>3, <3>1
    <3>3. QED
      BY <1>7, <3>2 DEF Running
  <2>6. archive'[n]["raw"] = staged[i]
    BY <1>3, <2>2, <2>3 DEF Exts
  <2>7. h = "raw" => run[j].mode # "duplicate"
    BY <2>2, <2>4
  <2>8. h = "raw" /\ run[j].mode = "pair" => archive'[n]["xmp"] = None
    BY <1>3, <2>2, <2>3 DEF Exts
  <2>9. QED
    BY <2>1, <2>2, <2>3, <2>5, <2>6, <2>7, <2>8
<1>9. ASSUME Short(PlaceHazards)', NEW k \in Jobs
      PROVE  Aims(k, run[k])'
  <2>1. CASE k # j
    BY <1>8, <1>9, <2>1 DEF Aims
  <2>2. CASE k = j /\ ~Moves(j, TRUE)
    BY <1>5, <1>7, <2>2 DEF Aims
  <2>3. CASE k = j /\ Moves(j, TRUE)
    <3>1. h = "raw" /\ run[j].mode \in {"pair", "reserved"}
      BY <1>1, <1>5, <1>8, <1>9, <2>3 DEF Moves
    <3>2. /\ s.at = (IF run[j].mode = "pair" THEN "copy" ELSE "lookup")
          /\ s.half = "xmp" /\ s.to = n /\ s.mode = run[j].mode
      BY <1>5, <2>3, <3>1
    <3>3. ItemAt(j, s) = i
      BY <1>3, <1>5, <2>3 DEF ItemAt
    <3>4. Dest(j, i)' = n
      BY <1>4, <1>8, <1>9 DEF Dest, Resv
    <3>5. run'[j] = s /\ ItemAt(j, run[j])' = i
      BY <1>7, <3>3 DEF ItemAt
    <3>6. archive'[n]["raw"] = staged[i] /\ (s.at = "copy" => archive'[n]["xmp"] = None)
      BY <1>8, <1>9, <3>1, <3>2
    <3>7. Aims(j, run[j])'
      BY <1>4, <3>2, <3>4, <3>5, <3>6 DEF Aims, Dest, Resv
    <3>8. QED
      BY <2>3, <3>7
  <2>4. QED
    BY <2>1, <2>2, <2>3
<1>10. ASSUME Short(PlaceHazards)', NEW p \in placed'
       PROVE  InPlace(p)'
  <2>1. CASE p \in placed
    <3>1. InPlace(p)
      BY <1>4, <1>10, <2>1, Shorts DEF KeepInv, PlaceInv
    <3>2. p[3] \in Names /\ p[1] \in Items /\ "raw" \in Exts
      BY <2>1 DEF KeepInv, IInv, TypeOK, Exts
    <3>3. staged[p[1]] # None
      BY <3>2, ArchiveCopyConstants DEF KeepInv, IInv, TypeOK
    <3>4. archive[p[3]]["raw"] = staged[p[1]]
      BY <3>1 DEF InPlace
    <3>5. archive'[p[3]]["raw"] = archive[p[3]]["raw"]
      BY <1>8, <1>10, <3>2, <3>3, <3>4
    <3>6. QED
      BY <1>4, <3>1, <3>5 DEF InPlace, Dest, Resv, Owns
  <2>2. CASE p = <<i, h, n>>
    <3>1. Dest(j, i)' = n
      BY <1>4, <1>8, <1>10 DEF Dest, Resv
    <3>2. QED
      BY <1>3, <1>4, <1>8, <1>10, <2>2, <3>1 DEF InPlace, Owns, Dest, Resv
  <2>3. QED
    BY <1>4, <1>8, <1>10, <2>1, <2>2
<1>11. ASSUME Short(Hazards)', NEW k \in Jobs
       PROVE  Done(k, run[k])'
  <2>1. Short(PlaceHazards)' /\ Done(j, run[j])
    BY <1>3, <1>4, <1>11, Shorts
  <2>2. CASE k # j
    BY <1>8, <2>1, <2>2 DEF Done
  <2>3. CASE k = j
    <3>1. \A l \in Items : Archived(l) => Archived(l)'
      <4>1. \A m \in Names, e \in Exts :
              archive[m][e] # None => archive'[m][e] = archive[m][e]
        BY <1>8, <2>1
      <4>2. \A l \in Items : staged[l] # None
        BY ArchiveCopyConstants DEF KeepInv, IInv, TypeOK
      <4>3. QED
        BY <1>4, <4>1, <4>2 DEF Archived, Exts
    <3>2. \A m \in DOMAIN ItemsOf[j] : ItemsOf[j][m] \in Items /\ m \in Nat
      BY ArchiveCopyConstants
    <3>3. ASSUME ~s.errors, ~s.conflict, ~s.aborted, NEW m \in DOMAIN ItemsOf[j],
                 m < run[j].n
          PROVE  Archived(ItemsOf[j][m])'
      <4>1. ~run[j].errors /\ ~run[j].conflict /\ ~run[j].aborted
        BY <1>5, <3>3 DEF Outcome
      <4>2. Archived(ItemsOf[j][m])
        BY <1>3, <2>1, <3>3, <4>1 DEF Done
      <4>3. QED
        BY <3>1, <3>2, <4>2
    <3>4. CASE Moves(j, TRUE)
      <4>1. ItemAt(j, s) = i /\ s.at \notin {"guard", "install"}
        BY <1>3, <1>5, <3>4 DEF ItemAt
      <4>2. xmp[i] # None
        BY <1>3, <2>1, <3>4 DEF Done, Moves
      <4>3. run'[j] = s /\ ItemAt(j, run[j])' = i
        BY <1>7, <4>1 DEF ItemAt
      <4>4. QED
        BY <1>4, <1>5, <2>3, <3>3, <3>4, <4>1, <4>2, <4>3 DEF Done
    <3>5. CASE ~Moves(j, TRUE)
      <4>1. Archived(i)'
        <5>1. h = "raw" => xmp[i] = None
          BY <1>1, <1>3, <2>1, <3>5 DEF Done, Moves
        <5>2. h = "xmp" => archive'[n]["xmp"] = xmp[i]
          BY <1>1, <1>3, <1>8, <2>1 DEF Done, Exts
        <5>3. archive'[n]["raw"] = staged[i]
          BY <1>8, <2>1
        <5>4. QED
          BY <1>3, <1>4, <5>1, <5>2, <5>3 DEF Archived
      <4>2. ASSUME ~s.errors, ~s.conflict, ~s.aborted, NEW m \in DOMAIN ItemsOf[j],
                   m < s.n
            PROVE  Archived(ItemsOf[j][m])'
        <5>1. m < run[j].n \/ m = run[j].n
          BY <1>3, <1>5, <3>2, <3>5, <4>2 DEF Run
        <5>2. m = run[j].n => ItemsOf[j][m] = i
          BY <1>3 DEF ItemAt
        <5>3. QED
          BY <3>3, <4>1, <4>2, <5>1, <5>2
      <4>3. run'[j] = s /\ s.at = "next"
        BY <1>5, <1>7, <3>5
      <4>4. QED
        BY <2>3, <4>2, <4>3 DEF Done
    <3>6. QED
      BY <3>4, <3>5
  <2>4. QED
    BY <2>2, <2>3
<1>12. QED
  BY <1>6, <1>9, <1>10, <1>11 DEF KeepInv, PlaceInv, DoneInv

-----------------------------------------------------------------------------
(* The places of the files: the theorems                                   *)

\* Nothing is there at first.
LEMMA InitKeepInv == Init => KeepInv
<1> SUFFICES ASSUME Init PROVE KeepInv
  OBVIOUS
<1>1. IInv
  BY InitIInv
<1>2. \A j \in Jobs : run[j].at = "idle" /\ status[j] = "importing"
  BY RestFits DEF Init
<1>3. \A w \in Writers : saving[w].at = "idle"
  BY DEF Init, NotSaving
<1>4. Forms
  BY <1>2, <1>3 DEF Forms, Form, Running, Writers
<1>5. Books
  <2>1. \A d \in Devices : Booked(manifest[d])
    BY DEF Init, NoManifest, Booked, Files, Exts
  <2>2. QED
    BY <1>2, <1>3, <2>1 DEF Books, Overlap, Pending, Bare
<1>6. PlaceInv
  BY <1>2 DEF PlaceInv, Aims, Init
<1>7. DoneInv
  BY <1>2 DEF DoneInv, Done
<1>8. QED
  BY <1>1, <1>4, <1>5, <1>6, <1>7 DEF KeepInv, BookInv

\* Every step keeps the invariant.
LEMMA NextKeepInv == KeepInv /\ [Next]_vars => KeepInv'
<1> SUFFICES ASSUME KeepInv, [Next]_vars PROVE KeepInv'
  OBVIOUS
<1>1. IInv'
  BY NextIInv DEF KeepInv
<1>2. ASSUME NEW j \in Jobs, JobStep(j)
      PROVE  KeepInv'
  BY <1>1, <1>2, AppendReadKeeps, RenumberReadKeeps, StartKeeps, BlockedKeeps, NextItemKeeps, EndKeeps,
     LookupKeeps, VerifyKeeps, ResolveKeeps, StatKeeps, ReserveKeeps, CopyKeeps,
     GuardKeeps, InstallKeeps, FileFailsKeeps, LosesLockKeeps, HeartbeatFailsKeeps,
     WriteSidecarKeeps, RewriteImageKeeps DEF JobStep
<1>3. ASSUME NEW w \in Writers, ManifestWrite(w) \/ ManifestRename(w) \/ SaveFails(w)
      PROVE  KeepInv'
  BY <1>1, <1>3, ManifestWriteKeeps, ManifestRenameKeeps, SaveFailsKeeps
<1>4. CASE UNCHANGED vars
  <2>1. UNCHANGED <<staged, xmp, archive, tmp, manifest, mtmp, saving, run, status, placed, hazards>>
    BY <1>4 DEF vars
  <2>2. BookInv'
    BY <2>1, BookStays
  <2>3. QED
    BY <1>1, <2>1, <2>2, AsideKeeps
<1>5. QED
  BY <1>1, <1>2, <1>3, <1>4, AddForeignKeeps, CrashKeeps DEF Next

\* A run goes to the one place of its item and finds it free, what was put there is
\* in its place beside its RAW, and a run that reported nothing left nothing out.
THEOREM KeepInvariance == Spec => []KeepInv
  BY InitKeepInv, NextKeepInv, PTL DEF Spec

\* Retries, crashes and conflicts leave a file under one name: the place of its item,
\* as long as no reservation is lost and no synced file rewritten.
THEOREM OneName == Spec => []OneNamePerFile
<1>1. KeepInv => OneNamePerFile
  <2> SUFFICES ASSUME KeepInv, Short(PlaceHazards),
                      NEW p \in placed, NEW q \in placed, p[1] = q[1], p[2] = q[2]
               PROVE  p = q
    BY DEF OneNamePerFile
  <2>1. InPlace(p) /\ InPlace(q)
    BY DEF KeepInv, PlaceInv
  <2>2. PICK j \in Jobs : Owns(j, p[1]) /\ p[3] = Dest(j, p[1])
    BY <2>1 DEF InPlace
  <2>3. PICK l \in Jobs : Owns(l, q[1]) /\ q[3] = Dest(l, q[1])
    BY <2>1 DEF InPlace
  <2>4. j = l
    BY <2>2, <2>3, OneOwner
  <2>5. p \in Items \X Exts \X Names /\ q \in Items \X Exts \X Names
    BY DEF KeepInv, IInv, TypeOK
  <2>6. QED
    BY <2>2, <2>3, <2>4, <2>5
<1>2. QED
  BY <1>1, KeepInvariance, PTL

\* An XMP is put where its own RAW is, whatever was retried or renamed before.
THEOREM XmpKept == Spec => []XmpBesideItsRaw
<1>1. KeepInv => XmpBesideItsRaw
  BY DEF KeepInv, PlaceInv, InPlace, XmpBesideItsRaw
<1>2. QED
  BY <1>1, KeepInvariance, PTL

\* Only the rename of a manifest changes one.
LEMMA KeepsManifest ==
  ASSUME KeepInv, [Next]_vars, Short(Losses)', NEW d \in Devices
  PROVE  /\ manifest[d].jobs \subseteq manifest'[d].jobs
         /\ \A f \in Files : manifest[d].resv[f] # None =>
              manifest'[d].resv[f] = manifest[d].resv[f]
<1>1. ASSUME NEW w \in Writers, ManifestRename(w)
      PROVE  /\ manifest[d].jobs \subseteq manifest'[d].jobs
             /\ \A f \in Files : manifest[d].resv[f] # None =>
                  manifest'[d].resv[f] = manifest[d].resv[f]
  <2>1. Short(Losses) /\ w[1] # "renumber"
    BY <1>1, Shorts DEF ManifestRename, History, Short
  <2>2. CASE d = DeviceOf[w[2]]
    BY <1>1, <2>1, <2>2, RenameBooks DEF Adds
  <2>3. CASE d # DeviceOf[w[2]]
    BY <1>1, <2>1, <2>3, RenameBooks
  <2>4. QED
    BY <2>2, <2>3
<1>2. ASSUME NEW j \in Jobs, JobStep(j)
      PROVE  manifest' = manifest
  BY <1>2 DEF JobStep, AppendRead, RenumberRead, Saves, Start, Blocked, NextItem, EndRun, PauseRun, Throws,
     Stops, Lookup, Verify, Resolve, Stat, Guard, Reads, Reserve, Copy, Install,
     FileFails, LosesLock, HeartbeatFails, WriteSidecar, RewriteImage, manifestVars
<1>3. ASSUME NEW w \in Writers, ManifestWrite(w) \/ SaveFails(w)
      PROVE  manifest' = manifest
  BY <1>3 DEF ManifestWrite, SaveFails
<1>4. ASSUME NEW f \in Foreign, AddForeign(f[1], f[2], f[3])
      PROVE  manifest' = manifest
  BY <1>4 DEF AddForeign, manifestVars
<1>5. ASSUME NEW c \in Devices, Crash(c)
      PROVE  manifest' = manifest
  BY <1>5 DEF Crash
<1>6. QED
  BY <1>1, <1>2, <1>3, <1>4, <1>5 DEF Next, vars

\* Records of the manifest survive the crashes and failures of its writers, each of
\* which replaces the whole file, as long as two of them do not overlap, the entries
\* fit and no folder is renamed.
THEOREM KeptManifest == Spec => ManifestKept
<1> DEFINE Kept == Short(Losses)' =>
             \A d \in Devices :
               /\ manifest[d].jobs \subseteq manifest'[d].jobs
               /\ \A f \in Files : manifest[d].resv[f] # None =>
                    manifest'[d].resv[f] = manifest[d].resv[f]
<1>1. KeepInv /\ [Next]_vars => [Kept]_vars
  BY KeepsManifest
<1>2. QED
  BY <1>1, KeepInvariance, PTL DEF Spec, ManifestKept

\* A run that ends with its job synced.
LEMMA EndsSynced ==
  ASSUME KeepInv, [Next]_vars, NEW j \in Jobs, Running(j), ~Running(j)',
         status'[j] = "synced"
  PROVE  EndRun(j) /\ Verdict(run[j]) = "synced"
<1>a. status[j] = "syncing" /\ status'[j] # status[j]
  BY DEF KeepInv, BookInv, Forms
<1>1. ASSUME NEW l \in Jobs, NEW v, Stops(l, v)
      PROVE  l = j /\ v = "synced"
  BY <1>a, <1>1 DEF Stops, KeepInv, IInv, TypeOK
<1>2. ASSUME NEW l \in Jobs, JobStep(l)
      PROVE  EndRun(j) /\ Verdict(run[j]) = "synced"
  <2>1. CASE EndRun(l)
    <3>1. PICK v : v = Verdict(run[l])
      OBVIOUS
    <3>2. Stops(l, v)
      BY <2>1, <3>1 DEF EndRun
    <3>3. QED
      BY <1>1, <2>1, <3>1, <3>2
  <2>2. ~PauseRun(l) /\ ~Throws(l)
    BY <1>1 DEF PauseRun, Throws
  <2>3. ~Start(l) /\ ~Blocked(l)
    BY <1>a DEF Start, Blocked, KeepInv, IInv, TypeOK
  <2>4. ASSUME \/ NextItem(l) \/ Lookup(l) \/ Verify(l) \/ Resolve(l) \/ Stat(l)
               \/ Reserve(l) \/ Copy(l) \/ Guard(l) \/ Install(l) \/ FileFails(l)
               \/ LosesLock(l) \/ HeartbeatFails(l)
        PROVE  FALSE
    <3>1. UNCHANGED status
      BY <2>4 DEF NextItem, Lookup, Verify, Resolve, Stat, Guard, Reads,
         Reserve, Copy, Install, FileFails, LosesLock, HeartbeatFails, stageVars
    <3>2. QED
      BY <1>a, <3>1
  <2>5. /\ \A i \in Items : \A v \in DOMAIN XmpOf[i] : ~WriteSidecar(l, i, v)
        /\ \A i \in Items : \A c \in EditsOf[i] : ~RewriteImage(l, i, c)
    BY <1>a DEF WriteSidecar, RewriteImage
  <2>6. ~AppendRead(l) /\ ~RenumberRead(l)
    <3>1. \A kind, doc : ~Saves(kind, l, doc)
      BY <1>a DEF Saves, stageVars
    <3>2. QED
      BY <3>1 DEF AppendRead, RenumberRead
  <2>7. CASE EndRun(l)
    BY <2>1, <2>7
  <2>8. CASE ~EndRun(l)
    BY <1>2, <2>2, <2>3, <2>4, <2>5, <2>6, <2>8 DEF JobStep
  <2>9. QED
    BY <2>7, <2>8
<1>3. ASSUME NEW w \in Writers, ManifestWrite(w) \/ ManifestRename(w) \/ SaveFails(w)
      PROVE  FALSE
  BY <1>a, <1>3 DEF ManifestWrite, ManifestRename, SaveFails, stageVars, KeepInv, IInv, TypeOK
<1>4. ASSUME NEW f \in Foreign, AddForeign(f[1], f[2], f[3])
      PROVE  FALSE
  BY <1>a, <1>4 DEF AddForeign, stageVars
<1>5. ASSUME NEW d \in Devices, Crash(d)
      PROVE  FALSE
  BY <1>a, <1>5 DEF Crash, stageVars
<1>6. QED
  BY <1>a, <1>2, <1>3, <1>4, <1>5 DEF Next, vars

\* A job is told to be synced only with every file and its XMP in the archive.
THEOREM SyncedArchived == Spec => SyncedIsArchived
<1> DEFINE Told == Short(Hazards)' =>
             \A j \in Jobs : Running(j) /\ ~Running(j)' /\ status'[j] = "synced" =>
               \A k \in DOMAIN ItemsOf[j] : \E n \in Names :
                 LET i == ItemsOf[j][k] IN
                 /\ archive[n]["raw"] = staged[i]
                 /\ xmp[i] # None => archive[n]["xmp"] = xmp[i]
<1>1. ASSUME KeepInv, [Next]_vars, Short(Hazards)',
             NEW j \in Jobs, Running(j), ~Running(j)', status'[j] = "synced",
             NEW k \in DOMAIN ItemsOf[j]
      PROVE  Archived(ItemsOf[j][k])
  <2>1. EndRun(j) /\ Verdict(run[j]) = "synced"
    BY <1>1, EndsSynced
  <2>2. hazards \subseteq hazards'
    BY <2>1 DEF EndRun, Stops, History
  <2>3. Done(j, run[j])
    BY <1>1, <2>2, Shorts DEF KeepInv, DoneInv
  <2>4. ~run[j].errors /\ ~run[j].conflict /\ ~run[j].aborted
    BY <2>1 DEF Verdict
  <2>5. run[j].at = "next" /\ ~(run[j].n <= Len(ItemsOf[j])) /\ run[j].n \in Nat
    BY <1>1, <2>1, <2>4 DEF EndRun, More, KeepInv, IInv, TypeOK, Run
  <2>6. k < run[j].n
    <3>1. ItemsOf[j] \in Seq(Items)
      BY ArchiveCopyConstants
    <3>2. QED
      BY <2>5, <3>1
  <2>7. QED
    BY <2>3, <2>4, <2>5, <2>6 DEF Done
<1>2. KeepInv /\ [Next]_vars => [Told]_vars
  BY <1>1 DEF Archived
<1>3. QED
  BY <1>2, KeepInvariance, PTL DEF Spec, SyncedIsArchived

=============================================================================
