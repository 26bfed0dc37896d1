----------------------------- MODULE ArchiveCopy -----------------------------
(***************************************************************************)
(* How syncJob copies staged files into one photographer folder of the     *)
(* archive (src/services/archiveSyncService.js) and the reservations of    *)
(* renamed destinations in the staging manifest (localSyncManifest.js).    *)
(*                                                                         *)
(* A job is one import's job entry; it is synced, stopped and retried.  An *)
(* item is one file of its list: a RAW with a companion XMP, or a file     *)
(* without one.  Every operation is split where the code awaits between    *)
(* what it reads and what it writes.  The photographer lock is here only   *)
(* what ArchiveLock shows of it: one sync at a time, unless it is lost.    *)
(***************************************************************************)
EXTENDS Integers, Sequences, FiniteSets

CONSTANTS
  Devices,    \* staging devices; each has one manifest of this event
  Jobs,       \* import ids
  DeviceOf,   \* job -> device
  Items,      \* staged files, as entries of files[]: no two jobs share one
  ItemsOf,    \* job -> the sequence of its items (files[] of its job entry)
  Names,      \* basenames in the archive folder
  NameOf,     \* item -> its own basename
  SuffixOf,   \* name -> its renamings name_1, name_2, ..., in order (bounded)
  Contents,   \* what a file may contain
  RawOf,      \* item -> contents of its RAW (or JPG, or video) when it is first synced
  EditsOf,    \* item -> what writing metadata into a JPG or video may make of it, {} for a RAW
  XmpOf,      \* item -> the sequence of contents its XMP gets, << >> for none
  Foreign,    \* <<name, extension, contents>> others may add to the folder
  MaxRuns,    \* job -> bound on its runs
  MaxJobs,    \* MAX_JOBS: entries a manifest keeps
  Torn,       \* part of a file
  None

Exts == {"raw", "xmp"}

\* resolvedFiles: where a file has its place, and what it contained then.
Reservation == [to : Names, is : Contents \union {None}]

ASSUME ArchiveCopyConstants ==
  /\ DeviceOf \in [Jobs -> Devices]
  /\ ItemsOf \in [Jobs -> Seq(Items)]
  /\ \A j, l \in Jobs : \A k \in DOMAIN ItemsOf[j], m \in DOMAIN ItemsOf[l] :
       ItemsOf[j][k] = ItemsOf[l][m] => j = l /\ k = m
  /\ NameOf \in [Items -> Names]
  /\ SuffixOf \in [Names -> Seq(Names)]
  /\ RawOf \in [Items -> Contents]
  /\ XmpOf \in [Items -> Seq(Contents)]
  /\ EditsOf \in [Items -> SUBSET Contents]
  /\ Names # {}
  /\ Foreign \subseteq Names \X Exts \X Contents
  /\ MaxRuns \in [Jobs -> Nat]
  /\ MaxJobs \in Nat
  /\ Torn \notin Contents /\ None \notin Contents \union {Torn} \union Jobs \union Reservation

VARIABLES
  staged,     \* item -> contents of its staged file, its XMP aside
  xmp,        \* item -> contents of its staged XMP, or None
  archive,    \* name, extension -> contents, or None
  tmp,        \* the same for <file>.autoingest-sync-tmp
  manifest,   \* device -> event.sync.json
  mtmp,       \* device -> event.sync.json.tmp, or None
  saving,     \* writer -> its read-merge-rename of the manifest
  lock,       \* the job whose lock file is there, or None
  run,        \* job -> its syncJob
  status,     \* job -> status of its queue entry
  runs,       \* job -> syncs begun, up to MaxRuns[job]
  placed,     \* history: <<item, extension, name>> a job has put there
  hazards     \* history: what the code does not protect against, once met

stageVars    == <<staged, xmp, status, runs>>
manifestVars == <<manifest, mtmp, saving>>
folderVars   == <<archive, tmp, placed>>
vars == <<staged, xmp, archive, tmp, manifest, mtmp, saving, lock, run, status, runs,
          placed, hazards>>

Files == Items \X Exts

Manifest == [jobs : SUBSET Jobs, resv : [Files -> Reservation \union {None}]]

\* Writers of the manifest: the append of an import, the reservation of a sync, and
\* the numbers that photographers get as an import brings another one.
Writers == {"append", "reserve", "renumber"} \X Jobs
NoManifest == [jobs |-> {}, resv |-> [f \in Files |-> None]]
NotSaving == [at |-> "idle", doc |-> NoManifest]

Modes == {"single", "pair", "reserved", "duplicate"}

\* at: the step; n: position in files[]; half: the file of the item it is at;
\* mode: which branch; to: its destination; is: contents by the reservation;
\* final: after the guard of the rename.
Run == [at : {"idle", "next", "lookup", "verify", "resolve", "stat", "reserve",
              "reserving", "copy", "guard", "install"},
        n : Nat \ {0}, half : Exts, mode : Modes, hasXmp : BOOLEAN, to : Names,
        final : Names, is : Contents \union {None},
        aborted : BOOLEAN, errors : BOOLEAN, conflict : BOOLEAN, success : BOOLEAN]

\* What the code does not protect against.  Reservations are lost when two saves of
\* the manifest overlap, when it has MaxJobs entries, and when folders get numbers; a
\* sync goes wrong when its lock is lost, when others add files to the folder
\* meanwhile, when a file it has read before is rewritten, or its XMP is.
Losses       == {"overlap", "cut", "renumbered"}
PlaceHazards == Losses \union {"lapse", "foreign", "rewritten"}
Hazards      == PlaceHazards \union {"sidecar"}

TypeOK ==
  /\ staged \in [Items -> Contents]
  /\ xmp \in [Items -> Contents \union {None}]
  /\ archive \in [Names -> [Exts -> Contents \union {Torn, None}]]
  /\ tmp \in [Names -> [Exts -> Contents \union {Torn, None}]]
  /\ manifest \in [Devices -> Manifest]
  /\ mtmp \in [Devices -> Manifest \union {None}]
  /\ saving \in [Writers -> [at : {"idle", "read", "written"}, doc : Manifest]]
  /\ lock \in Jobs \union {None}
  /\ run \in [Jobs -> Run]
  /\ status \in [Jobs -> {"importing", "ready", "syncing", "paused", "synced",
                          "needs-attention", "sync-failed"}]
  /\ runs \in [Jobs -> Nat]
  /\ placed \subseteq Items \X Exts \X Names
  /\ hazards \subseteq Hazards

Rest == [at |-> "idle", n |-> 1, half |-> "raw", mode |-> "single",
         hasXmp |-> FALSE, to |-> CHOOSE n \in Names : TRUE,
         final |-> CHOOSE n \in Names : TRUE, is |-> None, aborted |-> FALSE,
         errors |-> FALSE, conflict |-> FALSE, success |-> FALSE]

Init ==
  /\ staged = RawOf
  /\ xmp = [i \in Items |-> None]
  /\ archive = [n \in Names |-> [e \in Exts |-> None]]
  /\ tmp = [n \in Names |-> [e \in Exts |-> None]]
  /\ manifest = [d \in Devices |-> NoManifest]
  /\ mtmp = [d \in Devices |-> None]
  /\ saving = [w \in Writers |-> NotSaving]
  /\ lock = None
  /\ run = [j \in Jobs |-> Rest]
  /\ status = [j \in Jobs |-> "importing"]
  /\ runs = [j \in Jobs |-> 0]
  /\ placed = {}
  /\ hazards = {}

\* The files of a job.
ItemSet(j) == {ItemsOf[j][k] : k \in DOMAIN ItemsOf[j]}

-----------------------------------------------------------------------------
(* History                                                                 *)

Running(j) == run[j].at # "idle"

\* Two read-merge-renames of one manifest are open at once.
Open == {w \in Writers : saving[w].at # "idle"}
Overlap == \E v, w \in Open : v # w /\ DeviceOf[v[2]] = DeviceOf[w[2]]

History(more) ==
  hazards' = hazards \union more \union (IF Overlap' THEN {"overlap"} ELSE {})

-----------------------------------------------------------------------------
(* The manifest: appendJob and reserveResolvedFiles                        *)

\* Mutant: the reservations of one call replace the list.
MergedReplaces(m, more, files) ==
  [jobs |-> m.jobs \union more,
   resv |-> [f \in Files |-> IF f \in DOMAIN files THEN files[f] ELSE None]]

\* What the writer makes of the manifest it reads.
Merged(m, more, files) ==
  [jobs |-> m.jobs \union more,
   resv |-> [f \in Files |-> IF f \in DOMAIN files THEN files[f] ELSE m.resv[f]]]

\* A manifest without the reservations of some items, and without some jobs.
Without(m, gone, items) ==
  [jobs |-> m.jobs \ gone,
   resv |-> [f \in Files |-> IF f[1] \in items THEN None ELSE m.resv[f]]]

\* A writer has read the manifest of j's device, and is to write doc.
Saves(kind, j, doc) ==
  /\ saving[<<kind, j>>].at = "idle"
  /\ saving' = [saving EXCEPT ![<<kind, j>>] = [at |-> "read", doc |-> doc]]
  /\ UNCHANGED <<stageVars, folderVars, manifest, mtmp, lock, run>>

\* The import of a job is over and its metadata done.  An entry too many cuts an old
\* one (their order is left out), and the reservations in it.
AppendRead(j) ==
  LET m == manifest[DeviceOf[j]] IN
  /\ status[j] = "importing"
  /\ \/ /\ j \in m.jobs \/ Cardinality(m.jobs) < MaxJobs
        /\ Saves("append", j, Merged(m, {j}, <<>>))
        /\ History({})
     \/ /\ j \notin m.jobs /\ Cardinality(m.jobs) >= MaxJobs
        /\ \E old \in m.jobs :
             Saves("append", j, Merged(Without(m, {old}, ItemSet(old)), {j}, <<>>))
        /\ History({"cut"})

\* updateManifestAfterRename, when the folders of the photographers get numbers before
\* j is imported: files[] gets the new paths, resolvedFiles[] keeps the old ones, under
\* which nothing is looked up any more.  The folder in the archive stays the same.
RenumberRead(j) ==
  LET m == manifest[DeviceOf[j]] IN
  /\ status[j] = "importing"
  /\ m.jobs # {}
  /\ Saves("renumber", j, Without(m, {}, Items))
  /\ History({"renumbered"})

ManifestWrite(w) ==
  /\ saving[w].at = "read"
  /\ mtmp' = [mtmp EXCEPT ![DeviceOf[w[2]]] = saving[w].doc]
  /\ saving' = [saving EXCEPT ![w].at = "written"]
  /\ UNCHANGED <<stageVars, folderVars, manifest, lock, run>>
  /\ History({})

\* rename moves whatever the shared .tmp holds now.
ManifestRename(w) ==
  LET d == DeviceOf[w[2]] IN
  /\ saving[w].at = "written"
  /\ mtmp[d] # None
  /\ manifest' = [manifest EXCEPT ![d] = mtmp[d]]
  /\ mtmp' = [mtmp EXCEPT ![d] = None]
  /\ saving' = [saving EXCEPT ![w] = NotSaving]
  /\ run' = IF w[1] = "reserve" THEN [run EXCEPT ![w[2]].at = "copy"] ELSE run
  /\ status' = IF w[1] = "append" THEN [status EXCEPT ![w[2]] = "ready"] ELSE status
  /\ UNCHANGED <<staged, xmp, runs, folderVars, lock>>
  /\ History(IF w[1] = "renumber" THEN {"renumbered"} ELSE {})

-----------------------------------------------------------------------------
(* syncJob                                                                 *)

\* queued and allowed another run
Syncable(j) == status[j] # "importing" /\ ~Running(j) /\ runs[j] < MaxRuns[j]

\* acquireLock succeeds.
Start(j) ==
  /\ Syncable(j)
  /\ lock = None
  /\ lock' = j
  /\ runs' = [runs EXCEPT ![j] = @ + 1]
  /\ status' = [status EXCEPT ![j] = "syncing"]
  /\ run' = [run EXCEPT ![j] = [Rest EXCEPT !.at = "next"]]
  /\ UNCHANGED <<staged, xmp, manifestVars, folderVars>>
  /\ History({})

\* A lock that somebody holds is an error like any other.
Blocked(j) ==
  /\ Syncable(j)
  /\ lock # None
  /\ runs' = [runs EXCEPT ![j] = @ + 1]
  /\ status' = [status EXCEPT ![j] = "sync-failed"]
  /\ UNCHANGED <<staged, xmp, manifestVars, folderVars, lock, run>>
  /\ History({})

Item(j) == ItemsOf[j][run[j].n]
More(j) == run[j].n <= Len(ItemsOf[j]) /\ ~run[j].aborted

\* The next file of the list; a RAW with an XMP beside it is a pair.
NextItem(j) ==
  /\ run[j].at = "next" /\ More(j)
  /\ LET has == xmp[Item(j)] # None
     IN run' = [run EXCEPT ![j].at = "lookup", ![j].half = "raw",
                           ![j].hasXmp = has, ![j].to = NameOf[Item(j)],
                           ![j].mode = IF has THEN "pair" ELSE "single"]
  /\ UNCHANGED <<stageVars, manifestVars, folderVars, lock>>
  /\ History({})

\* releaseLock unlinks the lock file, whosever it is.
Stops(j, verdict) ==
  /\ status' = [status EXCEPT ![j] = verdict]
  /\ run' = [run EXCEPT ![j] = Rest]
  /\ lock' = None
  /\ UNCHANGED <<staged, xmp, runs, manifestVars, folderVars>>
  /\ History({})

\* Mutant: a sidecar conflict does not count.
VerdictIgnoresConflict(r) ==
  IF r.errors \/ r.aborted
  THEN IF r.success THEN "needs-attention" ELSE "sync-failed"
  ELSE "synced"

Verdict(r) ==
  IF r.errors \/ r.aborted
  THEN IF r.success THEN "needs-attention" ELSE "sync-failed"
  ELSE IF r.conflict THEN "needs-attention" ELSE "synced"

EndRun(j) == run[j].at = "next" /\ ~More(j) /\ Stops(j, Verdict(run[j]))

\* The pause signal is looked at between files and once after the last.
PauseRun(j) == run[j].at = "next" /\ Stops(j, "paused")

\* An error outside of every try ends the run: the staging folder or
\* the manifest cannot be read, a reserved file cannot be compared, a pair cannot
\* be reserved.
Throws(j) ==
  /\ \/ run[j].at = "next" /\ More(j)
     \/ run[j].at \in {"lookup", "verify"}
     \/ run[j].at = "reserve" /\ run[j].mode = "pair"
  /\ Stops(j, "sync-failed")

-----------------------------------------------------------------------------
(* One file                                                                *)

\* The run when the file it is at is settled.  The XMP of a pair comes next:
\* where its RAW went, where it was reserved, or, of a duplicate RAW, beside it.
XmpAt == [pair |-> "copy", reserved |-> "lookup", duplicate |-> "stat"]
After(j, ok) ==
  LET r == run[j] IN
  IF r.half = "raw" /\ r.hasXmp /\ (ok \/ r.mode = "duplicate")
  THEN [r EXCEPT !.half = "xmp", !.at = XmpAt[r.mode],
                 !.to = IF r.mode = "duplicate" THEN NameOf[Item(j)] ELSE @]
  ELSE [r EXCEPT !.at = "next", !.n = @ + 1]

Succeeds(j) == [After(j, TRUE) EXCEPT !.success = TRUE]
FailsAt(j)  == [After(j, FALSE) EXCEPT !.errors = TRUE]

\* A step of the run that only reads.
Reads(j, r) ==
  /\ run' = [run EXCEPT ![j] = r]
  /\ UNCHANGED <<stageVars, manifestVars, folderVars, lock>>
  /\ History({})

Source(j) == IF run[j].half = "raw" THEN staged[Item(j)] ELSE xmp[Item(j)]
There(j)  == archive[run[j].to][run[j].half]

\* Mutant: the first name, free or not.
FirstAny(names, es) == {names[k] : k \in {1} \intersect DOMAIN names}

\* The first of names whose files es are all free.  Files in the folder stay, so
\* that probing one name after the other finds what one look does.
FirstFree(names, es) ==
  LET free == {k \in DOMAIN names : \A e \in es : archive[names[k]][e] = None}
  IN {names[k] : k \in {m \in free : \A l \in free : m <= l}}

\* getResolvedFile, the first thing done for a single file, a RAW of a pair, and
\* the XMP of a RAW that had a reservation.
Lookup(j) ==
  LET r  == run[j]
      rs == manifest[DeviceOf[j]].resv[<<Item(j), r.half>>]
  IN /\ r.at = "lookup"
     /\ Reads(j,
          IF r.mode = "single" /\ r.aborted THEN After(j, FALSE)
          ELSE IF rs # None
          THEN [r EXCEPT !.at = "verify", !.to = rs.to, !.is = rs.is,
                         !.mode = IF @ = "pair" THEN "reserved" ELSE @]
          ELSE [r EXCEPT !.at = IF r.mode = "pair" THEN "resolve" ELSE "stat"])

\* _verifyReservation: source and destination against the reservation.
Verify(j) ==
  LET r == run[j] IN
  /\ r.at = "verify"
  /\ Reads(j, IF Source(j) # r.is THEN FailsAt(j)
              ELSE IF There(j) = None THEN [r EXCEPT !.at = "copy"]
              ELSE IF There(j) # r.is THEN FailsAt(j)
              ELSE Succeeds(j))

\* Mutant: only the RAW decides on the name.
ResolveRaw(j) ==
  LET r == run[j]
      name == NameOf[Item(j)]
  IN /\ r.at = "resolve"
     /\ IF archive[name]["raw"] = staged[Item(j)]
        THEN Reads(j, [r EXCEPT !.at = "stat", !.mode = "duplicate"])
        ELSE \E m \in FirstFree(<<name>> \o SuffixOf[name], {"raw"}) :
               Reads(j, [r EXCEPT !.to = m,
                           !.at = IF m = name THEN "copy" ELSE "reserve"])

\* _resolvePairDestination: one name that is free for both files.
Resolve(j) ==
  LET r == run[j]
      name == NameOf[Item(j)]
  IN /\ r.at = "resolve"
     /\ IF archive[name]["raw"] = staged[Item(j)]
        THEN Reads(j, [r EXCEPT !.at = "stat", !.mode = "duplicate"])
        ELSE \E m \in FirstFree(<<name>> \o SuffixOf[name], Exts) :
               Reads(j, [r EXCEPT !.to = m,
                           !.at = IF m = name THEN "copy" ELSE "reserve"])

\* The rules of _syncOneFile: absent, the same, a sidecar, or another file.
Stat(j) ==
  LET r == run[j] IN
  /\ r.at = "stat"
  /\ \/ /\ r.aborted /\ r.mode # "single"
        /\ Reads(j, After(j, FALSE))
     \/ /\ ~r.aborted \/ r.mode = "single"
        /\ \/ There(j) = None /\ Reads(j, [r EXCEPT !.at = "copy"])
           \/ There(j) = Source(j) /\ Reads(j, Succeeds(j))
           \/ /\ There(j) \notin {None, Source(j)} /\ r.half = "xmp"
              /\ Reads(j, [After(j, TRUE) EXCEPT !.conflict = TRUE])
           \/ /\ There(j) \notin {None, Source(j)} /\ r.half = "raw"
              /\ \E m \in FirstFree(SuffixOf[r.to], {"raw"}) :
                   Reads(j, [r EXCEPT !.to = m,
                       !.at = IF r.mode = "single" THEN "reserve" ELSE "copy"])

\* Mutant: a renamed destination is not reserved.
ReserveNothing(j) ==
  /\ run[j].at = "reserve"
  /\ Reads(j, [run[j] EXCEPT !.at = "copy"])

\* reserveResolvedFiles for the file, or for both of a pair; nothing is
\* reserved when the manifest does not list the job, and the copy goes on.
Reserve(j) ==
  LET r == run[j]
      m == manifest[DeviceOf[j]]
      es == IF r.mode = "pair" THEN Exts ELSE {r.half}
      new == [f \in {Item(j)} \X es |->
                [to |-> r.to,
                 is |-> IF f[2] = "raw" THEN staged[Item(j)] ELSE xmp[Item(j)]]]
  IN /\ r.at = "reserve"
     /\ IF j \in m.jobs
        THEN /\ saving' = [saving EXCEPT ![<<"reserve", j>>] =
                  [at |-> "read", doc |-> Merged(m, {}, new)]]
             /\ run' = [run EXCEPT ![j].at = "reserving"]
        ELSE run' = [run EXCEPT ![j].at = "copy"] /\ UNCHANGED saving
     /\ UNCHANGED <<stageVars, folderVars, manifest, mtmp, lock>>
     /\ History({})

\* An append or a renumbering that fails is reported; the reservation of a single file fails it,
\* that of a pair ends the run.
SaveFails(w) ==
  /\ saving[w].at # "idle"
  /\ saving' = [saving EXCEPT ![w] = NotSaving]
  /\ LET j == w[2] IN
     IF w[1] # "reserve" THEN UNCHANGED <<run, lock, status>>
     ELSE IF run[j].mode = "pair"
     THEN /\ run' = [run EXCEPT ![j] = Rest]
          /\ lock' = None
          /\ status' = [status EXCEPT ![j] = "sync-failed"]
     ELSE run' = [run EXCEPT ![j] = FailsAt(j)] /\ UNCHANGED <<lock, status>>
  /\ UNCHANGED <<staged, xmp, runs, folderVars, manifest, mtmp>>
  /\ History({})

\* Mutant: a temporary file that is there already is taken for the copy.
CopyUnlessThere(j) ==
  LET r == run[j] IN
  /\ r.at = "copy"
  /\ tmp' = [tmp EXCEPT ![r.to][r.half] = IF @ # None THEN @ ELSE Source(j)]
  /\ run' = [run EXCEPT ![j].at = "guard"]
  /\ UNCHANGED <<stageVars, manifestVars, archive, placed, lock>>
  /\ History({})

\* _copyFile: the copy to <file>.autoingest-sync-tmp and its size.
Copy(j) ==
  LET r == run[j] IN
  /\ r.at = "copy"
  /\ tmp' = [tmp EXCEPT ![r.to][r.half] = Source(j)]
  /\ run' = [run EXCEPT ![j].at = "guard"]
  /\ UNCHANGED <<stageVars, manifestVars, archive, placed, lock>>
  /\ History({})

\* The no-overwrite guard before the rename.
Guard(j) ==
  LET r == run[j] IN
  /\ r.at = "guard"
  /\ \E m \in FirstFree(<<r.to>> \o SuffixOf[r.to], {r.half}) :
       Reads(j, [r EXCEPT !.at = "install", !.final = m])

\* The rename: of whatever is under the temporary name, over whatever is there.
Install(j) ==
  LET r == run[j] IN
  /\ r.at = "install"
  /\ tmp[r.to][r.half] # None
  /\ archive' = [archive EXCEPT ![r.final][r.half] = tmp[r.to][r.half]]
  /\ tmp' = [tmp EXCEPT ![r.to][r.half] = None]
  /\ placed' = placed \union {<<Item(j), r.half, r.final>>}
  /\ run' = [run EXCEPT ![j] =
               IF r.half = "raw" THEN Succeeds(j) ELSE After(j, TRUE)]
  /\ UNCHANGED <<stageVars, manifestVars, lock>>
  /\ History({})

\* An I/O error while the file is examined or copied, or another size of the copy.
FileFails(j) ==
  LET r == run[j] IN
  /\ \/ r.at \in {"resolve", "stat", "copy", "guard", "install"}
     \/ r.at = "reserve" /\ r.mode = "single"
  /\ \/ UNCHANGED tmp
     \/ r.at = "copy" /\ \E c \in {Torn, None} : tmp' = [tmp EXCEPT ![r.to][r.half] = c]
  /\ run' = [run EXCEPT ![j] = FailsAt(j)]
  /\ UNCHANGED <<stageVars, manifestVars, archive, placed, lock>>
  /\ History({})

-----------------------------------------------------------------------------
(* The environment                                                         *)

\* The lease runs out, or somebody clears the lock, while the sync goes on.
LosesLock(j) ==
  /\ lock = j /\ Running(j)
  /\ lock' = None
  /\ UNCHANGED <<stageVars, manifestVars, folderVars, run>>
  /\ History({"lapse"})

\* The heartbeat: the lock is gone, or could not be renewed.
HeartbeatFails(j) ==
  /\ Running(j) /\ ~run[j].aborted
  /\ run' = [run EXCEPT ![j].aborted = TRUE]
  /\ UNCHANGED <<stageVars, manifestVars, folderVars, lock>>
  /\ History({})

\* Another client of the archive adds a file: between two syncs, or beside one
\* when it locks the folder under another name.
AddForeign(n, e, c) ==
  /\ archive[n][e] = None
  /\ archive' = [archive EXCEPT ![n][e] = c]
  /\ UNCHANGED <<stageVars, manifestVars, tmp, placed, lock, run>>
  /\ History(IF \E j \in Jobs : Running(j) THEN {"foreign"} ELSE {})

\* A metadata batch writes the XMP of a staged file.
WriteSidecar(j, i, v) ==
  /\ i \in ItemSet(j)
  /\ xmp[i] = IF v = 1 THEN None ELSE XmpOf[i][v - 1]
  /\ xmp' = [xmp EXCEPT ![i] = XmpOf[i][v]]
  /\ UNCHANGED <<staged, manifestVars, folderVars, lock, run, status, runs>>
  /\ History(IF Running(j) THEN {"sidecar"} ELSE {})

\* A metadata batch writes into a staged JPG or video in place.  Before the job's first
\* sync that is how the file gets the contents it starts with here.
RewriteImage(j, i, c) ==
  /\ i \in ItemSet(j)
  /\ runs[j] > 0
  /\ staged[i] # c
  /\ staged' = [staged EXCEPT ![i] = c]
  /\ UNCHANGED <<xmp, manifestVars, folderVars, lock, run, status, runs>>
  /\ History({"rewritten"})

\* The application of d dies.  Its lock runs out; its files stay.
Crash(d) ==
  LET here == {j \in Jobs : DeviceOf[j] = d}
      torn == {j \in here : run[j].at = "copy"}
  IN /\ \/ UNCHANGED tmp
        \/ \E j \in torn : tmp' = [tmp EXCEPT ![run[j].to][run[j].half] = Torn]
     /\ run' = [j \in Jobs |-> IF j \in here THEN Rest ELSE run[j]]
     /\ saving' = [w \in Writers |-> IF w[2] \in here
                     THEN NotSaving ELSE saving[w]]
     /\ lock' = IF lock \in here THEN None ELSE lock
     /\ UNCHANGED <<stageVars, archive, placed, manifest, mtmp>>
     /\ History({})

-----------------------------------------------------------------------------

JobStep(j) ==
  \/ AppendRead(j) \/ RenumberRead(j) \/ Start(j) \/ Blocked(j) \/ NextItem(j) \/ EndRun(j)
  \/ PauseRun(j) \/ Throws(j)
  \/ Lookup(j) \/ Verify(j) \/ Resolve(j) \/ Stat(j) \/ Reserve(j)
  \/ Copy(j) \/ Guard(j) \/ Install(j) \/ FileFails(j)
  \/ LosesLock(j) \/ HeartbeatFails(j)
  \/ \E i \in Items : \E v \in DOMAIN XmpOf[i] : WriteSidecar(j, i, v)
  \/ \E i \in Items : \E c \in EditsOf[i] : RewriteImage(j, i, c)

Next ==
  \/ \E j \in Jobs : JobStep(j)
  \/ \E w \in Writers : ManifestWrite(w) \/ ManifestRename(w) \/ SaveFails(w)
  \/ \E f \in Foreign : AddForeign(f[1], f[2], f[3])
  \/ \E d \in Devices : Crash(d)

Spec == Init /\ [][Next]_vars

-----------------------------------------------------------------------------
(* The inductive invariant                                                 *)

Short(of) == hazards \intersect of = {}

\* A run past the top of its loop is at a file of its list, has an XMP to do only
\* in a branch that does pairs, and is reserving while its reservation is saved.
AtItem ==
  \A j \in Jobs :
    /\ run[j].at \notin {"idle", "next"} => run[j].n \in DOMAIN ItemsOf[j]
    /\ run[j].hasXmp => run[j].mode # "single"
    /\ run[j].at = "reserving" <=> saving[<<"reserve", j>>].at # "idle"

\* The sync that has the lock is the only one, what it is about to rename is a
\* whole file, and no part of a file is in the folder.
Alone ==
  /\ \A j \in Jobs : Running(j) => lock = j
  /\ \A j \in Jobs : run[j].at \in {"guard", "install"} =>
       tmp[run[j].to][run[j].half] # Torn
  /\ \A n \in Names, e \in Exts : archive[n][e] # Torn

\* The name it renames to is still free.
Free ==
  \A j \in Jobs : run[j].at = "install" =>
    archive[run[j].final][run[j].half] = None

IInv == /\ TypeOK /\ AtItem
        /\ Short({"lapse"}) => Alone
        /\ Short({"lapse", "foreign"}) => Free

\* What a writer of the manifest is about to put there.
Doc(w) == IF saving[w].at = "read" THEN saving[w].doc ELSE mtmp[DeviceOf[w[2]]]

\* The reservation that job j finds for a file.
Resv(j, i, e) == manifest[DeviceOf[j]].resv[<<i, e>>]

\* Both reservations of a pair name one place.
Booked(m) ==
  \A i \in Items : m.resv[<<i, "xmp">>] # None =>
    /\ m.resv[<<i, "raw">>] # None
    /\ m.resv[<<i, "raw">>].to = m.resv[<<i, "xmp">>].to

ItemAt(j, r) == ItemsOf[j][r.n]

\* Which half and branch a run can be in at which step.
Form(j, r) ==
  /\ r.at \notin {"idle", "next"} =>
       /\ r.hasXmp <=> r.mode # "single"
       /\ r.half = "xmp" => r.hasXmp
       /\ r.half = "xmp" /\ r.mode = "pair" => r.at \in {"copy", "guard", "install"}
  /\ r.at = "lookup" => \/ r.half = "raw" /\ r.mode \in {"single", "pair"}
                        \/ r.half = "xmp" /\ r.mode = "reserved"
  /\ r.at = "verify" => r.mode \in {"single", "reserved"}
  /\ r.at = "stat" => r.mode # "pair" /\ (r.half = "raw" => r.mode # "reserved")
  /\ r.at = "resolve" => r.half = "raw" /\ r.mode = "pair"
  /\ r.at \in {"reserve", "reserving"} => r.half = "raw" /\ r.mode \in {"single", "pair"}
  /\ r.at = "resolve" \/ (r.at = "lookup" /\ r.half = "raw") =>
       r.to = NameOf[ItemAt(j, r)]

\* A card is "syncing" while its job is, and "importing" until its entry is written.
Forms ==
  \A j \in Jobs :
    /\ Form(j, run[j])
    /\ Running(j) => status[j] = "syncing"
    /\ saving[<<"append", j>>].at # "idle" => status[j] = "importing"

\* What a writer adds to the manifest it read: its job, or its reservations, of a
\* file that had none.
Adds(w) ==
  LET d == DeviceOf[w[2]] IN
  /\ Doc(w) \in Manifest /\ Booked(Doc(w))
  /\ manifest[d].jobs \subseteq Doc(w).jobs
  /\ w[1] = "append" => w[2] \in Doc(w).jobs
  /\ \A f \in Files : Doc(w).resv[f] # manifest[d].resv[f] =>
       w[1] = "reserve" /\ f[1] = Item(w[2]) /\ manifest[d].resv[f] = None

\* The branches of a RAW that has no reservation, and what it is about to reserve.
Bare(r) == \/ r.at \in {"resolve", "reserve", "reserving"}
           \/ r.at \notin {"idle", "next"} /\ r.mode = "duplicate"
           \/ r.at = "stat" /\ r.mode = "single"
Pending(j, r) ==
  /\ Bare(r) => Resv(j, ItemAt(j, r), "raw") = None
  /\ r.at = "reserving" =>
       LET rs == Doc(<<"reserve", j>>).resv[<<ItemAt(j, r), "raw">>]
       IN rs # None /\ rs.to = r.to

Books ==
  /\ ~Overlap
  /\ \A d \in Devices : Booked(manifest[d])
  /\ \A j \in Jobs : status[j] # "importing" => j \in manifest[DeviceOf[j]].jobs
  /\ \A w \in Writers : saving[w].at # "idle" => Adds(w)
  /\ \A j \in Jobs : Pending(j, run[j])

BookInv == Forms /\ (Short(Losses) => Books)

\* The one place of an item: its reservation, or its own name.
Dest(j, i) == IF Resv(j, i, "raw") = None THEN NameOf[i] ELSE Resv(j, i, "raw").to

Owns(j, i) == \E k \in DOMAIN ItemsOf[j] : ItemsOf[j][k] = i

\* A run goes to the place of its item, finds it free and beside the right RAW, and
\* reserves one only for an item of which nothing has been put anywhere.
Aims(j, r) ==
  LET i == ItemAt(j, r)
      n == r.to
  IN /\ \/ r.at \in {"verify", "stat", "copy", "guard", "install"}
        \/ r.at = "lookup" /\ r.half = "xmp"
        => n = Dest(j, i)
     /\ r.at \notin {"idle", "next"} /\ (r.half = "xmp" \/ r.mode = "duplicate") =>
          archive[Dest(j, i)]["raw"] = staged[i]
     /\ r.at \in {"reserve", "reserving", "copy", "guard", "install"} =>
          /\ archive[n][r.half] = None
          /\ r.half = "raw" /\ r.mode = "pair" => archive[n]["xmp"] = None
     /\ r.at \in {"reserve", "reserving"} => \A p \in placed : p[1] # i
     /\ r.at \in {"guard", "install"} /\ r.half = "raw" => tmp[n]["raw"] = staged[i]
     /\ r.at = "install" => r.final = n

\* What has been put there is in the place of its item, with the RAW.
InPlace(p) ==
  \E j \in Jobs : /\ Owns(j, p[1])
                  /\ p[3] = Dest(j, p[1])
                  /\ archive[p[3]]["raw"] = staged[p[1]]

PlaceInv ==
  Short(PlaceHazards) =>
    /\ \A j \in Jobs : Aims(j, run[j])
    /\ \A p \in placed : InPlace(p)

\* A file with its XMP is in the archive.
Archived(i) ==
  \E n \in Names : /\ archive[n]["raw"] = staged[i]
                   /\ xmp[i] # None => archive[n]["xmp"] = xmp[i]

\* A run that reported nothing has every file before the one it is at in the archive.
Done(j, r) ==
  /\ r.at \notin {"idle", "next"} =>
       /\ r.hasXmp <=> xmp[ItemAt(j, r)] # None
       /\ r.at \in {"guard", "install"} /\ r.half = "xmp" =>
            tmp[r.to]["xmp"] = xmp[ItemAt(j, r)]
  /\ r.at # "idle" /\ ~r.errors /\ ~r.conflict /\ ~r.aborted =>
       \A k \in DOMAIN ItemsOf[j] : k < r.n => Archived(ItemsOf[j][k])

DoneInv ==
  Short(Hazards) => \A j \in Jobs : Done(j, run[j])

\* What the properties rest on.
KeepInv == IInv /\ BookInv /\ PlaceInv /\ DoneInv

-----------------------------------------------------------------------------
(* Properties                                                              *)

\* "No-overwrite is enforced at the rename step" (archiveSyncService.js): no file
\* of the archive folder is replaced or removed by a sync, for all its retries and
\* crashes, as long as it keeps its lock and nobody else is in the folder.
NothingOverwritten ==
  [][Short({"lapse", "foreign"})' =>
       \A n \in Names, e \in Exts :
         archive[n][e] # None => archive'[n][e] = archive[n][e]]_vars

\* A sync that crashed or failed half way through a copy leaves no part of a file
\* in the archive, whatever it finds under the temporary name when it is retried.
NothingTorn ==
  Short({"lapse"}) => \A n \in Names, e \in Exts : archive[n][e] # Torn

\* RETRY INVARIANT (archiveSyncService.js): a job puts a file under one name,
\* however often it is retried and whatever it was interrupted by, until its
\* reservation is lost or metadata is written into a JPG that was synced before.
OneNamePerFile ==
  Short(PlaceHazards) =>
    \A p, q \in placed : p[1] = q[1] /\ p[2] = q[2] => p = q

\* PAIR INVARIANT (archiveSyncService.js): an XMP stands beside its own RAW, never
\* beside another file that has the RAW's name.  What loses reservations can do so
\* between the look for that of its RAW and the look for that of the XMP.
XmpBesideItsRaw ==
  Short(PlaceHazards) =>
    \A p \in placed : p[2] = "xmp" => archive[p[3]]["raw"] = staged[p[1]]

\* "synced" says that each file is in the archive as it is staged now, and its XMP
\* beside it, unless metadata was written into either after it was read.
SyncedIsArchived ==
  [][Short(Hazards)' =>
       \A j \in Jobs : Running(j) /\ ~Running(j)' /\ status'[j] = "synced" =>
         \A k \in DOMAIN ItemsOf[j] : \E n \in Names :
           LET i == ItemsOf[j][k] IN
           /\ archive[n]["raw"] = staged[i]
           /\ xmp[i] # None => archive[n]["xmp"] = xmp[i]]_vars

\* A reservation and a job entry that reached the manifest stay, until two writers
\* of it overlap, an entry too many is appended, or folders are renamed.
ManifestKept ==
  [][Short(Losses)' =>
       \A d \in Devices :
         /\ manifest[d].jobs \subseteq manifest'[d].jobs
         /\ \A f \in Files : manifest[d].resv[f] # None =>
              manifest'[d].resv[f] = manifest[d].resv[f]]_vars

=============================================================================
