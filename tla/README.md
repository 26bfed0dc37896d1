# TLA+ specifications of AutoIngest

AutoIngest is an Electron application. It copies photo cards into a staging
folder or directly into a shared NAS archive, writes metadata into the copied
files, and syncs staged events to the archive. Several devices work on one
archive. A small realtime server relays who does what and hands out a sync slot.

Nothing below the applications makes "read, decide, write" atomic: the archive is
a network file system, each application is a Node process whose handlers
interleave at every `await`, and either may stop at any time. The specifications
here are about that. They state what the code promises in spite of it, and where
the promise ends.

Contents: [inventory](#inventory), [modules](#modules), [runs](#runs),
[claims that do not hold](#claims-that-do-not-hold), [proofs](#proofs),
[not modelled](#not-modelled), [plan](#plan).

## Inventory

### Components that decide about shared state

**Archive lock** (`services/archiveLockService.js`). *State*: one JSON file per
(collection, event, photographer) on the NAS, with owner, heartbeat and expiry,
and one `.tmp` name that all writers of it share. *Operations*: acquire, renew
(heartbeat timer), release, clear (own device, forced or not), release of a stale
lock. *Used by* the archive sync, the Direct Archive import with its metadata
phase, and the event rename. *Hard*: read and write are apart, leases expire by
the clock of whoever looks, timers run beside the copy, crashes leave files.
*Correct when*: one writer per folder, a release or a clear removes only what it
may, no lock outlives its session, and a heartbeat does not abort a session that
has its lock.

**event.json store** (`main/eventJsonStore.js`) and its writers: import
transactions, the end of metadata batches, the scan of the archive, the event
editor, the metadata sync, photographer sequences. *State*: one document per
event and a promise chain per path and process. *Operations*: `updateEventJsonAtomic`
with a mutator; the metadata sync and the photographer sequences read and write without
it. *Hard*: several processes
and devices, rollback after minutes of copying, failing steps within the chain.
*Correct when*: no finished write is lost, every version of the document is
consistent, the chain does not jam.

**Sync queue** (`services/syncQueueService.js`, handlers in `main/main.js`).
*State*: one JSON file of jobs, rebuilt from the staging manifests, the set
`_syncingJobIds` and the pause signals in memory. *Operations*: refresh, update of
a job, sync one job, sync all ready jobs, pause. *Hard*: every handler awaits
between test and set; the whole file is loaded and saved for one field. *Correct
when*: a job is synced by one handler at a time, the guard names exactly the jobs
that are being synced, a pause reaches the running sync, a verdict stays.

**Sync slot** (`realtime-server/server.js`, `services/realtimeOperationsService.js`,
`renderer/renderer.js`). *State*: holder and line on the server, in memory only;
one pending request per device; jobs that wait in the renderer. *Operations*:
request, grant, queue, release, heartbeat, expiry, disconnect, hello, restart.
*Hard*: two message channels per connection, calls that time out or are cancelled
while their answer is on the way, slots kept per device while jobs ask for them.
*Correct when*: one holder, no free slot while someone queues, a granted sync has
the slot, whoever waits is admitted.

**Metadata queue** (`main/exifService.js`, `metadataQueueStore.js`,
`metadataStateService.js`, `metadataQueueRecovery.js`). *State*: worker pool and
batches in memory; per batch a manifest and a journal on the device;
`metadataState` in event.json. *Operations*: apply, retry, worker jobs, journal,
save the state, compact, resume after a launch. *Hard*: crash between journal,
save and compaction; batches of one event that complete together; a resume beside
new batches. *Correct when*: no outcome leaves the queue before it is saved,
nothing stays interrupted for ever, every batch is compacted in the end.

**Archive sync copy** (`services/archiveSyncService.js`, `localSyncManifest.js`).
*State*: staged files and their XMPs, files of an archive folder and their temporary
names, the staging manifest with jobs and reserved destinations. *Operations*: append
a job, `syncJob` (look up and verify a reservation, resolve a name for a pair, compare,
rename on conflict, reserve, copy), pause, abort. *Hard*: name and file are decided on
in one step and used several awaits later; retries after a crash must neither
duplicate nor overwrite; the manifest is read, merged and renamed by several writers.
*Correct when*: nothing in the archive is overwritten or torn, a file gets one
name however often it is retried, an XMP stands beside its own RAW, "synced" means that
the files are there, and what reached the manifest stays.

**Import copy engine** (`main/fileManager.js`) under the import transaction of
`main.js`. *State*: the destination folder, `isPaused`, `isAborted` and the resolvers
of the module, the queue and workers of each copy, `importRunning` of the renderer.
*Operations*: copy jobs with workers, retries and `unlink`, Quick Import with an index
of the folder, pause, resume, abort, a card that is pulled, commit or rollback. *Hard*:
names are probed before they are created, by parallel workers and by two operations;
the flags are shared by both. *Correct when*: no whole file is overwritten or removed, an
import is committed only when each of its files is accounted for, results name the
file they speak of, every import ends.

**Photographer sequence** (`services/photographerSequenceService.js`, its handler in
`main.js`). *State*: folder names in each scope of an event; the intent and the
sequences in event.json, the jobs of the staging manifest, which all name these folders.
*Operations*: a two-phase rename per scope with rollback, then the three records.
*Hard*: a rename that fails or a crash half way; scopes that fail after others
succeeded; imports that resolve a folder while it is renamed. *Correct when*: no folder
keeps a temporary name, the records follow the folders, a photographer has one folder.

**Transfer import** (`services/transferImportService.js`). *State*: the drive, the archive,
a checkpoint and outcome manifests in the archive, `_state` and the pause flags of the
module. *Operations*: scan, plain and Update Import, resume from a checkpoint, pause and
resume. *Hard*: two awaits between the check of `running` and the claim; what a resumed run
takes over from the checkpoint and what it does not; folders and files that could not be
read, by a scan, by the copy or by the look for a free name. *Correct when*: a run that
reports no error has brought everything, nothing in the archive is overwritten, every run
ends.

### How they interact

    renderer --IPC--> main.js --slot--> realtime server        (SyncSlot)
                        |                 (other devices likewise)
                        +-- sync queue handlers                 (SyncQueue)
                        |      +-- archive lock                 (ArchiveLock)
                        |      +-- copy into the folder         (ArchiveCopy)
                        +-- import transaction
                        |      +-- copy engine                  (ImportCopy)
                        |      +-- archive lock                 (ArchiveLock)
                        |      +-- event.json                   (EventJson)
                        |      +-- metadata batch               (MetadataQueue)
                        |             +-- event.json            (EventJson)
                        +-- scan, editor, metadata sync --> event.json
                        +-- photographer sequence               (SequenceRename)
                        |      +-- folders, event.json, staging manifest
                        +-- transfer import --> archive         (Transfer)

The slot asks a device to wait before it syncs, the guard keeps its handlers apart, the lock
keeps devices apart in one folder. Only the lock protects files: a sync that could not reach
the server goes on without a slot, and a Direct Archive import asks for none. What the lock
promises is what the copy relies on: `ArchiveLock` shows one writer per folder short of its
hazards, `ArchiveCopy` takes that and shows what becomes of the files, and what becomes of
them without it. The transfer import takes no lock at all, and a sequence rename asks only
whether a sync of the event runs: `Transfer` has another writer in its archive,
`SequenceRename` has imports beside it.

## Modules

Every module has the name of its component, `MC...` instantiates it for TLC, and
`...Proofs` holds its theorems (`FolderProofs` those of `ArchiveLock` and of
`SequenceRename`, the two components that guard the photographer folders of an event; it
declares nothing of its own that they share). Actions keep the names of the code's functions
where they are one function, and name a step of it where the function awaits.

A variable `hazards` in each module is history only: no guard reads it, except
to let the server restart once. It records the conditions the code does not
protect against, once they were met, and the properties say what holds short of
which of them. That is how the models stay honest about code that is right "almost
always": each exception is a named, reachable condition. Each was tried: with the
exception left out of the property TLC finds a violation, given an instance large
enough (*lapse* alone needs a skew of 2, *late* alone a TTL of 5, and *shared*
costs a waiter its place only after an expiry, so no behaviour of `OneHazard` shows it).

### ArchiveLock

One lock file. A *session* is one client from `acquireLock` to `releaseLock`
(`pc`), with the record it prepared (`rec`), its heartbeat call in flight (`beat`)
and the verdict that aborts it (`aborted`). A *tool* is a device's clear or stale
release. Each operation is split at its awaits: read, write `.tmp`, rename; read,
unlink. `clock` is true time, `Skew` a device's offset from it. `JobOf` lets a
retried sync carry the job id of the first one, as the code does, so that a renewal
may take the other's lock for its own.

Hazards: *overlap* (two check-then-act windows open together), *lapse* (some device
sees the lock of a working session expired), *late* (a heartbeat is older than the
threshold of a clear), *force* (a forced clear of a lock in use).

### EventJson, EventJsonDoc, EventJsonRegister

`EventJsonDoc` holds the document (status, audit entries, last run, metadata state,
index) and what each mutator makes of it (`Merge`). A commit that copied nothing, or whose
audit entries could not be built, sets "complete" without an entry (`commitBare`;
`main.js:1208-1216`, `:1261`). `EventJson` has the store (chain
per device, read, write `.tmp`, rename, each of which may fail), its clients and a
crash of a device. `EventJsonRegister` is what the store promises: a document to
which calls are applied in one step. `EventJson` implements it with
`doc <- file` as long as there is one chain, i.e. one application and only chained
writers. MetadataQueue relies on that when it takes a save as one step.

Hazards: *overlap* (two windows from read to rename open together: only with several
devices or an unchained writer), and three kinds of mutator that undo something:
*rollback*, *reset* (scan), *edit*. The unchained writers here are the metadata sync's;
`SequenceRename` has the other one, which writes sequences.

### SyncQueue

A *call* is one handler invocation: one job, a batch, or a refresh. `queue` is the
file, `tmp` its shared temporary, `guard` is `_syncingJobIds`, `signal` the pause
signals. Loads and saves are steps of their own; a load may fail and then counts
as an empty queue, as in the code. What `syncJob` does to files is not here, only
the statuses it returns.

`entry` is what the staging manifests say of each job (`_statusFromManifest`): ready, in
need of attention, blocked, or nothing. An import adds a job's entry, updates it
(`localSyncManifest.js:109-113`), or has one cut off the end of a full manifest. An update
makes the entry `newer` than the last sync, and the next refresh opens a synced job again
(`jobNewerThanSync`, `syncQueueService.js:144-150`); a refresh that cannot read a manifest
sees none of its entries. The application's own imports append each import id once, so that an
update comes only from a call made twice; the model has it all the same.

Hazards: *race* (two calls between has-check and add for one job), *overlap* (two
loads and saves overlap), *resync* (a batch syncs a job again), *leak* (the mark of
a job fails, which then stays guarded), *unread* (a failed load). `synced` is history too:
the jobs whose "synced" was saved, without those whose entry was updated or cut since, which
the code means to open again. `SyncedStays` speaks of it.

### SyncSlot

The server's holder set `slots` and `line`, its `open` sockets; per device the
request it waits for (`pending`), per call where it is; two queues per socket, `up`
and `down`. A device uses one socket after the other, either end may notice the end
of one first, and what was on the way is lost. Messages in one socket keep their
order.

Heartbeats are not messages. A connection that lives delivers one at least every
70 s (15 s between beats, 55 s until the transport drops a silent peer) and the
server waits 90 s. So a slot goes stale exactly when its device does not beat on a
living connection, which is what `Beating` says. The age of an entry in the line
is a flag, old or not, set in the order of the line.

Hazards: *mistaken* (an answer is taken for another request's), *shared* (a call
gives back the slot of another call of its device), *displaced* (a second request
of a device takes the place of its first), *unqueued* (an entry was dropped for its
age), *expired*, *drop* (a connection), *restart*, *leak* (a heartbeat timer left
running).

### MetadataQueue

The batches of one event. In memory: `status` of each file, the pool's `queue`, and
where each job is (`at`). On the device: `manifest`, `rank` (its `queuedAt`), and the
last line of each file in the `journal`. In event.json: `recorded`, from which `State`
is derived. A *handler* is one `_persistMetadataStateAndCompact`, handler 0 that of
the resume: it lists the manifests, reads manifest and journal of each, saves, and
compacts with two renames. `known` is history: the outcomes that reached event.json.

`State` has the six of the nine states that a manifest on disk can lead to: a line
that is not terminal counts as interrupted before the states "in progress" and
"queued" are looked at, and "not attempted" needs none of the counts to be positive.

Hazards: *early* (the batch was reported complete before its last file was
journaled: the counters rise before an `await` and are compared after it), *midway*
(a retry before the batch was compacted), *overlap* (the resume found a batch of the
running session), *torn* (a manifest was read, its journal was compacted before it
was), *overtaken* (an older scan was saved over a newer one), *unjournaled*,
*unlisted*, *unsaved* (an append, a manifest, a save failed), *unread* (the directory, a
manifest or a journal could not be read, which `readManifest`, `readJournal` and
`listActiveBatchIds` take for none), *stuck* (a manifest could not be moved; its journal is
moved all the same), *unresumed* (the resume passed over what it could not read, or an
append of its own threw and ended it; its other workers go on with their files).
`NothingLost` holds through *stuck*: what is moved half way was saved before.

Bounded away: a batch is retried once; a file is "complete" unless it is in
`Troubled`.

### ArchiveCopy

One photographer folder. A *job* is an import's entry of the manifest with its list
of items; an *item* is a RAW with the XMP the metadata batch may write beside it,
or a file without one. `run[j]` is `syncJob` of the job: at which item and half of the
pair it is, in which branch (`mode`: single file, pair, pair with a reservation,
duplicate), the name it decided on (`to`) and the one it renames to (`final`).
`archive` and `tmp` hold contents by name and extension, so that a file that is
replaced, torn or beside the wrong RAW shows. `manifest`, `mtmp` and `saving` are the
staging manifest, its shared temporary file and the read, merge and rename of each
writer: an import that appends its job, a sync that reserves a destination, and a sequence
rename, which rewrites the lists of files and not the reservations
(`updateManifestAfterRename`, `photographerSequenceService.js:250-313`). A write keeps
`MaxJobs` entries, the last ones (`localSyncManifest.js:93,116`). `staged` has the contents of
the staged files, which the metadata batch changes: it rewrites an image that is no RAW in
place (`exifService.js:267,325`) and writes an XMP beside one that is. No two jobs list the same
staged file. A file's bytes are one value, `Torn` when a copy broke off; size and checksum
comparisons compare values. `SuffixOf` gives the renamings of a name, so that one
file's renaming may be another's own name.

The lock is one variable: who has it, or nobody. Acquiring takes one step, since
`ArchiveLock` has the detail, and a sync may lose it and go on until its heartbeat
notices, as the code does. Names are probed in one look, because nothing
is ever removed from the folder.

Hazards: *lapse* (a sync loses its lock and goes on), *foreign* (another client adds a file
while a sync runs; it may lock the folder under another name), *overlap* (two writers of the
manifest between read and rename), *cut* (the limit dropped an entry, with its
reservations), *renumbered* (a sequence rename rewrote an entry, whose reservations no
longer name its files), *rewritten* (the batch rewrote an image in place after the first
sync of its job began), *sidecar* (it wrote an XMP while its job was synced). `ManifestKept`
excepts the `Losses` *overlap*, *cut* and *renumbered*, the properties about names
`PlaceHazards`, which is all but *sidecar*, and `SyncedIsArchived` all of them. Overlapping
saves of the manifest can bring an older reservation of a pair back between the look for its
RAW and the look for its XMP: the RAW went to one name, the XMP goes to another one. That is
why the properties about names and about "synced" hold short of *overlap* only, which
instances larger than the run's showed.

Bounded away: an XMP is written at most as often as `XmpOf` says; a job runs `MaxRuns`
times.

### ImportCopy

The folder of one event under imports that run together. A *job* is one file of one
operation's list, `[op, position]`, and `work` has its worker: probing, copying,
verifying, unlinking, retrying, or done with a result. `next` is `queueIndex`, `dest`
the folder by name, with `Torn` for part of a file. `isPaused` and `isAborted` are the
module's, one for all operations, and every copy sets them back when it begins.
`running` and `active` are what the renderer knows of it; it means to run one import at
a time. `lock` is the archive lock of a Direct import, whose loss aborts it.

Hazards: *reset* (a second copy took back the abort of a first), *stranded* (it dropped
the resolvers its paused workers wait for), *stray* (an abort meant for one operation hit
another). Beside them three sets of names: `raced` (two workers found the name free),
`left` (a crash or a failed `unlink` left a part there) and `unsure`. A file is judged by
its size alone (`fileManager.js:164,309`), so a part of the right size passes for it; and when
the `stat` that verifies a copy throws (`:136`), the whole copy is unlinked like a bad one.
`unsure` has the names where either happened.

### SequenceRename

The handler is one process through scan, phase 1 (to temporary names), rollback,
phase 2, remap of the intent, sequences, and the manifest, for one scope after the
other; an *import* resolves its folder, makes it, copies, commits its intent and appends
its job, each a step. A folder name is `<<photographer, sequence>>` or
`<<run, sequence>>` for a temporary one; a folder holds the imports whose files are in it, so
that `intent` and `manifest` can be compared with where the files are.

Hazards: *scan*, *place*, *rollback*, *partial* (a later scope fails and the handler
returns before the manifest), *record*, *lost* (a job appended between the
handler's read and write of the manifest), *crash*; the variable is called `mishaps` here.
The handler reads the sequences and writes them in two steps, outside the store's chain
(`writeSequencesToEventJson`, `photographerSequenceService.js:336`); a commit or another
write between them is put back to what it was. An import whose look at a scope's folders fails
keeps the photographer's plain name (`main.js:670`). `split` has the photographers to whom an
import was routed while the handler ran or without that look, and those whose number such a
commit wrote over.

A plan numbers the folders a scan found, in an order the user chose: numbers and scopes in
it are distinct (`SequenceRenameConstants`), and a photographer is in it twice only if he
had two folders (`Numbered`), which by `OneFolderEach` needs an import routed to him during
an earlier run.

### Transfer

Calls of `runImport` and `resumeImportFromCheckpoint` on one drive and archive, each with
its engine: seeding of an Update Import, batches (folders), files, copy, the checkpoint
after each batch, the outcome manifests, the verdict. `running`, `statePaused` and
`isPaused` belong to the module, so every engine reads them. Names of the archive are
`<<file, n>>`, n the `_n` of a conflict. A file on the drive may be edited, and another
writer may put a file under a name. The scan finds each file missing, there with the same
size, there with another size, or cannot tell (*error*: the folder or the file could not be
read, `:775`, `:791`); an Update Import takes the missing ones alone (`:1013`).

Hazards per batch id: *forgotten* (a resumed run starts with no errors), *unread* (a
folder that could not be listed counts as done, and what the scan of an Update Import could
not read is neither copied nor counted), *unrecorded* (an outcome manifest could not be
written). Beside them `doubled` (two engines at once), `raced` (names another took
between look and rename), `unseen` (names that were taken for free because the look at them
failed, `:120`, `:170`) and `late` (files edited under an unfinished checkpoint).

## Runs

State counts are distinct states.

| run | instance | shows | states |
|---|---|---|---|
| `lock_exclusive` | a sync, a retry of the same job, a Direct import on another device, clocks one tick apart | `Exclusion`, `ReleasesOwnLock`, `HeartbeatFindsOwnLock` short of a hazard; `NoOrphan` also through takeovers of expired leases and late clears | 2.6 M |
| `event_one_chain` | one application: import, batch, editor, failures, crash | `AtomicDocument`: the store is the atomic register, so that finished writes stay; `ChainNeverJams` | 0.1 M |
| `event_shared` | two devices, two imports, an unchained sync, a scan | `NoLostUpdate`; `CompleteHasAudit`: audit entries behind "complete", unless an import was done without one; `CommitSticks` | 1.9 M |
| `queue_guard` | two jobs, a single sync, a batch, a refresh; entries updated, cut and unreadable | `OneSyncPerJob`, `GuardExact`, `PauseReachesSync`; `SyncedStays`: the saved verdict, until the job's entry is updated or cut | 2.7 M |
| `slot_protocol` | two devices, three calls, three sockets | `NoIdleSlot`, `GrantedHoldsSlot`, `WaiterIsAdmitted`, `SlotComesBack` | 0.2 M |
| `metadata_queue` | an import of two files, a reapply of one of them, two workers; failing reads, renames and appends | `NothingLost`, `InterruptedIsResumable`, `QuietWhenCompacted`, `BatchSettles` | 0.9 M |
| `archive_copy` | three jobs of one device and a manifest for two, the first renaming of one's file is another's own name, a stranger's files, images rewritten, crashes, failures | `NothingOverwritten`, `NothingTorn`, `OneNamePerFile`, `XmpBesideItsRaw`, `SyncedIsArchived`, `ManifestKept` | 1.6 M |
| `import_copy` | a Direct import of two files of one name and a Quick Import of one of them, pauses, aborts, a pulled card, one failure or crash | `CommittedIsAccounted`, `NothingTorn`, `ResultsAreTrue`, `NothingOverwritten`, `OpEnds` | 2.1 M |
| `sequence_rename` | two scopes, two photographers, three plans, four imports, two runs, one failure or crash | `NothingHidden`, `IntentFollows`, `ManifestFollows`, `OneFolderEach`, `SeqTypeOK` | 2.1 M |
| `transfer` | two calls (plain or Update, then plain or resumed), two folders, edits, another writer, two failures or crashes | `OkIsWhole`, `NothingOverwritten`, `TransferEnds` | 2.9 M |

Two more runs are [violations](#claims-that-do-not-hold).

### Bounds

- *Lock.* TTL 3, staleness 2, heartbeat 1 keep the order of the code's constants,
  the only thing its decisions depend on; a skew of 1 lets devices disagree about
  an expiry. `MaxTime` 2 lets a lease of the first device run out
  by the second one's clock. Three sessions are the two that conflict and
  the retry that carries the same job id. `OneHazardAtMost` goes on after a lapse or a
  late heartbeat and stops at any other hazard; what is true beyond two of them, and
  after a forced clear, only the proofs say. The client without a heartbeat, the event
  rename, is a session like the others that never renews; only the proofs cover it.
- *event.json.* One process of each kind that matters; a second import on another
  device is what makes statuses conflict. `NoOverlapYet` stops where all the
  invariants of `event_shared` become vacuous; in `event_one_chain` nothing is cut.
- *Queue.* Two jobs, since a batch must have a job other than the contended one.
  `OneHazard` explores each kind of hazard, or one updated entry, alone and stops after a
  race; the entry of the second job is ready or not there. A state
  that meets a second hazard is still checked.
- *Slot.* Two devices, one with two calls, since slots are per device and the
  interesting confusions are between calls of one device; one reconnect; one restart.
  `OneHazard` as above.
- *Metadata.* Two files are the least for an early completion; two batches that share one of
  them, for merging and for torn and overtaken reads. `MaxHandlers` 2 lets both batches
  complete together. `OneDisturbance` explores one crash, or one retry, or one kind of
  failure or torn read at a time, failing reads only while one batch has been started;
  states that meet the other hazards are checked and not left. For each exception of each
  property a run without that exception, and with only its hazard explored, finds a
  violation.

- *Copy.* `MaxJobs` is 2 instead of 200. The third job is there for the entry that does not
  fit: the state in which the manifest was read for it is checked and not left (after *cut*
  only `NothingOverwritten` and `NothingTorn` promise anything); the proofs have all of it.
  Two jobs are the least for a contended manifest and for a name that one file is renamed to
  and another one owns; one of them has an XMP (two versions) and a second run, the retry.
  The stranger's files are another RAW and another XMP of the same name, which make the
  conflicts. `Bounded` goes on after *overlap*, *sidecar*, *rewritten* or *renumbered*, each
  alone; after *lapse* and *foreign* only `ManifestKept` says anything (and `NothingTorn`
  after *foreign*), and states that meet them are checked and not left. Every exception of
  every property was tried like those of the other modules, that of *overlap* for
  `XmpBesideItsRaw` and `SyncedIsArchived` on a larger instance.
- *Import copy.* Two files of one name are the least for a race of workers, and a Quick
  Import of one of them for a race of operations and for the shared flags. `MAX_RETRIES`
  is 1 as in the code (`fileManager.js:28`). The two files differ in size, a part may have
  the size of either. Two workers; one
  fault, since each hazard a fault opens is closed only by the end of its operation.
- *Sequence.* Two scopes, so that one may fail after the other; a photographer with a
  folder in both; plans that number both scopes or renumber the root in the other
  order, so that the second run finds numbered folders and names change places, and one
  that lists a photographer twice. One
  fault: what two of them leave is excused by the first.
- *Transfer.* A file that is new and one the archive has with another size, in a
  folder each; `MaxErrors` 1 instead of 200, so that the limit is met; `MaxSuffix` 2, one
  more than an engine needs alone. Two faults, so that a run may fail after it was resumed.

No run checks for deadlock: every instance ends when its calls are over.

### Fairness

- *EventJson*: each process's steps in the store are weakly fair. They are file
  operations and promise callbacks, which complete or fail.
- *SyncSlot*: messages on a living socket arrive, timers fire, a sync that runs
  ends, either end notices in the end that the other is gone, devices reconnect.
  Nothing obliges a user to ask or to cancel, or an entry to age.
- *ImportCopy*: while some operation or worker awaits something, some awaited call returns,
  whosever: weak fairness of all their steps together, not of each. File operations complete
  or fail, and an operation has finitely many of them. The user's "resume" of a pause is
  fair too, without it a paused import rightly stays. Starting, pausing, aborting and
  pulling a card are not.
- *Transfer*: the engines' steps together and `resumeImport` are fair, for the same reasons.
- *MetadataQueue*: the pool, the handlers and the resume each make progress. No job
  repeats within a launch, so fairness to the pool is fairness to each job; ExifTool
  calls have a timeout. Batches, retries and crashes are not fair.

`WaiterIsAdmitted`, `SlotComesBack`, `ChainNeverJams`, `BatchSettles`, `OpEnds` and
`TransferEnds` are the liveness properties. `BatchSettles` is checked for the behaviours
`OneDisturbance` explores.

## Claims that do not hold

Each of these states what a comment or a document of the repository says, and TLC
finds a behaviour of the code against it.

| run | claim | what happens |
|---|---|---|
| `event_rollback` | the rollback discards no unrelated field (`main.js:1060`) | its mutator spreads the document read before the copy over the current one |
| `import_overwrite` | imports never overwrite (`fileManager.js`) | two workers of one import probe the same name, both find it free, the second replaces the first's file |

The models show more of this kind; the exceptions named in the properties are where.

- `archiveLockService.js:15` "Never delete another device's active lock.":
  `releaseLock` unlinks the path whatever it holds, so after a takeover it removes the
  new holder's lock (*lapse* in `ReleasesOwnLock`).
- `main.js:74` "Prevents duplicate concurrent syncJobNow calls for the same job.": two
  calls pass the has-check before either adds the job (*race* in `OneSyncPerJob`).
- `docs/release-notes-v0.9.0.md:74`, slot conflicts are "detected and serialized": a
  batch sends no heartbeats (`main.js:3599`) and its slot expires after 90 s
  (`server.js:46`), so another device is granted it (*expired* in `GrantedHoldsSlot`).
- `docs/metadata-system.md:68`, "not-required" means no eligible files: a retry after the
  compaction has a journal and no manifest, counts nothing, and is saved over the
  outcome (`metadataStateService.js:93`; *midway*, *torn*).
- `photographerSequenceService.js:146`, a failing rename is "rolled back": so it is in
  phase 1, but not in phase 2 (*place* in `NothingHidden`).
- `transferImportService.js:17` "Only one import may run at a time": two calls pass the
  check of `running` before either claims it (`doubled`).
- `transferImportService.js:183`, an Update Import never overwrites: a look at a name that
  fails finds it "absent" or "free" (`:170`, `:120`), and the copy is renamed over what is there
  (`unseen` in `NothingOverwritten`).
- `docs/archive-operations-layer.md:101`, importing again changes nothing: a file that
  conflicted is copied again, as `_2`, by each further plain import.
- `verifyImport` reports a file that was renamed on a conflict as a size mismatch, since it
  looks for `_n` only when the file's own name is absent (`transferImportService.js`);
  verification is not modelled.

## Proofs

The theorems hold for every value of the constants their `ASSUME`s allow: any
devices, sessions, calls, jobs, clock skews. All are safety.

**ArchiveLock.** `TypeCorrect`, `ExclusionCorrect`, `ReleaseCorrect`,
`NoOrphanCorrect`, `HeartbeatCorrect`, from `Invariance`. The properties speak of
working sessions and the file; a step of `acquireLock` can only be judged if one
knows that whoever found the lock free is alone, that the `.tmp` is that of the one
writer between its two file operations, that a renewal in flight is one's own, and
that a tool about to unlink hits nobody. The invariant says so in two parts. `Tidy`
(the `.tmp`, the renewal in flight and the file each have the owner they should)
needs only that no two windows overlapped, and survives takeovers and forced
clears; it carries `NoOrphan`. `Quiet` (the working session has the file, whoever
claims it is alone) holds until any hazard; it carries the rest.
`HazardsNow \subseteq hazards` ties the history to the state: a step that would
break either part opens a second window or lets a lease lapse, and is a hazard.

**EventJson.** `TypeCorrect`, `FreshCorrect`, `Refinement`, from `Invariance`;
`NoLostUpdateCorrect`, `CompleteHasAuditCorrect`, `CommitSticksCorrect`, from
`KeptInvariance`, which rests on it. The invariant has the order of the chains (`ChainOK`:
distinct pending calls of the device, only the head has started), freshness of the open
window, and `Serialized`: with one chain two windows never overlap. Then the rename of a
call is a step of the register and every other step stutters. What stays in the document
needs more: which calls a process can have made at all (`Roles`), and that whoever holds an
older version with "complete" in it, for a rollback or an edit, has seen an audit entry that
is still there, or an import done without one (`SeenComplete`). With `Fresh` every rename is
then a merge into the file as it is, and `Kept` is one case per operation.

**SyncQueue.** `TypeCorrect`, `OneSyncCorrect`, `GuardCorrect`, `PauseCorrect`, from
`Invariance`. The guard properties become inductive with `DecidersFree` (whoever is between
has-check and add deals with a job nobody owns) and `RaceSeen`. `SyncedStaysCorrect` is
about the file, which three kinds of handlers load, merge and rename: `OneSaver` says that
whoever merges holds the file as it is and whoever renames has what it merged in the
temporary file, `OwnersUnsynced` that nobody has a saved job in its hands, and
`SyncedListed` that a job in `synced`, which leaves that set when its entry is updated or
cut, has its entry in the manifests and no newer one: so no refresh has a reason to open it
again.

**SyncSlot.** `TypeCorrect`, `SlotsCorrect`, `NoIdleSlotCorrect`, from `Invariance`. The
server's part is inductive by itself: at most one holder, one entry per device,
none of the holder's, nobody in the line of a free slot; `GrantNext` is the lemma all
of its handlers rest on. `GrantedHoldsSlotCorrect`, from `HeldInvariance`, needs an
account of what is on the way in both channels (`Held`, which holds until the first
hazard): a call has at most one request on its way, and neither an entry in the line
nor a grant before it arrived (`Origin`); a release on its way was sent before whoever is
busy now has asked (`ReleasesFirst`), so that no release takes a slot that somebody was
told of; and a grant is true from the moment it is sent (`Promised`).

**ArchiveCopy.** `TypeCorrect`, `NoOverwrite`, `NoPartOfAFile`, from `Invariance`;
`KeptManifest`, `OneName`, `XmpKept`, `SyncedArchived`, from `KeepInvariance`, which rests
on it. That
check and rename are two steps makes "nothing is overwritten" false of a step alone: the
invariant has to say that what the guard found free is free at the rename
(`Free`), which holds because the sync is alone in the folder and nobody
adds files (short of *lapse* and *foreign*). `Alone` says so, and that what is about to be
renamed is a whole file, whoever left what under its temporary name; it needs only that
no lock lapsed. `AtItem` ties a run to its list, its branch and its saving of
a reservation, without which the helpers have no type. `RunStep` is the lemma most actions
rest on: a step that changes one run and a temporary file.

The other properties are about the history of a name, over retries that begin from
nothing but the manifest and the folder. `KeepInv` adds what carries it. `Books`: what a
writer is about to put in place of the manifest contains the manifest, since no other
writer had it open, and adds reservations only of an item that had none (`Adds`); both
reservations of a pair name one place (`Booked`). So each item has one place at a time
(`Dest`: its reservation, or its own name), which changes only while nothing has
been put there. `PlaceInv`: a run goes to that place, finds it free and its XMP beside the
right RAW (`Aims`), and what was put anywhere is in its place (`InPlace`). `DoneInv`: a run
without an error, a conflict or an abort has every file before the one it is at in the
archive. `Form` says which halves and branches meet at which step. Here `RunKeeps` and
`AfterGood` (what a settled file makes of its run) are the lemmas most actions rest on,
`RenameBooks`, `ManifestRenameKeeps` and `InstallKeeps` those with an argument of their own.

**Transfer.** `TypeCorrect`, `OkIsWholeCorrect`, `NothingOverwrittenCorrect`, from
`Invariance`. The verdict is given long after the files were copied, possibly by another
engine than the one that copied them. `Whole` carries "what is passed is there" through the
engine (`HasTo`), its complete batches and the checkpoint that a later engine takes over;
`Recorded` and `Seeded` do it for the worklist of an Update Import, whose files are taken to
be there because an outcome manifest says so: `Recorded` that what a manifest or the scan
says is there is there, `Seeded` that what a run has still to seed is among what its scan
saw, short of the folders and files that could not be read. Most steps only add to the
archive, and for them the lemma `Keeps` gives all of it at once.

**ImportCopy.** `TypeCorrect`, `CommittedIsAccountedCorrect`, `NothingTornCorrect`,
`ResultsAreTrueCorrect`, `NothingOverwrittenCorrect`, from `Invariance`. `Control` says at
which stage of an operation its files may be (`Stages`, `InQueue`, `Dropped`: a file was
dropped only by an abort its operation knows of). `Folder` says who may touch which name: a
name has one worker or is in `raced` (`OneHolder`), what that worker replaces is no whole
file but a copy of its own that it could not verify (`Held`), and the index and the results
stay true. `FolderMoved` is the lemma for all steps that write: the folder changes only
under a name its worker holds alone.

**MetadataQueue.** `TypeCorrect`, `NothingLostCorrect`, `QuietCorrect`, from `Invariance`;
`ResumableCorrect`, from `Tracking`, which rests on it. A terminal outcome passes from the
journal through what a handler has read (`seen`) to event.json (`known`), and the invariant
follows it: `Pool` and `Settled` say that a batch that somebody handles has no file at work,
`Journaled` that a settled file has its line (or had it, before the journal was moved
without the manifest: `Noted`), `Follows` and `Carried` that the line is in the hand of
every handler that will compact the batch, and is recorded before the manifest goes. There
is a lemma for each kind of step (`Reading`, `Resuming`, `Moving`, `FirstDone`, `Queueing`).

That "interrupted" has a batch behind it is about views of the queue directory that
handlers took at different times. `Traced` says what each of them still owes: batches
have an order (`Ranked`), an interrupted file of a view was so in a batch of that order
(`Dated`), and once the outcomes of a batch were saved (`Told`) neither the state nor the
view of a handler that began to scan later counts a file as interrupted on its account
(`Clear`, `Owes`). Only a read of a journal and a save disturb this
(`ReadJournalTraced`, `PersistTraced`); `Tracing` has all other steps.

**SequenceRename.** `SeqTypeCorrect`, `NothingHiddenCorrect`, `OneFolderCorrect`,
`IntentFollowsCorrect`, `ManifestFollowsCorrect`, from five invariants that build on each
other. `IShape` ties what phase 1 has moved (`h.moved`) and what earlier scopes renamed
(`h.renames`) to the plan: distinct temporary names, each for an entry before the one the scan
is at. `Hidden` says that a folder under a temporary name is one of `h.moved` that phase 2 or
the rollback has still to put back, which gives `NothingHidden` when the list is done.

That a rename never meets a folder of somebody else, whose imports' intents it would take
along, is where the argument is. `OneEach` has it: a photographer has one visible
folder in a scope and none while his is under a temporary name (`Gone`), so phase 2
and both rollbacks find their target free; what is put back breaks nothing (`Restorable`);
an import routed before the handler began makes no second folder, for the one it finds or
the number it read is still his (`Routed`); behind the scan his folder is
at the planned name (`Scanned`, `Placed`). All of it holds for photographers outside `split`,
through crashes and failing renames; a failing look at the folders is one way into `split`.
`IntentsRead` says that the intents the handler is about to write with the sequences are the
current ones, since whoever commits between its read and its write was routed while it ran.

`Follows` then carries an intent through the handler: it leads to the files after what the
handler has moved is followed, by the list in the scope at work and by `h.renames` in the
earlier ones, so that the remap at the end makes it literally true, and so does the remap of
a run whose later scope failed. `Listed` does it for the jobs: the manifest the handler read
agrees with the intents of before, and what it will write is the planned folder, which
by `OneEach` is the one there is.

Every safety property of a passing run is stated by a theorem, for all values of the
constants; no property but the liveness ones is only model-checked.

Out of the prover's reach and left to TLC: liveness under fairness and `ENABLED`,
what needs induction over data, and anything about recursive operators (none is
declared here).

## Not modelled

- *Metadata decisions* (expectation, audit, repair, verification, intent, evidence):
  pure functions over tags; their effects go through the write engine and the
  event.json store, which are modelled.
- *Transfer export* (`services/transferExportService.js`): of the same shape as the transfer
  import, without outcome manifests. *Of the transfer import*: previews, verification, and the
  temporary names, which no walk looks at.
- *Of the photographer sequence*: the preview, and the guard on running syncs, since a
  sync changes nothing the model has.
- *Of the import transaction*: its event.json writes are in EventJson, its metadata batch in
  MetadataQueue; ImportCopy has where it commits or rolls back.
- *Folder names that differ*: `syncJob` takes its lock under the local name of a folder and
  may copy into a folder of another name in the archive (`archiveSyncService.js:1060`).
- *Adoption of existing folders*: a one-off write behind a preview.
- *Catalogues, caches, reports, thumbnails, browsing, names and dates, settings,
  logging, telemetry, updates, console controllers, views*: nothing is lost with them
  or they do not write shared state.
- *The realtime registry and activity relay*: advisory, for display.
- *`verifyJobChecksum`*: the same gap between test and set as the sync guard, on
  other fields of a job.
- *The copy of `event.json` across devices (EXDEV)* in the store's rename.
- *Of the archive copy*: jobs without a list of files, which walk the folder
  (strategies B and C, with XMPs whose RAW is gone), several photographer folders in
  one job, the manifest's legacy scope, and `writeManifest` as a channel of its own
  (`main.js:3280`, `preload.js:228`), which no window calls. A sync
  ends with a merge into the archive's `event.json`, which swallows its errors and
  does not touch the verdict; as a writer of that document it is in EventJson.
- *Clocks that go back*: journal lines are appended in order; batches have distinct
  times.

## Plan

What would come next, the most valuable first.

1. `TransferExport`, with the drive it fills as the one `Transfer` reads.
2. A composition of `SyncQueue` with the manifest of `ArchiveCopy`: a card goes from
   an import's job entry to "synced" and is not dropped on the way. A composition of
   lock, folder names and copy: a sync locks under the local name of a folder and
   copies into the one of the archive.
