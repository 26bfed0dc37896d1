---------------------------- MODULE MetadataQueue ----------------------------
(***************************************************************************)
(* Durable metadata batches.  A batch writes metadata to the files of one  *)
(* event; its manifest (what to do) and its journal (what was done) live   *)
(* in the queue directory of the device, and the event's state is derived  *)
(* from them and kept in event.json.  When that state is saved the batch   *)
(* is compacted: both files leave the directory.  After a crash the next   *)
(* launch resumes the batches it still finds there.                        *)
(*                                                                         *)
(* Code: main/exifService.js (the worker pool and the batches in memory),  *)
(* metadataQueueStore.js (the files), metadataStateService.js (the state), *)
(* metadataQueueRecovery.js (the resume), and the handlers of batch_complete *)
(* in main.js.  All batches here belong to one event.  A save of event.json *)
(* is one step: EventJson says why it may be.  A file whose outcome is     *)
(* "partial" counts as "failed" but cannot be retried; "ambiguous" and     *)
(* "excluded" files are never written and are left out.                    *)
(***************************************************************************)
EXTENDS Naturals, Sequences, FiniteSets

CONSTANTS
  Batches,
  Files,
  FilesOf,      \* batch -> sequence of its files, copiedFiles
  Workers,      \* MAX_CONCURRENCY
  MaxHandlers,  \* bound: handlers of batch_complete at work at a time
  Troubled,     \* bound: the files that may end otherwise than "complete"
  MaxCrashes,   \* bound
  None

ASSUME MetadataQueueConstants ==
  /\ FilesOf \in [Batches -> Seq(Files)]
  /\ IsFiniteSet(Batches)
  /\ \A b \in Batches :                       \* none is empty or lists a file twice
       /\ FilesOf[b] # <<>>
       /\ \A i, j \in DOMAIN FilesOf[b] : FilesOf[b][i] = FilesOf[b][j] => i = j
  /\ Workers \in Nat \ {0}
  /\ MaxCrashes \in Nat
  /\ MaxHandlers \in Nat \ {0}
  /\ None \notin Batches \union Files

Member(b) == {FilesOf[b][i] : i \in 1 .. Len(FilesOf[b])}

\* Handler 0 is the one of the resume.
Recovery == 0
Handlers == 0 .. MaxHandlers

\* A job of the pool: <<batch, file, round>>.  Round 1 is the batch's own, round
\* 2 a retry; round 0, without a file, is the preflight of the batch.
Start(b) == <<b, None, 0>>
Tasks == UNION {{Start(b)} \union ({b} \X Member(b) \X (1 .. 2)) : b \in Batches}

\* The last line of a file in the journal.  "open": none, or not terminal.
Terminal == {"complete", "failed", "stale"}
Lines    == Terminal \union {"open"}

Ends(f, all) == IF f \in Troubled THEN all ELSE {"complete"}

VARIABLES
  manifest,  \* batch -> "none" | "active" | "gone", compacted
  rank,      \* batch -> order of its queuedAt
  journal,   \* batch -> file -> last line in the queue directory
  recorded,  \* metadataState of event.json: file -> outcome counted for it
  status,    \* batch -> file -> its status in _batches, in memory
  queue,     \* _queue: jobs that wait for a worker
  at,        \* job -> where it is
  handler,   \* handler -> its call of _persistMetadataStateAndCompact
  resume,    \* resumeInterruptedBatches
  started,   \* batches that were applied: their ids are never used again
  crashes,
  known,     \* history: <<batch, file>> whose outcome was saved to event.json
  hazards    \* history: what the queue does not protect against, once met

diskVars    == <<manifest, rank, journal, recorded>>
poolVars    == <<status, queue, at>>
historyVars == <<started, crashes, known>>
vars == <<diskVars, poolVars, handler, resume, historyVars, hazards>>

\* A job that is "complete" or "failed" has counted its outcome and appends it
\* to the journal.
Counted == {"complete", "failed"}
Working == {"running"} \union Counted

Views == [Files -> [rank : Nat, outcome : Terminal \union {"none", "interrupted"}]]
Blank == [f \in Files |-> [rank |-> 0, outcome |-> "none"]]
Off   == [stage |-> "off", goal |-> {}, todo |-> {}, held |-> None, view |-> Blank,
          seen |-> {}, old |-> FALSE]
Due   == [stage |-> "due", todo |-> {}, batch |-> None, left |-> {}, goal |-> {}]

TypeOK ==
  /\ manifest \in [Batches -> {"none", "active", "gone"}]
  /\ rank \in [Batches -> Nat]
  /\ journal \in [Batches -> [Files -> Lines]]
  /\ recorded \in Views
  /\ status \in [Batches -> [Files -> {"absent", "pending", "done", "error"}]]
  /\ queue \in Seq(Tasks)
  /\ at \in [Tasks -> {"off", "queued", "done"} \union Working]
  /\ handler \in [Handlers ->
       [stage : {"off", "called", "scanning", "compacting"},
        goal : SUBSET Batches, todo : SUBSET Batches,
        held : Batches \union {None}, view : Views,
        seen : SUBSET (Batches \X Files), old : BOOLEAN]]
  /\ resume \in [stage : {"due", "listed", "aborted", "over"}, todo : SUBSET Batches,
                 batch : Batches \union {None}, left : SUBSET Files,
                 goal : SUBSET Batches]
  /\ started \subseteq Batches
  /\ crashes \in Nat
  /\ known \subseteq Batches \X Files
  /\ hazards \subseteq {"early", "unjournaled", "unlisted", "overlap", "torn",
                        "overtaken", "unsaved", "midway", "unread", "stuck",
                        "unresumed"}

Init ==
  /\ manifest = [b \in Batches |-> "none"]
  /\ rank = [b \in Batches |-> 0]
  /\ journal = [b \in Batches |-> [f \in Files |-> "open"]]
  /\ recorded = Blank
  /\ status = [b \in Batches |-> [f \in Files |-> "absent"]]
  /\ queue = <<>>
  /\ at = [t \in Tasks |-> "off"]
  /\ handler = [p \in Handlers |-> Off]
  /\ resume = Due
  /\ started = {}
  /\ crashes = 0
  /\ known = {}
  /\ hazards = {}

Meet(met) == hazards' = hazards \union met
When(condition, hazard) == IF condition THEN {hazard} ELSE {}

Unfinished(b) == {t \in Tasks : t[1] = b /\ at[t] \in {"queued"} \union Working}
Active   == {b \in Batches : manifest[b] = "active"}
Alive(b) == \E f \in Files : status[b][f] # "absent"

-----------------------------------------------------------------------------
(* The worker pool                                                         *)

\* _enqueue.
Queued(jobs) ==
  [t \in Tasks |-> IF \E i \in 1 .. Len(jobs) : jobs[i] = t THEN "queued" ELSE at[t]]

Enqueue(jobs) == queue' = queue \o jobs /\ at' = Queued(jobs)

Own(b) == [i \in 1 .. Len(FilesOf[b]) |-> <<b, FilesOf[b][i], 1>>]

\* applyBatch.
ApplyBatch(b) ==
  /\ b \notin started
  /\ started' = started \union {b}
  /\ status' = [status EXCEPT ![b] =
       [f \in Files |-> IF f \in Member(b) THEN "pending" ELSE "absent"]]
  /\ Enqueue(<<Start(b)>>)
  /\ UNCHANGED <<diskVars, handler, resume, crashes, known, hazards>>

\* _drain.  The "writing" line may fail to be appended.
Take ==
  /\ queue # <<>>
  /\ Cardinality({t \in Tasks : at[t] \in Working}) < Workers
  /\ queue' = Tail(queue)
  /\ at' = [at EXCEPT ![Head(queue)] = "running"]
  /\ LET b == Head(queue)[1]  f == Head(queue)[2] IN
     \/ f # None /\ journal' = [journal EXCEPT ![b][f] = "open"]   \* "writing"
     \/ UNCHANGED journal
  /\ UNCHANGED <<manifest, rank, recorded, status, handler, resume, historyVars,
                 hazards>>

\* A batch_complete event: its handler saves the last run (EventJson), then the
\* state.  It is early if another job of the batch is not through.
Complete(b, self, met) ==
  /\ \E p \in Handlers \ {Recovery} :
       /\ handler[p].stage = "off"
       /\ \A q \in 1 .. p - 1 : handler[q].stage # "off"
       /\ handler' = [handler EXCEPT ![p] = [Off EXCEPT !.stage = "called", !.goal = {b}]]
  /\ Meet(met \union When(\E t \in Unfinished(b) : t # self, "early"))

\* writeManifestOnce.
WriteManifest(b) ==
  /\ manifest' = [manifest EXCEPT ![b] = "active"]
  /\ rank' = [rank EXCEPT ![b] = 1 + Cardinality({c \in Batches : rank[c] > 0})]

\* The first job of a batch: _writeBatchManifest, whose failure is ignored, then
\* the preflight of ExifTool, then the jobs of the files.
Prepare(b) ==
  /\ at[Start(b)] = "running"
  /\ \/ WriteManifest(b) /\ UNCHANGED hazards
     \/ Meet({"unlisted"}) /\ UNCHANGED <<manifest, rank>>
  /\ queue' = queue \o Own(b)
  /\ at' = [Queued(Own(b)) EXCEPT ![Start(b)] = "done"]
  /\ UNCHANGED <<journal, recorded, status, handler, resume, historyVars>>

\* The preflight fails, and with it every file; what is not journaled is only logged.
PreflightFails(b) ==
  /\ at[Start(b)] = "running"
  /\ \E lost \in SUBSET Member(b) :
       LET met == When(lost # {}, "unjournaled") IN
       /\ \/ WriteManifest(b) /\ Complete(b, Start(b), met)
          \/ /\ Complete(b, Start(b), met \union {"unlisted"})
             /\ UNCHANGED <<manifest, rank>>
       /\ journal' = [journal EXCEPT ![b] =
            [f \in Files |-> IF f \in Member(b) \ lost THEN "failed" ELSE @[f]]]
  /\ status' = [status EXCEPT ![b] =
       [f \in Files |-> IF f \in Member(b) THEN "error" ELSE @[f]]]
  /\ at' = [at EXCEPT ![Start(b)] = "done"]
  /\ UNCHANGED <<recorded, queue, resume, historyVars>>

\* _processFile: the file is written, read back and counted ...
WriteFile(t) ==
  /\ at[t] = "running" /\ t[3] > 0
  /\ \E outcome \in Ends(t[2], Counted) :
       /\ at' = [at EXCEPT ![t] = outcome]
       /\ \E s \in IF outcome = "complete" THEN {"done"}
                   ELSE {"done", "error"} :        \* "done": partial
            status' = [status EXCEPT ![t[1]][t[2]] = s]
  /\ UNCHANGED <<diskVars, queue, handler, resume, historyVars, hazards>>

\* done + skipped + failed = total; for a retry, remaining = 0.
AllThrough(t) ==
  IF t[3] = 1
    THEN \A f \in Member(t[1]) : status[t[1]][f] # "pending"
    ELSE \A u \in Unfinished(t[1]) : u[3] = 2 => u = t

\* ... then journaled, or not: an append that fails is only logged.  After that
\* the job looks whether the batch is complete.
EndFile(t) ==
  /\ at[t] \in Counted
  /\ at' = [at EXCEPT ![t] = "done"]
  /\ \E met \in {{}, {"unjournaled"}} :
       /\ journal' = IF met # {} THEN journal
                     ELSE [journal EXCEPT ![t[1]][t[2]] = at[t]]
       /\ IF AllThrough(t) THEN Complete(t[1], t, met)
                           ELSE Meet(met) /\ UNCHANGED handler
  /\ UNCHANGED <<manifest, rank, recorded, status, queue, resume, historyVars>>

\* The positions in a set of them, in order.
InOrder(set) ==
  {s \in [1 .. Cardinality(set) -> set] : \A i, j \in DOMAIN s : i < j => s[i] < s[j]}

\* retryFailed.
RetryFailed(b) ==
  LET again == {i \in DOMAIN FilesOf[b] : status[b][FilesOf[b][i]] = "error"} IN
  /\ again # {}
  /\ \A t \in Tasks : t[1] = b /\ t[3] = 2 => at[t] = "off"   \* bound: one retry
  /\ status' = [status EXCEPT ![b] =
       [f \in Files |-> IF @[f] = "error" THEN "pending" ELSE @[f]]]
  /\ \E s \in InOrder(again) : Enqueue([i \in DOMAIN s |-> <<b, FilesOf[b][s[i]], 2>>])
  /\ Meet(When(manifest[b] # "gone", "midway"))
  /\ UNCHANGED <<diskVars, handler, resume, historyVars>>

-----------------------------------------------------------------------------
(* The state of the event                                                  *)

\* computeFileStates, _bucketForFileState: the outcome that counts for a file; what
\* is not over is interrupted.
Outcome(line) == IF line = "open" THEN "interrupted" ELSE line

\* A file of two batches counts for the one queued last.
Merge(view, b) ==
  [f \in Files |->
     IF f \in Member(b) /\ rank[b] >= view[f].rank
       THEN [rank |-> rank[b], outcome |-> Outcome(journal[b][f])] ELSE view[f]]

Count(view, outcomes) == Cardinality({f \in Files : view[f].outcome \in outcomes})

\* deriveState.
State(view) ==
  CASE Count(view, {"none"}) = Cardinality(Files) -> "not-required"
    [] Count(view, {"interrupted"}) > 0           -> "interrupted"
    [] Count(view, {"failed", "stale"}) = 0       -> "complete"
    [] Count(view, {"complete"}) > 0              -> "partial"
    [] Count(view, {"failed"}) > 0                -> "failed"
    [] OTHER                                      -> "verification-required"

-----------------------------------------------------------------------------
(* Saving the state, then compacting: _persistMetadataStateAndCompact      *)

Set(p, next) == handler' = [handler EXCEPT ![p] = next]

\* computeEventDurableCounts lists the manifests,
List(p) ==
  /\ handler[p].stage = "called"
  /\ Set(p, [handler[p] EXCEPT !.stage = "scanning", !.todo = Active])
  /\ UNCHANGED <<diskVars, poolVars, resume, historyVars, hazards>>

\* The directory cannot be read, which counts as empty, or not be made: no save.
ListFails(p) ==
  /\ handler[p].stage = "called"
  /\ \/ /\ Set(p, [handler[p] EXCEPT !.stage = "scanning"])
        /\ Meet(When(Active # {}, "unread"))
     \/ Set(p, Off) /\ Meet({"unsaved"})
  /\ UNCHANGED <<diskVars, poolVars, resume, historyVars>>

\* reads each, if it is still there,
ReadManifest(p, b) ==
  /\ handler[p].stage = "scanning" /\ handler[p].held = None /\ b \in handler[p].todo
  /\ Set(p, [handler[p] EXCEPT !.todo = @ \ {b},
                               !.held = IF manifest[b] = "active" THEN b ELSE None])
  /\ UNCHANGED <<diskVars, poolVars, resume, historyVars, hazards>>

\* A manifest that cannot be read counts as none.
ReadManifestFails(p, b) ==
  /\ handler[p].stage = "scanning" /\ handler[p].held = None /\ b \in handler[p].todo
  /\ manifest[b] = "active"
  /\ Set(p, [handler[p] EXCEPT !.todo = @ \ {b}])
  /\ Meet({"unread"})
  /\ UNCHANGED <<diskVars, poolVars, resume, historyVars>>

\* and then its journal.
ReadJournal(p) ==
  LET b == handler[p].held IN
  /\ handler[p].stage = "scanning" /\ b # None
  /\ Set(p, [handler[p] EXCEPT
       !.held = None,
       !.view = Merge(@, b),
       !.seen = @ \union {<<b, f>> : f \in {g \in Member(b) : journal[b][g] \in Terminal}}])
  /\ Meet(When(manifest[b] # "active", "torn"))
  /\ UNCHANGED <<diskVars, poolVars, resume, historyVars>>

\* A journal that cannot be read counts as empty.
ReadJournalFails(p) ==
  LET b == handler[p].held IN
  /\ handler[p].stage = "scanning" /\ b # None
  /\ Set(p, [handler[p] EXCEPT
       !.held = None,
       !.view = [f \in Files |-> IF f \in Member(b) /\ rank[b] >= @[f].rank
                   THEN [rank |-> rank[b], outcome |-> "interrupted"] ELSE @[f]]])
  /\ Meet({"unread"})
  /\ UNCHANGED <<diskVars, poolVars, resume, historyVars>>

\* Mutant: compacts every batch of the event.
PersistForAll(p) ==
  /\ handler[p].stage = "scanning" /\ handler[p].todo = {} /\ handler[p].held = None
  /\ recorded' = handler[p].view
  /\ known' = known \union handler[p].seen
  /\ handler' = [q \in Handlers |->
       IF q = p THEN [Off EXCEPT !.stage = "compacting", !.goal = Active]
       ELSE [handler[q] EXCEPT !.old = handler[q].stage = "scanning"]]
  /\ Meet(When(handler[p].old, "overtaken"))
  /\ UNCHANGED <<manifest, rank, journal, poolVars, resume, started, crashes>>

\* persistEventMetadataState.  Whoever was scanning meanwhile will save what is
\* older than this.
Persist(p) ==
  /\ handler[p].stage = "scanning" /\ handler[p].todo = {} /\ handler[p].held = None
  /\ recorded' = handler[p].view
  /\ known' = known \union handler[p].seen
  /\ handler' = [q \in Handlers |->
       IF q = p THEN [Off EXCEPT !.stage = "compacting", !.goal = handler[p].goal]
       ELSE [handler[q] EXCEPT !.old = handler[q].stage = "scanning"]]
  /\ Meet(When(handler[p].old, "overtaken"))
  /\ UNCHANGED <<manifest, rank, journal, poolVars, resume, started, crashes>>

\* Mutant: the failure is logged, and compaction goes on.
PersistFailsUnseen(p) ==
  /\ handler[p].stage = "scanning" /\ handler[p].todo = {} /\ handler[p].held = None
  /\ Set(p, [Off EXCEPT !.stage = "compacting", !.goal = handler[p].goal])
  /\ Meet({"unsaved"})
  /\ UNCHANGED <<diskVars, poolVars, resume, historyVars>>

\* The save fails: nothing is compacted.
PersistFails(p) ==
  /\ handler[p].stage = "scanning" /\ handler[p].todo = {} /\ handler[p].held = None
  /\ Set(p, Off)
  /\ Meet({"unsaved"})
  /\ UNCHANGED <<diskVars, poolVars, resume, historyVars>>

\* compactBatch: first the manifest moves,
CompactManifest(p, b) ==
  /\ handler[p].stage = "compacting" /\ handler[p].held = None /\ b \in handler[p].goal
  /\ manifest' = [manifest EXCEPT ![b] = IF @ = "active" THEN "gone" ELSE @]
  /\ Set(p, [handler[p] EXCEPT !.goal = @ \ {b}, !.held = b])
  /\ UNCHANGED <<rank, journal, recorded, poolVars, resume, historyVars, hazards>>

\* or fails to, which is only logged,
CompactManifestFails(p, b) ==
  /\ handler[p].stage = "compacting" /\ handler[p].held = None /\ b \in handler[p].goal
  /\ manifest[b] = "active"
  /\ Set(p, [handler[p] EXCEPT !.goal = @ \ {b}, !.held = b])
  /\ Meet({"stuck"})
  /\ UNCHANGED <<diskVars, poolVars, resume, historyVars>>

\* then the journal, all the same, unless that fails.
CompactJournal(p) ==
  LET b == handler[p].held IN
  /\ handler[p].stage = "compacting" /\ b # None
  /\ \/ journal' = [journal EXCEPT ![b] = [f \in Files |-> "open"]]
     \/ UNCHANGED journal
  /\ Set(p, IF handler[p].goal = {} THEN Off ELSE [handler[p] EXCEPT !.held = None])
  /\ UNCHANGED <<manifest, rank, recorded, poolVars, resume, historyVars, hazards>>

\* The directory of compacted batches cannot be made: what is left stays.
CompactFails(p) ==
  /\ handler[p].stage = "compacting" /\ handler[p].held = None
  /\ Set(p, Off)
  /\ Meet({"stuck"})
  /\ UNCHANGED <<diskVars, poolVars, resume, historyVars>>

-----------------------------------------------------------------------------
(* Crash and recovery                                                      *)

Crash ==
  /\ crashes < MaxCrashes
  /\ crashes' = crashes + 1
  /\ status' = [b \in Batches |-> [f \in Files |-> "absent"]]
  /\ queue' = <<>>
  /\ at' = [t \in Tasks |-> "off"]
  /\ handler' = [p \in Handlers |-> Off]
  /\ resume' = Due
  /\ UNCHANGED <<diskVars, started, known, hazards>>

\* resumeInterruptedBatches, three seconds after the launch.  It takes every
\* manifest it finds for one left over.
Resume ==
  /\ resume.stage = "due"
  /\ resume' = [resume EXCEPT !.stage = "listed", !.todo = Active]
  /\ Meet(When(\E b \in Active : Alive(b), "overlap"))
  /\ UNCHANGED <<diskVars, poolVars, handler, historyVars>>

\* The directory cannot be read or made.
ResumeFindsNothing ==
  /\ resume.stage = "due"
  /\ resume' = [resume EXCEPT !.stage = "over"]
  /\ Meet(When(Active # {}, "unresumed"))
  /\ UNCHANGED <<diskVars, poolVars, handler, historyVars>>

\* Mutant: passes over a batch with nothing to resume.
ResumeBatchOpen(b) ==
  /\ resume.stage = "listed" /\ resume.left = {} /\ b \in resume.todo
  /\ resume' = IF manifest[b] = "active" /\ \E f \in Member(b) : journal[b][f] = "open"
       THEN [resume EXCEPT !.todo = @ \ {b}, !.batch = b, !.goal = @ \union {b},
                           !.left = {f \in Member(b) : journal[b][f] = "open"}]
       ELSE [resume EXCEPT !.todo = @ \ {b}]
  /\ UNCHANGED <<diskVars, poolVars, handler, historyVars, hazards>>

\* One batch after the other; a manifest that is gone by now is passed over.  A
\* journal that cannot be read has every file resumed.
ResumeBatch(b) ==
  /\ resume.stage = "listed" /\ resume.left = {} /\ b \in resume.todo
  /\ \E left \in {{f \in Member(b) : journal[b][f] = "open"}, Member(b)} :
       resume' = IF manifest[b] = "active"
         THEN [resume EXCEPT !.todo = @ \ {b}, !.batch = b, !.goal = @ \union {b},
                             !.left = left]
         ELSE [resume EXCEPT !.todo = @ \ {b}]
  /\ UNCHANGED <<diskVars, poolVars, handler, historyVars, hazards>>

\* So is one that cannot be read.
ResumeBatchUnread(b) ==
  /\ resume.stage = "listed" /\ resume.left = {} /\ b \in resume.todo
  /\ resume' = [resume EXCEPT !.todo = @ \ {b}]
  /\ Meet({"unresumed"})
  /\ UNCHANGED <<diskVars, poolVars, handler, historyVars>>

\* Mutant: a stale file is counted, not journaled.
ResumeFileStaleUnmarked(f) ==
  LET b == resume.batch IN
  /\ resume.stage \in {"listed", "aborted"} /\ f \in resume.left
  /\ resume' = [resume EXCEPT !.left = @ \ {f}]
  /\ \/ /\ \E outcome \in Ends(f, Terminal) :
            journal' = IF outcome = "stale" THEN journal
                       ELSE [journal EXCEPT ![b][f] = outcome]
        /\ UNCHANGED hazards
     \/ UNCHANGED journal /\ Meet({"unjournaled"})
  /\ UNCHANGED <<manifest, rank, recorded, poolVars, handler, historyVars>>

\* resumeFrozenFile, or "stale" if event.json has changed since.
ResumeFile(f) ==
  LET b == resume.batch IN
  /\ resume.stage \in {"listed", "aborted"} /\ f \in resume.left
  /\ resume' = [resume EXCEPT !.left = @ \ {f}]
  /\ \/ /\ \E outcome \in Ends(f, Terminal) : journal' = [journal EXCEPT ![b][f] = outcome]
        /\ UNCHANGED hazards
     \/ UNCHANGED journal /\ Meet({"unjournaled"})
  /\ UNCHANGED <<manifest, rank, recorded, poolVars, handler, historyVars>>

\* The line of a stale (or excluded) file is appended outside any try: when that fails
\* the resume is over, but for the files its other workers go on with.
ResumeAborts(f) ==
  /\ resume.stage \in {"listed", "aborted"} /\ f \in resume.left
  /\ resume' = [resume EXCEPT !.stage = "aborted", !.left = @ \ {f}]
  /\ Meet({"unresumed"})
  /\ UNCHANGED <<diskVars, poolVars, handler, historyVars>>

\* The state is saved once for the event, then its batches are compacted.
ResumeEnds ==
  /\ resume.stage = "listed" /\ resume.left = {} /\ resume.todo = {}
  /\ resume' = [resume EXCEPT !.stage = "over", !.batch = None, !.goal = {}]
  /\ handler' = IF resume.goal = {} THEN handler
       ELSE [handler EXCEPT ![Recovery] =
               [Off EXCEPT !.stage = "called", !.goal = resume.goal]]
  /\ UNCHANGED <<diskVars, poolVars, historyVars, hazards>>

-----------------------------------------------------------------------------
PoolStep == Take \/ (\E b \in Batches : Prepare(b) \/ PreflightFails(b))
                 \/ (\E t \in Tasks : WriteFile(t) \/ EndFile(t))

HandlerStep(p) ==
  \/ List(p) \/ ReadJournal(p) \/ Persist(p) \/ PersistFails(p) \/ CompactJournal(p)
  \/ ListFails(p) \/ ReadJournalFails(p) \/ CompactFails(p)
  \/ \E b \in Batches : ReadManifest(p, b) \/ CompactManifest(p, b)
                        \/ ReadManifestFails(p, b) \/ CompactManifestFails(p, b)

ResumeStep == Resume \/ ResumeFindsNothing \/ ResumeEnds
              \/ (\E b \in Batches : ResumeBatch(b) \/ ResumeBatchUnread(b))
              \/ (\E f \in Files : ResumeFile(f) \/ ResumeAborts(f))

Next ==
  \/ \E b \in Batches : ApplyBatch(b) \/ RetryFailed(b)
  \/ PoolStep
  \/ \E p \in Handlers : HandlerStep(p)
  \/ ResumeStep
  \/ Crash

Spec == Init /\ [][Next]_vars

\* ExifTool answers or times out, files are read and written, and three seconds
\* after a launch the resume starts.  No job repeats, so that fairness to the
\* pool is fairness to each job.
FairSpec ==
  /\ Spec
  /\ WF_vars(PoolStep)
  /\ WF_vars(\E p \in Handlers : HandlerStep(p))
  /\ WF_vars(ResumeStep)

-----------------------------------------------------------------------------
(* Properties                                                              *)

Short(of) == hazards \intersect of = {}

\* compactBatch: "Caller must only call this after the batch's final state is
\* durably reflected" in event.json.  The outcome of every file of a compacted
\* batch went into a state that was saved, unless the batch was called complete
\* too early, an append or a read of the handler failed, or it was retried or resumed
\* while it ran.  A compaction that fails half way is no exception.
NothingLost ==
  \A b \in Batches :
    manifest[b] = "gone" /\ Short({"early", "unjournaled", "midway", "overlap", "unread"})
      => {b} \X Member(b) \subseteq known

\* resumeInterruptedBatches: an event whose state says "interrupted" has a batch in
\* the queue directory, for the next launch to resume, whenever a crash may come:
\* "interrupted" is never what is left of a batch that was compacted, short of the
\* hazards that NothingLost excepts, of handlers that read or save past each other, and
\* of a journal that was moved without its manifest.
InterruptedIsResumable ==
  State(recorded) = "interrupted"
  /\ Short({"early", "unjournaled", "midway", "overlap", "unread", "torn", "overtaken",
            "stuck"})
  => Active # {}

\* No file of a compacted batch waits to be written, except for a retry.
QuietWhenCompacted ==
  \A b \in Batches :
    manifest[b] = "gone" /\ Short({"early", "overlap"})
      => \A t \in Unfinished(b) : t[3] = 2

\* A manifest does not stay: its batch is completed, or resumed after a crash,
\* and compacted, unless its state could not be saved, it could not be moved, or the
\* resume missed it.
BatchSettles ==
  \A b \in Batches :
    manifest[b] = "active" ~>
      (manifest[b] = "gone" \/ ~Short({"unsaved", "stuck", "unresumed"}))

-----------------------------------------------------------------------------
(* The invariant behind them                                               *)

\* The queue has each job once.
InQueue ==
  /\ \A i \in DOMAIN queue : at[queue[i]] = "queued"
  /\ \A i, j \in DOMAIN queue : queue[i] = queue[j] => i = j

\* The batches a handler, or the resume, deals with.
InHand(p) ==
  handler[p].goal \union
  (IF handler[p].stage = "compacting" /\ handler[p].held # None THEN {handler[p].held} ELSE {})
Resumed == resume.todo \union resume.goal

\* What there is of a batch is there because it was started.
Begun ==
  /\ \A t \in Tasks : at[t] # "off" => t[1] \in started /\ Alive(t[1])
  /\ \A b \in Batches : manifest[b] # "none" \/ Alive(b) => b \in started
  /\ \A p \in Handlers : InHand(p) \subseteq started
  /\ Resumed \subseteq started
  /\ resume.batch \in resume.goal \union {None}

\* A batch whose first job is not done has nothing else yet.
First ==
  \A b \in Batches :
    /\ at[Start(b)] \in {"off", "queued", "running", "done"}
    /\ at[Start(b)] \in {"queued", "running"} =>
         /\ manifest[b] = "none"
         /\ \A f \in Files : status[b][f] # "error"
         /\ \A t \in Tasks : t[1] = b /\ t # Start(b) => at[t] = "off"
         /\ b \notin Resumed /\ \A p \in Handlers : b \notin InHand(p)

\* The files of a batch are queued together.
Together ==
  \A b \in Batches : \A f, g \in Member(b) :
    at[<<b, f, 1>>] = "off" => at[<<b, g, 1>>] = "off"

\* A batch that is reported complete, or compacted, has only retries to do; one that
\* is resumed has nothing.
Settled ==
  /\ Short({"early", "overlap"}) =>
       \A p \in Handlers : \A b \in InHand(p) : \A t \in Unfinished(b) : t[3] = 2
  /\ Short({"overlap"}) => \A b \in Resumed : ~Alive(b)

\* A retry follows the compaction; a journal is compacted after its manifest, or
\* without it.
Follows ==
  /\ Short({"midway"}) =>
       \A t \in Tasks : t[3] = 2 /\ at[t] # "off" => manifest[t[1]] = "gone"
  /\ \A p \in Handlers : handler[p].stage = "compacting" /\ handler[p].held # None
       => \/ manifest[handler[p].held] # "active"
          \/ "stuck" \in hazards

Sound == Short({"early", "unjournaled", "midway", "overlap", "unread"})

\* The outcome of a file is in its journal, or was saved before that was moved alone.
Noted(b, f) ==
  journal[b][f] \in Terminal \/ ("stuck" \in hazards /\ <<b, f>> \in known)

\* The resume has dealt with a file.
Passed(b, f) ==
  /\ b \in resume.goal /\ resume.stage # "aborted"
  /\ ~(b = resume.batch /\ f \in resume.left)

\* The outcomes of the jobs of a batch that are done are noted, and those of all of its
\* files once somebody is to compact it.
Journaled ==
  Sound => \A b \in Active : \A f \in Member(b) :
    \/ Noted(b, f)
    \/ /\ at[<<b, f, 1>>] # "done"
       /\ \A p \in Handlers : b \notin handler[p].goal
       /\ ~Passed(b, f)

\* A handler has seen the outcomes of its batches when it has read what it listed,
\* and what it compacts was saved.
Carried ==
  Sound => \A p \in Handlers : \A b \in InHand(p) \intersect Active :
    /\ handler[p].stage = "scanning" =>
         \/ b \in handler[p].todo \/ b = handler[p].held
         \/ {b} \X Member(b) \subseteq handler[p].seen \union known
    /\ handler[p].stage = "compacting" => {b} \X Member(b) \subseteq known

Pool == InQueue /\ Begun /\ First /\ Together
Safe == Settled /\ QuietWhenCompacted /\ Follows /\ Journaled /\ Carried /\ NothingLost
IInv == TypeOK /\ Pool /\ Safe

\* Batches with a manifest have an order.
Ranked ==
  /\ \A b \in Batches : /\ manifest[b] = "none" <=> rank[b] = 0
                        /\ rank[b] <= Cardinality({c \in Batches : rank[c] > 0})
  /\ \A b, c \in Batches : rank[b] = rank[c] /\ b # c => rank[b] = 0

\* What is interrupted in a view was so in a batch of that order.
Dated(view, order) ==
  \A f \in Files : view[f].outcome = "interrupted" =>
    \E b \in Batches : f \in Member(b) /\ order[b] > 0 /\ order[b] = view[f].rank

\* No file of batch b is interrupted in a view on account of b.
Clear(view, b, order) ==
  \A f \in Member(b) : view[f].rank = order[b] => view[f].outcome # "interrupted"

\* The outcomes of b were saved, and it is, or was, compacted.
Told(b) ==
  \/ manifest[b] = "gone"
  \/ \E p \in Handlers : handler[p].stage = "compacting" /\ b \in handler[p].goal

\* A handler whose view has to have b settled: the one that is to tell it, and one
\* that began to scan after it was told.
Owes(p, b) ==
  /\ handler[p].stage = "scanning"
  /\ b \in handler[p].goal \/ (Told(b) /\ ~handler[p].old)

Faithful == Short({"early", "unjournaled", "midway", "overlap", "unread", "torn",
                   "overtaken", "stuck"})

Traced ==
  /\ Ranked
  /\ \A p \in Handlers : handler[p].stage # "scanning" => handler[p].view = Blank
  /\ Faithful =>
       /\ Dated(recorded, rank) /\ \A p \in Handlers : Dated(handler[p].view, rank)
       /\ \A b \in Batches : rank[b] > 0 =>
            /\ Told(b) => Clear(recorded, b, rank)
            /\ \A p \in Handlers : Owes(p, b) => Clear(handler[p].view, b, rank)

=============================================================================
