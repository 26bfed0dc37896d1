------------------------------- MODULE Transfer -------------------------------
(***************************************************************************)
(* The import of a transfer drive into the archive                         *)
(* (src/services/transferImportService.js): runs that copy the files of a  *)
(* list of folders (batches), their pause, their checkpoint in the         *)
(* archive, and what a later session resumes.                              *)
(*                                                                         *)
(* All runs here have the same drive, archive and scope.  An engine step   *)
(* ends where the code awaits; the flags of the module belong to every     *)
(* engine.  A name of the archive is <<file, n>>: n is 0 for the file's    *)
(* own name and n for the one with _n.  What is written under a temporary  *)
(* name is left out until it is renamed: no walk looks at it.              *)
(***************************************************************************)
EXTENDS Integers, Sequences, FiniteSets

CONSTANTS
  Calls,      \* calls of runImport and resumeImportFromCheckpoint
  Modes,      \* call -> what it may be, of "plain", "update" and "resume"
  Files,
  Batches,    \* the folders, in order: the sequence of the files of each
  Contents,   \* what a file may hold
  SizeOf,     \* contents -> size
  OnDrive,    \* file -> its contents on the drive at the start
  EditOf,     \* file -> contents it may be given later, or None
  Before,     \* file -> what the archive has under its name, or None
  OtherOf,    \* file -> what another writer may put under its name, or None
  MaxSuffix,  \* bound on _n
  MaxErrors,  \* MAX_ERRORS
  MaxFaults,  \* bound on I/O errors and crashes
  Torn,       \* part of a file
  None

ASSUME TransferConstants ==
  /\ Modes \in [Calls -> SUBSET {"plain", "update", "resume"}]
  /\ Batches \in Seq(Seq(Files))
  /\ SizeOf \in [Contents -> Nat]
  /\ OnDrive \in [Files -> Contents]
  /\ EditOf \in [Files -> Contents \union {None}]
  /\ Before \in [Files -> Contents \union {None}]
  /\ OtherOf \in [Files -> Contents \union {None}]
  /\ MaxSuffix \in Nat /\ MaxErrors \in Nat \ {0} /\ MaxFaults \in Nat
  /\ Torn \notin Contents /\ None \notin Contents \union {Torn} \union Calls

VARIABLES
  drive,        \* file -> contents
  archive,      \* name -> contents, Torn or None
  seen,         \* call -> the inventory its operator has reviewed
  run,          \* call -> its engine
  running,      \* _state.running
  statePaused,  \* _state.paused
  isPaused,     \* _isPaused; _pauseResolvers are the engines that are parked
  checkpoint,   \* import-checkpoint.json, or None
  outcomes,     \* batch id -> the names its outcome manifest gives
  faults,
  doubled,      \* history: two engines ran at once
  raced,        \* history: names renamed to over a file that was not there before
  unseen,       \* history: names taken for free because they could not be looked at
  late,         \* history: files edited while a checkpoint was unfinished
  hazards       \* history: <<batch id, what its status does not tell>>

flagVars == <<running, statePaused, isPaused>>
histVars == <<doubled, raced, unseen, late, hazards>>
vars == <<drive, archive, seen, run, running, statePaused, isPaused, checkpoint,
          outcomes, faults, doubled, raced, unseen, late, hazards>>

Names == Files \X (0..MaxSuffix)
Inventories == [Files -> [state : {"missing", "same-size", "changed-size", "error"},
                          source : Int, dest : Int]]
BatchNos == DOMAIN Batches
Ids == Calls

\* id: the batch id, that of the call that began it; list: the worklist of an
\* Update Import; done: the complete batches; b, i: batch and file it is at;
\* free: it has found the name it copies to free.
Engine == [at : {"idle", "scanned", "called", "first", "seed", "batch", "waitbatch",
                 "gobatch", "file", "waitfile", "gofile", "copy", "end", "done",
                 "refused", "hung", "dead"},
           mode : {"plain", "update", "resume"}, id : Ids, update : BOOLEAN,
           list : SUBSET Files, done : SUBSET BatchNos, b : Nat \ {0},
           i : Nat \ {0}, to : Names \union {None}, free : BOOLEAN, errors : Nat]

Checkpoint == [complete : BOOLEAN, id : Ids, update : BOOLEAN, list : SUBSET Files,
               done : SUBSET BatchNos, errors : Nat]

Kinds == {"forgotten", "unread", "unrecorded"}

TypeOK ==
  /\ drive \in [Files -> Contents]
  /\ archive \in [Names -> Contents \union {Torn, None}]
  /\ seen \in [Calls -> Inventories]
  /\ run \in [Calls -> Engine]
  /\ running \in BOOLEAN /\ statePaused \in BOOLEAN /\ isPaused \in BOOLEAN
  /\ checkpoint \in Checkpoint \union {None}
  /\ outcomes \in [Ids -> SUBSET Names]
  /\ faults \in Nat
  /\ doubled \in BOOLEAN
  /\ raced \subseteq Names /\ unseen \subseteq Names /\ late \subseteq Files
  /\ hazards \subseteq Ids \X Kinds

Waiting == {"waitbatch", "waitfile"}
Active == Waiting \union
  {"first", "seed", "batch", "gobatch", "file", "gofile", "copy", "end"}
At(k) == run[k].at

Entry(state, source, dest) == [state |-> state, source |-> source, dest |-> dest]

Rest(k, m) == [at |-> "idle", mode |-> m, id |-> k, update |-> m = "update",
               list |-> {}, done |-> {}, b |-> 1, i |-> 1, to |-> None, free |-> FALSE,
               errors |-> 0]

Init ==
  /\ drive = OnDrive
  /\ archive = [n \in Names |-> IF n[2] = 0 THEN Before[n[1]] ELSE None]
  /\ seen = [k \in Calls |-> [f \in Files |-> Entry("missing", 0, -1)]]
  /\ \E m \in [Calls -> {"plain", "update", "resume"}] :
       /\ \A k \in Calls : m[k] \in Modes[k]
       /\ run = [k \in Calls |-> Rest(k, m[k])]
  /\ running = FALSE /\ statePaused = FALSE /\ isPaused = FALSE
  /\ checkpoint = None
  /\ outcomes = [d \in Ids |-> {}]
  /\ faults = 0
  /\ doubled = FALSE /\ raced = {} /\ unseen = {} /\ late = {} /\ hazards = {}

Fault == faults < MaxFaults /\ faults' = faults + 1

\* A fault, or none.
MayFail(ok, failed) == (ok /\ UNCHANGED faults) \/ (failed /\ Fault)
FaultIf(some) == IF some THEN Fault ELSE UNCHANGED faults

Size(c) == IF c \in Contents THEN SizeOf[c] ELSE -1
Same(f, n) == archive[n] # None /\ Size(archive[n]) = Size(drive[f])

Go(k, s) == run' = [run EXCEPT ![k].at = s]

\* An engine that is no more.
Gone(k, s) == [Rest(k, run[k].mode) EXCEPT !.at = s]

-----------------------------------------------------------------------------
(* The calls                                                               *)

\* _scanUnitsInventory: what the archive has of each file, when those of lost, or
\* their folder, cannot be read, and the names of blind cannot be looked at.
Inventory(lost, blind) ==
  [f \in Files |->
     LET size == Size(drive[f])
         there == Size(archive[<<f, 0>>]) IN
     IF f \in lost THEN Entry("error", 0, -1)
     ELSE IF f \in blind \/ archive[<<f, 0>>] = None THEN Entry("missing", size, -1)
     ELSE Entry(IF there = size THEN "same-size" ELSE "changed-size", size, there)]

\* Scan for New Data, which the operator reviews.
Scan(k) ==
  /\ run[k].mode = "update" /\ At(k) = "idle"
  /\ Go(k, "scanned")
  /\ \E lost, blind \in SUBSET Files :
       /\ FaultIf(lost \union blind # {})
       /\ seen' = [seen EXCEPT ![k] = Inventory(lost, blind)]
  /\ UNCHANGED <<drive, archive, flagVars, checkpoint, outcomes, histVars>>

\* runImport and resumeImportFromCheckpoint, up to their first await.
Call(k) ==
  /\ At(k) = (IF run[k].mode = "update" THEN "scanned" ELSE "idle")
  /\ Go(k, IF running THEN "refused" ELSE "called")
  /\ UNCHANGED <<drive, archive, seen, flagVars, checkpoint, outcomes, faults,
                 histVars>>

\* The new run's _state and _pauseResolvers replace those of another.
Claim(k, engine) ==
  /\ run' = [j \in Calls |->
       IF j = k THEN engine
       ELSE IF At(j) \in Waiting THEN Gone(j, "hung") ELSE run[j]]
  /\ running' = TRUE /\ statePaused' = FALSE /\ isPaused' = FALSE
  /\ doubled' = (doubled \/ \E j \in Calls : At(j) \in Active)

\* The files of a reviewed inventory in one of these states.
SeenAs(k, states) == {f \in Files : seen[k][f].state \in states}

\* runImport, from there.  An Update Import is refused when its inventory has changed;
\* what it could not read, it leaves out and does not count.
RunImport(k) ==
  /\ At(k) = "called" /\ run[k].mode # "resume"
  /\ \/ /\ run[k].mode = "plain"
        /\ Claim(k, [run[k] EXCEPT !.at = "first"])
        /\ UNCHANGED <<faults, hazards>>
     \/ /\ run[k].mode = "update"
        /\ \E lost, blind \in SUBSET Files :
             /\ FaultIf(lost \union blind # {})
             /\ IF Inventory(lost, blind) # seen[k]
                THEN Go(k, "refused") /\ UNCHANGED <<flagVars, doubled, hazards>>
                ELSE /\ Claim(k, [run[k] EXCEPT !.at = "first",
                                                !.list = SeenAs(k, {"missing"})])
                     /\ hazards' = IF lost = {} THEN hazards
                                   ELSE hazards \union {<<k, "unread">>}
  /\ UNCHANGED <<drive, archive, seen, checkpoint, outcomes, raced, unseen, late>>

\* resumeImportFromCheckpoint, from there: the checkpoint's batches, none of its
\* errors.
ResumeImportFromCheckpoint(k) ==
  /\ At(k) = "called" /\ run[k].mode = "resume"
  /\ IF checkpoint = None \/ (checkpoint # None /\ checkpoint.complete)
     THEN Go(k, "refused") /\ UNCHANGED <<flagVars, doubled, hazards>>
     ELSE /\ Claim(k, [run[k] EXCEPT !.at = IF checkpoint.update THEN "batch" ELSE "first",
                                     !.id = checkpoint.id, !.update = checkpoint.update,
                                     !.list = checkpoint.list, !.done = checkpoint.done])
          /\ hazards' = IF checkpoint.errors > 0
                        THEN hazards \union {<<checkpoint.id, "forgotten">>} ELSE hazards
  /\ UNCHANGED <<drive, archive, seen, checkpoint, outcomes, faults, raced, unseen, late>>

-----------------------------------------------------------------------------
(* The engine: _doImportPlain and _doImportUpdate                          *)

\* _writeCheckpoint, whose failure the run outlives.
WriteCheckpoint(k, complete, done) ==
  MayFail(checkpoint' = [complete |-> complete, id |-> run[k].id,
                         update |-> run[k].update, list |-> run[k].list,
                         done |-> done, errors |-> run[k].errors],
          UNCHANGED checkpoint)

\* The first checkpoint of a run.
First(k) ==
  /\ At(k) = "first"
  /\ WriteCheckpoint(k, FALSE, run[k].done)
  /\ Go(k, IF run[k].update THEN "seed" ELSE "batch")
  /\ UNCHANGED <<drive, archive, seen, flagVars, outcomes, histVars>>

\* An Update Import records the files its scan has found there; a resumed one
\* takes for granted that they are recorded.
Seed(k) ==
  /\ At(k) = "seed"
  /\ Go(k, "batch")
  /\ MayFail(outcomes' = [outcomes EXCEPT ![run[k].id] =
                @ \union {<<f, 0>> : f \in SeenAs(k, {"same-size", "changed-size"})}]
               /\ UNCHANGED hazards,
             UNCHANGED outcomes
               /\ hazards' = hazards \union {<<run[k].id, "unrecorded">>})
  /\ UNCHANGED <<drive, archive, seen, flagVars, checkpoint, doubled, raced, unseen, late>>

\* _waitIfPaused before a batch and before a file: an engine that has waited goes
\* on, paused again or not.
Passes(k, s, woken) == At(k) = woken \/ (At(k) = s /\ ~isPaused)
Waits(k, s, waiting) == At(k) = s /\ isPaused /\ Go(k, waiting)

\* The next batch that is not complete.  A folder that cannot be read has no files.
Batch(k) ==
  /\ run[k].done # BatchNos
  /\ \/ Waits(k, "batch", "waitbatch") /\ UNCHANGED <<faults, hazards>>
     \/ /\ Passes(k, "batch", "gobatch") /\ running
        /\ \E n \in BatchNos \ run[k].done :
             /\ \A m \in BatchNos \ run[k].done : n <= m
             /\ \/ /\ run' = [run EXCEPT ![k].at = "file", ![k].b = n, ![k].i = 1]
                   /\ UNCHANGED <<faults, hazards>>
                \/ /\ ~run[k].update /\ Fault
                   /\ run' = [run EXCEPT ![k].at = "end", ![k].b = n]
                   /\ hazards' = hazards \union {<<run[k].id, "unread">>}
  /\ UNCHANGED <<drive, archive, seen, flagVars, checkpoint, outcomes, doubled,
                 raced, unseen, late>>

Current(k) == Batches[run[k].b][run[k].i]

\* No file of the batch is left, or none is looked at any more.
EndOfFiles(k) ==
  /\ At(k) = "file"
  /\ run[k].i \notin DOMAIN Batches[run[k].b] \/ run[k].errors >= MaxErrors
  /\ Go(k, "end")
  /\ UNCHANGED <<drive, archive, seen, flagVars, checkpoint, outcomes, faults,
                 histVars>>

ToNext(k) == run' = [run EXCEPT ![k].at = "file", ![k].i = @ + 1, ![k].to = None,
                                ![k].free = FALSE]

\* Mutant: an error is logged and not counted.
FailedUncounted(k) == run' = [run EXCEPT ![k].at = "file", ![k].i = @ + 1,
                                         ![k].to = None, ![k].free = FALSE]

Failed(k) == run' = [run EXCEPT ![k].at = "file", ![k].i = @ + 1, ![k].to = None,
                                ![k].free = FALSE, ![k].errors = @ + 1]

\* _recordTransferOutcome, whose failure the run outlives.
Record(k, n) ==
  MayFail(outcomes' = [outcomes EXCEPT ![run[k].id] = @ \union {n}] /\ UNCHANGED hazards,
          UNCHANGED outcomes /\ hazards' = hazards \union {<<run[k].id, "unrecorded">>})

\* The names before the n-th are taken, so that it is looked at; _findSafeConflictPath
\* returns it when it is free, or when that look fails.
SafeConflictPath(f, n) == \A m \in 1..(n - 1) : archive[<<f, m>>] # None

Copying(k, n) == run' = [run EXCEPT ![k].at = "copy", ![k].to = n,
                                    ![k].free = archive[n] = None]

\* Mutant: a changed file is copied to its own name.
ProbeKeepsName(k) ==
  /\ Passes(k, "file", "gofile")
  /\ run[k].i \in DOMAIN Batches[run[k].b] /\ run[k].errors < MaxErrors
  /\ LET f == Current(k) IN
     IF Same(f, <<f, 0>>) THEN ToNext(k) /\ Record(k, <<f, 0>>)
     ELSE Copying(k, <<f, 0>>) /\ UNCHANGED <<outcomes, hazards, faults>>
  /\ UNCHANGED <<drive, archive, seen, flagVars, checkpoint, doubled, raced, unseen, late>>

\* _copyFileSafe, up to the name it copies to; not for the files an Update Import
\* has no worklist entry of.  A name that cannot be looked at counts as free.
Probe(k) ==
  /\ At(k) \in {"file", "gofile"}
  /\ run[k].i \in DOMAIN Batches[run[k].b] /\ run[k].errors < MaxErrors
  /\ LET f == Current(k)
         own == <<f, 0>>
         listed == ~run[k].update \/ f \in run[k].list IN
     \/ ~listed /\ ToNext(k) /\ UNCHANGED <<outcomes, hazards, faults, unseen>>
     \/ /\ listed /\ Waits(k, "file", "waitfile")
        /\ UNCHANGED <<outcomes, hazards, faults, unseen>>
     \/ /\ listed /\ Passes(k, "file", "gofile")
        /\ \/ /\ Same(f, own) \/ (run[k].update /\ archive[own] # None)
              /\ ToNext(k) /\ Record(k, own) /\ UNCHANGED unseen
           \/ /\ \E n \in 0..MaxSuffix :
                   /\ n = 0 \/ (~run[k].update /\ archive[own] # None /\ ~Same(f, own))
                   /\ SafeConflictPath(f, n)
                   /\ Copying(k, <<f, n>>)
                   /\ FaultIf(archive[<<f, n>>] # None)
                   /\ unseen' = unseen \union {m \in {<<f, n>>} : archive[m] # None}
              /\ UNCHANGED <<outcomes, hazards>>
           \/ Fault /\ Failed(k) /\ UNCHANGED <<outcomes, hazards, unseen>>
  /\ UNCHANGED <<drive, archive, seen, flagVars, checkpoint, doubled, raced, late>>

\* Two engines that copy to one name share its temporary name.
Shared(k) == \E j \in Calls \ {k} : At(j) = "copy" /\ run[j].to = run[k].to

\* The rest of _copyFileSafe: the copy is renamed to its name, whatever is there.
Rename(k) ==
  /\ At(k) = "copy"
  /\ \/ /\ \E c \in {drive[Current(k)]} \union (IF Shared(k) THEN {Torn} ELSE {}) :
             archive' = [archive EXCEPT ![run[k].to] = c]
        /\ raced' = IF run[k].free /\ archive[run[k].to] # None
                    THEN raced \union {run[k].to} ELSE raced
        /\ ToNext(k) /\ Record(k, run[k].to)
     \/ /\ Fault \/ (doubled /\ UNCHANGED faults)
        /\ Failed(k)
        /\ UNCHANGED <<archive, raced, outcomes, hazards>>
  /\ UNCHANGED <<drive, seen, flagVars, checkpoint, doubled, unseen, late>>

\* The batch is complete, its errors or not.
EndBatch(k) ==
  /\ At(k) = "end"
  /\ LET done == run[k].done \union {run[k].b} IN
     /\ run' = [run EXCEPT ![k].at = "batch", ![k].done = done]
     /\ WriteCheckpoint(k, FALSE, done)
  /\ UNCHANGED <<drive, archive, seen, flagVars, outcomes, histVars>>

\* _finishImport: all batches are complete, or running is FALSE: another engine
\* has finished.
Finish(k) ==
  /\ IF run[k].done = BatchNos THEN At(k) = "batch"
     ELSE Passes(k, "batch", "gobatch") /\ ~running
  /\ run' = [run EXCEPT ![k] = Gone(k, "done")]
  /\ WriteCheckpoint(k, TRUE, run[k].done)
  /\ running' = FALSE /\ statePaused' = FALSE
  /\ UNCHANGED <<drive, archive, seen, isPaused, outcomes, histVars>>

-----------------------------------------------------------------------------
(* The operator and the world                                              *)

PauseImport ==
  /\ running /\ ~statePaused
  /\ isPaused' = TRUE /\ statePaused' = TRUE
  /\ UNCHANGED <<drive, archive, seen, run, running, checkpoint, outcomes, faults,
                 histVars>>

\* Mutant: a pause ends without waking anybody.
ResumeWakesNone ==
  /\ statePaused
  /\ isPaused' = FALSE /\ statePaused' = FALSE
  /\ UNCHANGED <<drive, archive, seen, run, running, checkpoint, outcomes, faults,
                 histVars>>

ResumeImport ==
  /\ statePaused
  /\ isPaused' = FALSE /\ statePaused' = FALSE
  /\ run' = [k \in Calls |->
       IF At(k) = "waitbatch" THEN [run[k] EXCEPT !.at = "gobatch"]
       ELSE IF At(k) = "waitfile" THEN [run[k] EXCEPT !.at = "gofile"] ELSE run[k]]
  /\ UNCHANGED <<drive, archive, seen, running, checkpoint, outcomes, faults,
                 histVars>>

\* clearImportCheckpoint: the operator starts afresh; the offer to resume is hidden
\* while a run goes on.
ClearImportCheckpoint ==
  /\ checkpoint # None /\ ~running
  /\ checkpoint' = None
  /\ UNCHANGED <<drive, archive, seen, run, flagVars, outcomes, faults, histVars>>

\* The application ends and is started again.
Crash ==
  /\ Fault
  /\ \E k \in Calls : At(k) \in Active \union {"called", "hung"}
  /\ run' = [k \in Calls |->
       IF At(k) \in Active \union {"called", "hung"}
       THEN Gone(k, "dead") ELSE run[k]]
  /\ running' = FALSE /\ statePaused' = FALSE /\ isPaused' = FALSE
  /\ hazards' = hazards \union {<<run[k].id, "unrecorded">> :
                                k \in {k \in Calls : At(k) \in {"first", "seed"} /\ run[k].update}}
  /\ UNCHANGED <<drive, archive, seen, checkpoint, outcomes, doubled, raced, unseen, late>>

\* A file of the drive is edited while no run reads the drive.
Edit(f) ==
  /\ EditOf[f] # None /\ drive[f] # EditOf[f]
  /\ \E k \in Calls : At(k) # "idle"          \* else as if it began so
  /\ \A k \in Calls : At(k) \notin Active
  /\ drive' = [drive EXCEPT ![f] = EditOf[f]]
  /\ late' = IF checkpoint # None THEN late \union {f} ELSE late
  /\ UNCHANGED <<archive, seen, run, flagVars, checkpoint, outcomes, faults,
                 doubled, raced, unseen, hazards>>

\* Another writer of the archive, an import from a card, adds a file.
OtherWrites(f) ==
  /\ OtherOf[f] # None /\ archive[<<f, 0>>] = None
  /\ archive' = [archive EXCEPT ![<<f, 0>>] = OtherOf[f]]
  /\ UNCHANGED <<drive, seen, run, flagVars, checkpoint, outcomes, faults, histVars>>

EngineStep(k) == First(k) \/ Seed(k) \/ Batch(k) \/ EndOfFiles(k) \/ Probe(k)
                 \/ Rename(k) \/ EndBatch(k) \/ Finish(k)

Next ==
  \/ \E k \in Calls : \/ Scan(k) \/ Call(k) \/ RunImport(k)
                      \/ ResumeImportFromCheckpoint(k) \/ EngineStep(k)
  \/ \E f \in Files : Edit(f) \/ OtherWrites(f)
  \/ PauseImport \/ ResumeImport \/ ClearImportCheckpoint \/ Crash

\* Some awaited call returns while there is one, whosever, and the operator does not
\* leave an import paused for ever.
Fairness == WF_vars(\E k \in Calls : EngineStep(k)) /\ WF_vars(ResumeImport)

Spec == Init /\ [][Next]_vars /\ Fairness

-----------------------------------------------------------------------------
(* Properties                                                              *)

\* What the status of a run with this id does not tell.
Excused(id) == doubled \/ \E kind \in Kinds : <<id, kind>> \in hazards

\* The archive has the file under a name of the run's outcome manifest, by which
\* main.js scopes the metadata verification: with the size it has on the drive, or
\* (an Update Import) as the scan found it or the run copied it.
Has(id, update, f) ==
  \/ f \in late
  \/ \E n \in 0..MaxSuffix :
       /\ <<f, n>> \in outcomes[id]
       /\ IF update THEN archive[<<f, n>>] # None ELSE Same(f, <<f, n>>)

\* A run of status ok has every file of its scope in the archive, and has recorded
\* it.  Crashes, pauses and resumptions do not change that; what does is named:
\* errors before a resumption, a folder or file that could not be read, an outcome
\* that could not be appended, a second engine, and files edited while a run was
\* unfinished.
OkIsWhole ==
  [][\A k \in Calls :
       (At(k) # "done" /\ run'[k].at = "done" /\ run[k].errors = 0)
         => \/ Excused(run[k].id)
            \/ \A b \in BatchNos : \A i \in DOMAIN Batches[b] :
                 Has(run[k].id, run[k].update, Batches[b][i])]_vars

\* No file of the archive is overwritten, except under a name that another writer
\* took after the engine had found it free (transferImportService.js:193), or that
\* the engine took for free because it could not look at it (:120, :170).
NothingOverwritten ==
  [][\A n \in Names : archive[n] # None =>
        \/ archive'[n] = archive[n] \/ n \in raced'
        \/ /\ n \in unseen
           /\ \E k \in Calls : At(k) = "copy" /\ run[k].to = n /\ ~run[k].free]_vars

\* A run that is begun or resumed comes to its end, paused meanwhile or not, unless a
\* second engine dropped the resolvers it waits for: there are so many calls, and in
\* the end no engine is at work.
TransferEnds == <>[](doubled \/ \A k \in Calls : At(k) \notin Active)

-----------------------------------------------------------------------------
(* The invariant behind them                                               *)

\* A call that has not begun is as it was at first.
Fresh == \A k \in Calls :
  At(k) \in {"idle", "scanned", "called"} => run[k] = Gone(k, At(k))

\* An engine is at a file of the list, and copies it to a name it found free.
Place(r) ==
  /\ r.at = "seed" => r.update
  /\ r.at \in {"file", "waitfile", "gofile", "copy", "end"} => r.b \in BatchNos
  /\ r.at = "copy" =>
       /\ r.i \in DOMAIN Batches[r.b]
       /\ r.to \in Names /\ r.to[1] = Batches[r.b][r.i] /\ (r.free \/ r.to \in unseen)

AtFile == \A k \in Calls : Place(run[k])

\* One engine at a time, which _state.running tells of.
OneEngine ==
  \/ doubled
  \/ \A k \in Calls : At(k) \in Active =>
       running /\ \A j \in Calls : At(j) \in Active => j = k

\* What is recorded, or was seen, is there.
Recorded ==
  /\ \A id \in Ids, n \in Names : n \in outcomes[id] => archive[n] # None
  /\ \A k \in Calls : \A f \in SeenAs(k, {"same-size", "changed-size"}) :
       archive[<<f, 0>>] # None

\* The files an Update Import has no worklist entry of are those its scan has found
\* there, and are recorded once it has seeded them.
SeededIn(id, list) == Excused(id) \/ \A f \in Files \ list : <<f, 0>> \in outcomes[id]

ToSeed(k, r) ==
  Excused(r.id) \/ Files \ r.list \subseteq SeenAs(k, {"same-size", "changed-size"})

SeededRun(k, r) ==
  r.update => IF r.at \in {"first", "seed"} THEN ToSeed(k, r) ELSE SeededIn(r.id, r.list)

SeededCheckpoint(c) ==
  c.update => \/ SeededIn(c.id, c.list)
              \/ \E k \in Calls :
                   At(k) = "seed" /\ run[k].id = c.id /\ run[k].list = c.list

Seeded ==
  /\ \A k \in Calls : At(k) \in Active => SeededRun(k, run[k])
  /\ checkpoint # None => SeededCheckpoint(checkpoint)

\* The batches that are complete without an error are whole, and of the current one
\* what the engine has passed.
HasTo(r, b, i) ==
  Excused(r.id) \/ \A n \in DOMAIN Batches[b] :
    n < i => Has(r.id, r.update, Batches[b][n])

HasAll(r, b) ==
  Excused(r.id) \/ \A n \in DOMAIN Batches[b] : Has(r.id, r.update, Batches[b][n])

WholeRun(r) ==
  r.errors = 0 =>
    /\ \A b \in r.done : HasAll(r, b)
    /\ r.at \in {"file", "waitfile", "gofile", "copy"} => HasTo(r, r.b, r.i)
    /\ r.at = "end" => HasAll(r, r.b)

WholeCheckpoint(c) == c.errors = 0 => \A b \in c.done : HasAll(c, b)

Whole ==
  /\ \A k \in Calls : At(k) \in Active => WholeRun(run[k])
  /\ checkpoint # None => WholeCheckpoint(checkpoint)

IInv == TypeOK /\ Fresh /\ AtFile /\ OneEngine /\ Recorded /\ Seeded /\ Whole
=============================================================================
